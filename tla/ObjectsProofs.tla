--------------------------- MODULE ObjectsProofs ---------------------------
(***************************************************************************)
(* Theorems about Objects, for any requests that run at the same time, any *)
(* objects, models, block counts and contents.                             *)
(***************************************************************************)
EXTENDS Objects, FiniteSetTheorems, TLAPS

-----------------------------------------------------------------------------
(* What a request is at any time, also when requests interfere.  Of the    *)
(* contents this matters: only a model has a manifest, so that only a      *)
(* model's blocks are looked for, and a tensor is under an id of its name. *)

Suits(o, content) ==
  /\ content.type = "AI_MODEL" => o \in Models
  /\ content \in Tensors => \E m \in Models : o = BlockId(m, content.text)
RightCall(call) ==
  /\ call.op = "store" => /\ call.content \in AllContents /\ Suits(call.o, call.content)
                          /\ call.tier \in Tiers
  /\ call.op = "move" => call.tier \in Tiers
  /\ call.op = "list" => call.o \in Models
RightCalls(calls) == calls \in Seq(Calls) /\ \A i \in DOMAIN calls : RightCall(calls[i])

Requests == [todo : Seq(Calls), stage : Stages, entry : Entry \cup {None}, held : AllContents \cup {None}]
StageOf(call, r) ==
  \/ r.stage = "start"
  \/ r.stage = "found" /\ call.op \in {"read", "delete", "move"}
  \/ r.stage \in {"held", "put"} /\ call.op = "move"
  \/ r.stage = "indexing" /\ call.op \in {"store", "delete", "move"}
Knows(call, r) ==
  /\ r.stage # "start" /\ call.op # "store" => r.entry \in Entry /\ Suits(call.o, r.entry.sum)
  /\ r.stage = "held" => r.held \in AllContents
RightRequest(r) ==
  /\ r \in Requests /\ RightCalls(r.todo)
  /\ r.todo = << >> <=> r = Idle
  /\ r.todo # << >> => StageOf(Head(r.todo), r) /\ Knows(Head(r.todo), r)

TypeInv ==
  /\ index \in [Objects -> Entry \cup {None}]
  /\ \A o \in Objects : index[o] # None => Suits(o, index[o].sum)
  /\ blocks \in [Backends -> [Locations -> AllContents \cup {None}]]
  /\ req \in [Threads -> Requests]
  /\ \A t \in Threads : RightRequest(req[t])
  /\ fresh \in SUBSET Objects
  /\ requests \in 0 .. MaxRequests
  /\ lost \in SUBSET Objects
  /\ named \in SUBSET Blocks

LEMMA TypeInvTypes == TypeInv => TypeOK
BY DEF TypeInv, TypeOK, RightRequest, Requests

LEMMA IdleRight == RightRequest(Idle)
<1>1. Idle \in Requests /\ Idle.todo = << >>
  BY DEF Idle, Requests, Stages
<1> QED
  BY <1>1 DEF RightRequest, RightCalls

(* A request at the start of its next call, or done. *)
LEMMA FromRight ==
  ASSUME NEW calls, RightCalls(calls)
  PROVE  RightRequest(From(calls)) /\ From(calls).todo = calls
<1>1. CASE calls = << >>
  BY <1>1, IdleRight DEF From, Idle
<1>2. CASE calls # << >>
  <2> DEFINE r == [Idle EXCEPT !.todo = calls, !.stage = "start"]
  <2>1. Idle \in Requests
    BY IdleRight DEF RightRequest
  <2>2. r \in Requests /\ r.todo = calls /\ r.stage = "start"
    BY <2>1 DEF Requests, Stages, RightCalls
  <2>3. r # Idle
    BY <1>2, <2>2 DEF Idle
  <2> HIDE DEF r
  <2>4. StageOf(Head(calls), r) /\ Knows(Head(calls), r)
    BY <2>2 DEF StageOf, Knows
  <2>5. RightRequest(r)
    BY <1>2, <2>2, <2>3, <2>4 DEF RightRequest
  <2> QED
    BY <1>2, <2>2, <2>5 DEF From, r
<1> QED
  BY <1>1, <1>2

LEMMA BusyHead ==
  ASSUME NEW r, RightRequest(r), r # Idle
  PROVE  /\ r.todo # << >> /\ Len(r.todo) \in Nat \ {0} /\ 1 \in DOMAIN r.todo
         /\ Head(r.todo) = r.todo[1]
         /\ Head(r.todo) \in Calls /\ RightCall(Head(r.todo))
         /\ RightCalls(Tail(r.todo))
         /\ StageOf(Head(r.todo), r) /\ Knows(Head(r.todo), r)
<1>1. r.todo \in Seq(Calls) /\ r.todo # << >>
  BY DEF RightRequest, RightCalls
<1>2. /\ Len(r.todo) \in Nat \ {0} /\ 1 \in DOMAIN r.todo /\ Head(r.todo) = r.todo[1]
      /\ Head(r.todo) \in Calls /\ Tail(r.todo) \in Seq(Calls)
      /\ Len(Tail(r.todo)) = Len(r.todo) - 1
      /\ \A i \in 1..Len(Tail(r.todo)) : i + 1 \in DOMAIN r.todo /\ Tail(r.todo)[i] = r.todo[i + 1]
  BY <1>1
<1>3. RightCalls(Tail(r.todo))
  BY <1>2 DEF RightRequest, RightCalls
<1> QED
  BY <1>1, <1>2, <1>3 DEF RightRequest, RightCalls

(* A thread that is anywhere in a call is busy. *)
LEMMA DoingBusy ==
  ASSUME TypeInv, NEW t \in Threads, NEW op, NEW stage \in Stages \ {"idle"}, Doing(t, op, stage)
  PROVE  req[t] # Idle
BY DEF Doing, Idle

(* A call that goes on to its next stage. *)
LEMMA StageRight ==
  ASSUME NEW r, RightRequest(r), r # Idle, NEW s \in Requests, s.todo = r.todo,
         StageOf(Head(r.todo), s), Knows(Head(r.todo), s)
  PROVE  RightRequest(s)
<1>1. r.todo # << >>
  BY BusyHead
<1>2. s # Idle
  BY <1>1 DEF Idle
<1> QED
  BY <1>1, <1>2 DEF RightRequest

(* One thread's request changes. *)
LEMMA OneRequest ==
  ASSUME TypeInv, NEW t \in Threads, NEW r, RightRequest(r), req' = [req EXCEPT ![t] = r]
  PROVE  /\ req' \in [Threads -> Requests]
         /\ \A u \in Threads : RightRequest(req'[u])
         /\ req'[t] = r /\ \A u \in Threads : u # t => req'[u] = req[u]
BY DEF TypeInv, RightRequest

LEMMA ReturnRight ==
  ASSUME TypeInv, NEW t \in Threads, req[t] # Idle
  PROVE  RightRequest(From(Tail(req[t].todo))) /\ RightRequest(Idle)
BY IdleRight, BusyHead, FromRight DEF TypeInv

-----------------------------------------------------------------------------
(* New requests.                                                           *)

LEMMA CallsRight ==
  /\ \A o \in Objects, content \in AllContents, tier \in Tiers :
       Suits(o, content) => StoreCall(o, content, tier) \in Calls /\ RightCall(StoreCall(o, content, tier))
  /\ \A o \in Objects : /\ ReadCall(o) \in Calls /\ RightCall(ReadCall(o))
                        /\ ReadManifest(o) \in Calls /\ RightCall(ReadManifest(o))
                        /\ DeleteCall(o) \in Calls /\ RightCall(DeleteCall(o))
  /\ \A o \in Objects, tier \in Tiers : MoveCall(o, tier) \in Calls /\ RightCall(MoveCall(o, tier))
  /\ \A m \in Models, tier \in Tiers : ListAll(m, tier) \in Calls /\ RightCall(ListAll(m, tier))
  /\ \A m \in Models, i \in 1 .. BlockCount : ListTensor(m, i) \in Calls /\ RightCall(ListTensor(m, i))
<1>0. Manifest \in AllContents /\ \A i \in 1 .. BlockCount : Tensor(i) \in AllContents
  BY DEF AllContents, Tensors
<1> USE DEF Calls, Call, RightCall
<1>1. \A o \in Objects, content \in AllContents, tier \in Tiers :
        Suits(o, content) => StoreCall(o, content, tier) \in Calls /\ RightCall(StoreCall(o, content, tier))
  BY DEF StoreCall
<1>2. \A o \in Objects : ReadCall(o) \in Calls /\ RightCall(ReadCall(o))
  BY DEF ReadCall
<1>3. \A o \in Objects : DeleteCall(o) \in Calls /\ RightCall(DeleteCall(o))
  BY DEF DeleteCall
<1>4. \A o \in Objects, tier \in Tiers : MoveCall(o, tier) \in Calls /\ RightCall(MoveCall(o, tier))
  BY DEF MoveCall
<1>5. \A o \in Objects : ReadManifest(o) \in Calls /\ RightCall(ReadManifest(o))
  BY <1>0 DEF ReadManifest
<1>6. \A m \in Models, tier \in Tiers : ListAll(m, tier) \in Calls /\ RightCall(ListAll(m, tier))
  BY DEF ListAll, Objects
<1>7. \A m \in Models, i \in 1 .. BlockCount : ListTensor(m, i) \in Calls /\ RightCall(ListTensor(m, i))
  BY <1>0 DEF ListTensor, Objects
<1> QED
  BY <1>1, <1>2, <1>3, <1>4, <1>5, <1>6, <1>7

LEMMA BlocksAreObjects ==
  /\ \A m \in Models : BlockIds(m) \subseteq Blocks /\ BlockIds(m) \subseteq Objects
  /\ \A m \in Models : \A i \in 1 .. BlockCount : BlockId(m, i) \in BlockIds(m)
BY DEF Objects, Blocks, BlockIds

LEMMA ContentsSuit ==
  /\ \A o : \A content \in Contents : content \in AllContents /\ Suits(o, content)
  /\ \A m \in Models : \A i \in 1 .. BlockCount : Tensor(i) \in AllContents /\ Suits(BlockId(m, i), Tensor(i))
  /\ \A m \in Models : Manifest \in AllContents /\ Suits(m, Manifest)
<1>1. \A content \in Contents : content.type # "AI_MODEL" /\ content.type # "TENSOR"
  BY NamesAssumption DEF Contents
<1>2. \A content \in Tensors : content.type = "TENSOR"
  BY DEF Tensors, Tensor
<1>3. Manifest.type = "AI_MODEL" /\ Manifest \notin Tensors
  BY <1>2 DEF Manifest
<1>4. \A i \in 1 .. BlockCount : Tensor(i) \in Tensors /\ Tensor(i).text = i /\ Tensor(i).type # "AI_MODEL"
  BY DEF Tensors, Tensor
<1>5. \A o : \A content \in Contents : content \in AllContents /\ Suits(o, content)
  BY <1>1, <1>2 DEF AllContents, Suits
<1>6. \A m \in Models : \A i \in 1 .. BlockCount : Tensor(i) \in AllContents /\ Suits(BlockId(m, i), Tensor(i))
  BY <1>4 DEF AllContents, Suits
<1>7. \A m \in Models : Manifest \in AllContents /\ Suits(m, Manifest)
  BY <1>3 DEF AllContents, Suits
<1> QED
  BY <1>5, <1>6, <1>7

(* The calls of every request. *)
LEMMA RequestsRight ==
  /\ \A c1 \in Calls : RightCall(c1) => RightCalls(<<c1>>)
  /\ \A c1, c2 \in Calls : RightCall(c1) /\ RightCall(c2) => RightCalls(<<c1, c2>>)
  /\ \A c1, c2, c3 \in Calls :
       RightCall(c1) /\ RightCall(c2) /\ RightCall(c3) => RightCalls(<<c1, c2, c3>>)
BY DEF RightCalls

Uploading(m, blockTier, tier) ==
  BlocksFirst(m, [i \in 1 .. BlockCount |-> StoreCall(BlockId(m, i), Tensor(i), blockTier)], tier)

LEMMA UploadingCalls ==
  ASSUME NEW m \in Models, NEW blockTier \in Tiers, NEW tier \in Tiers
  PROVE  /\ Uploading(m, blockTier, tier) \in Seq(Calls)
         /\ DOMAIN Uploading(m, blockTier, tier) = 1 .. BlockCount + 1
         /\ \A i \in 1 .. BlockCount :
              Uploading(m, blockTier, tier)[i] = StoreCall(BlockId(m, i), Tensor(i), blockTier)
         /\ Uploading(m, blockTier, tier)[BlockCount + 1] = StoreCall(m, Manifest, tier)
         /\ RightCalls(Uploading(m, blockTier, tier))
<1> DEFINE tensors == [i \in 1 .. BlockCount |-> StoreCall(BlockId(m, i), Tensor(i), blockTier)]
           last == StoreCall(m, Manifest, tier)
<1>1. BlockCount \in Nat
  BY BoundAssumption
<1>2. \A i \in 1 .. BlockCount : BlockId(m, i) \in Objects
  BY BlocksAreObjects
<1>3. \A i \in 1 .. BlockCount :
        /\ StoreCall(BlockId(m, i), Tensor(i), blockTier) \in Calls
        /\ RightCall(StoreCall(BlockId(m, i), Tensor(i), blockTier))
  BY <1>2, CallsRight, ContentsSuit
<1>4. last \in Calls /\ RightCall(last)
  BY CallsRight, ContentsSuit DEF Objects
<1>5. tensors \in Seq(Calls) /\ Len(tensors) = BlockCount
  BY <1>1, <1>3
<1>6. \A i \in 1 .. BlockCount : tensors[i] = StoreCall(BlockId(m, i), Tensor(i), blockTier)
  OBVIOUS
<1>7. Uploading(m, blockTier, tier) = Append(tensors, last)
  BY DEF Uploading, BlocksFirst
<1> HIDE DEF tensors, last
<1>8. /\ Append(tensors, last) \in Seq(Calls)
      /\ DOMAIN Append(tensors, last) = 1 .. BlockCount + 1
      /\ \A i \in 1 .. BlockCount : Append(tensors, last)[i] = tensors[i]
      /\ Append(tensors, last)[BlockCount + 1] = last
  BY <1>1, <1>4, <1>5
<1>9. RightCalls(Append(tensors, last))
  <2> SUFFICES ASSUME NEW i \in 1 .. BlockCount + 1
               PROVE  RightCall(Append(tensors, last)[i])
    BY <1>8 DEF RightCalls
  <2>1. CASE i \in 1 .. BlockCount
    <3>1. Append(tensors, last)[i] = StoreCall(BlockId(m, i), Tensor(i), blockTier)
      BY <1>6, <1>8, <2>1
    <3> QED
      BY <1>3, <2>1, <3>1
  <2>2. CASE i = BlockCount + 1
    <3>1. Append(tensors, last)[i] = last
      BY <1>8, <2>2
    <3> QED
      BY <1>4, <3>1
  <2>3. i \in 1 .. BlockCount \/ i = BlockCount + 1
    BY <1>1
  <2> QED
    BY <2>1, <2>2, <2>3
<1> QED
  BY <1>6, <1>7, <1>8, <1>9 DEF last

(* The lists of calls a request may start with, what it takes, and that it *)
(* names the blocks it deletes or puts something else in.                  *)
BeginsWith(t, calls) ==
  /\ Begin(t, calls) /\ fresh' \in SUBSET fresh
  /\ named \subseteq named' /\ named' \in SUBSET Blocks
Naming(calls, names) ==
  \A i \in DOMAIN calls :
    /\ calls[i].o \in Blocks
    /\ calls[i].op = "delete" \/ (calls[i].op = "store" /\ calls[i].content \in Contents)
    => calls[i].o \in names
StartsRight(t, calls) == RightCalls(calls) /\ BeginsWith(t, calls) /\ Naming(calls, named')

Harmless(calls) == \A i \in DOMAIN calls : calls[i].op \notin {"store", "delete"}

LEMMA HarmlessStarts ==
  ASSUME TypeInv, NEW t, NEW calls, RightCalls(calls), Harmless(calls), Begin(t, calls), UNCHANGED <<fresh, named>>
  PROVE  StartsRight(t, calls)
BY DEF Harmless, StartsRight, BeginsWith, Naming, TypeInv

(* Reads and moves neither store nor delete. *)
Quiet(t, o, calls) ==
  RightCalls(calls) /\ Harmless(calls) /\ Begin(t, calls) /\ UNCHANGED <<fresh, named>>

LEMMA QuietRequests ==
  ASSUME TypeInv, NEW t \in Threads, NEW o \in Objects,
         \/ Read(t, o)
         \/ \E tier \in Tiers : Move(t, o, tier) \/ Optimize(t, o, tier) \/ ArchiveOrRestore(t, o, tier)
  PROVE  \E calls : Quiet(t, o, calls)
<1> DEFINE move(tier) == <<MoveCall(o, tier)>>
           readMove(tier) == <<ReadCall(o), MoveCall(o, tier)>>
           all(tier) == <<ReadManifest(o), MoveCall(o, tier), ListAll(o, tier)>>
           read == <<ReadCall(o)>>
<1>1. RightCalls(read) /\ \A tier \in Tiers : RightCalls(move(tier)) /\ RightCalls(readMove(tier))
  BY CallsRight, RequestsRight
<1>2. o \in Models => \A tier \in Tiers : RightCalls(all(tier))
  BY CallsRight, RequestsRight
<1>3. Harmless(read) /\ \A tier \in Tiers : Harmless(move(tier)) /\ Harmless(readMove(tier)) /\ Harmless(all(tier))
  BY DEF Harmless, MoveCall, ReadCall, ReadManifest, ListAll, Call
<1>4. \A tier \in Tiers : Move(t, o, tier) /\ index[o].sum.type = "AI_MODEL" => o \in Models
  BY DEF Move, TypeInv, Suits
<1>5. /\ UNCHANGED <<fresh, named>>
      /\ \/ Begin(t, read)
         \/ \E tier \in Tiers : \/ Begin(t, move(tier))
                                \/ Begin(t, readMove(tier))
                                \/ o \in Models /\ Begin(t, all(tier))
  <2>1. Read(t, o) => Begin(t, read) /\ UNCHANGED <<fresh, named>>
    BY DEF Read
  <2>2. ASSUME NEW tier \in Tiers, Move(t, o, tier) \/ Optimize(t, o, tier) \/ ArchiveOrRestore(t, o, tier)
        PROVE  /\ UNCHANGED <<fresh, named>>
               /\ \/ Begin(t, read)
                  \/ Begin(t, move(tier))
                  \/ Begin(t, readMove(tier))
                  \/ o \in Models /\ Begin(t, all(tier))
    <3>1. Move(t, o, tier) => /\ UNCHANGED <<fresh, named>>
                              /\ Begin(t, move(tier)) \/ (o \in Models /\ Begin(t, all(tier)))
      BY <1>4 DEF Move
    <3>2. Optimize(t, o, tier) => /\ UNCHANGED <<fresh, named>>
                                  /\ Begin(t, read) \/ Begin(t, readMove(tier))
      BY DEF Optimize
    <3>3. ArchiveOrRestore(t, o, tier) => UNCHANGED <<fresh, named>> /\ Begin(t, move(tier))
      BY DEF ArchiveOrRestore
    <3> HIDE DEF move, readMove, all, read
    <3> QED
      BY <2>2, <3>1, <3>2, <3>3
  <2>3. CASE Read(t, o)
    BY <2>1, <2>3
  <2>4. CASE \E tier \in Tiers : Move(t, o, tier) \/ Optimize(t, o, tier) \/ ArchiveOrRestore(t, o, tier)
    <3>1. PICK tier \in Tiers : Move(t, o, tier) \/ Optimize(t, o, tier) \/ ArchiveOrRestore(t, o, tier)
      BY <2>4
    <3> HIDE DEF move, readMove, all, read
    <3> QED
      BY <2>2, <3>1
  <2> QED
    BY <2>3, <2>4
<1> HIDE DEF move, readMove, all, read
<1>6. CASE Begin(t, read)
  BY <1>1, <1>3, <1>5, <1>6 DEF Quiet
<1>7. ASSUME NEW tier \in Tiers,
             Begin(t, move(tier)) \/ Begin(t, readMove(tier)) \/ (o \in Models /\ Begin(t, all(tier)))
      PROVE  \E calls : Quiet(t, o, calls)
  <2>1. \A calls : RightCalls(calls) /\ Harmless(calls) /\ Begin(t, calls) => Quiet(t, o, calls)
    BY <1>5 DEF Quiet
  <2> QED
    BY <1>1, <1>2, <1>3, <1>7, <2>1
<1> QED
  BY <1>5, <1>6, <1>7

LEMMA QuietTensor ==
  ASSUME NEW t \in Threads, NEW m \in Models, NEW i \in 1 .. BlockCount, ReadTensor(t, m, i)
  PROVE  \E calls : Quiet(t, m, calls)
<1>1. m \in Objects
  BY DEF Objects
<1>2. RightCalls(<<ReadManifest(m), ListTensor(m, i)>>)
  BY <1>1, CallsRight, RequestsRight
<1>3. Harmless(<<ReadManifest(m), ListTensor(m, i)>>)
  BY DEF Harmless, ReadManifest, ListTensor, Call
<1> QED
  BY <1>2, <1>3 DEF ReadTensor, Quiet

LEMMA RequestBegins ==
  ASSUME TypeInv, NEW t \in Threads, Request(t)
  PROVE  \E calls : StartsRight(t, calls)
<1>0. /\ \A o \in Plain \cup Models : o \in Objects
      /\ \A o \in Plain \cup Models : o \notin Blocks
  BY NamesAssumption DEF Objects
<1>1. ASSUME NEW o \in Plain, NEW content \in Contents, NEW tier \in Tiers, Upload(t, o, content, tier)
      PROVE  \E calls : StartsRight(t, calls)
  <2> DEFINE store == StoreCall(o, content, tier)
  <2>1. RightCalls(<<store>>)
    BY <1>0, ContentsSuit, CallsRight, RequestsRight
  <2>2. Naming(<<store>>, named')
    BY <1>0 DEF Naming, StoreCall, Call
  <2>3. BeginsWith(t, <<store>>)
    BY <1>1 DEF Upload, BeginsWith, TypeInv
  <2> QED
    BY <2>1, <2>2, <2>3 DEF StartsRight
<1>2. ASSUME NEW o \in Objects, NEW content \in Contents, NEW tier \in Tiers, Replace(t, o, content, tier)
      PROVE  \E calls : StartsRight(t, calls)
  <2> DEFINE store == StoreCall(o, content, tier)
  <2>1. store \in Calls /\ RightCall(store) /\ DeleteCall(o) \in Calls /\ RightCall(DeleteCall(o))
    BY ContentsSuit, CallsRight
  <2>2. RightCalls(<<DeleteCall(o), store>>) /\ RightCalls(<<store>>)
    BY <2>1, RequestsRight
  <2>3. named' = named \cup ({o} \cap Blocks)
    BY <1>2 DEF Replace
  <2>4. Naming(<<DeleteCall(o), store>>, named') /\ Naming(<<store>>, named')
    BY <2>3 DEF Naming, StoreCall, DeleteCall, Call
  <2>5. \/ Begin(t, <<DeleteCall(o), store>>) \/ Begin(t, <<store>>)
    BY <1>2 DEF Replace
  <2>6. fresh' \in SUBSET fresh /\ named \subseteq named' /\ named' \in SUBSET Blocks
    BY <1>2, <2>3 DEF Replace, TypeInv
  <2> HIDE DEF store
  <2> QED
    BY <2>2, <2>4, <2>5, <2>6 DEF StartsRight, BeginsWith
<1>3. ASSUME NEW m \in Models, NEW blockTier \in Tiers, NEW tier \in Tiers, UploadModel(t, m, blockTier, tier)
      PROVE  \E calls : StartsRight(t, calls)
  <2>1. Begin(t, Uploading(m, blockTier, tier)) /\ fresh' \in SUBSET fresh /\ named' = named
    BY <1>3 DEF UploadModel, Uploading
  <2>2. \A i \in 1 .. BlockCount : Tensor(i) \notin Contents
    BY NamesAssumption DEF Tensor, Contents
  <2>3. Naming(Uploading(m, blockTier, tier), named')
    <3> SUFFICES ASSUME NEW i \in DOMAIN Uploading(m, blockTier, tier)
                 PROVE  LET call == Uploading(m, blockTier, tier)[i]
                        IN call.op = "store" /\ (call.o \notin Blocks \/ call.content \notin Contents)
      BY DEF Naming
    <3>1. i \in 1 .. BlockCount \/ i = BlockCount + 1
      BY UploadingCalls, BoundAssumption
    <3>2. \A o, content, k :
            LET call == StoreCall(o, content, k) IN call.op = "store" /\ call.o = o /\ call.content = content
      BY DEF StoreCall, Call
    <3>3. CASE i \in 1 .. BlockCount
      BY <2>2, <3>2, <3>3, UploadingCalls
    <3>4. CASE i = BlockCount + 1
      BY <1>0, <3>2, <3>4, UploadingCalls
    <3> QED
      BY <3>1, <3>3, <3>4
  <2> QED
    BY <2>1, <2>3, UploadingCalls DEF StartsRight, BeginsWith, TypeInv
<1>4. ASSUME NEW o \in Objects, Delete(t, o)
      PROVE  \E calls : StartsRight(t, calls)
  <2>1. RightCalls(<<DeleteCall(o)>>)
    BY CallsRight, RequestsRight
  <2>2. Naming(<<DeleteCall(o)>>, named')
    BY <1>4 DEF Delete, Naming, DeleteCall, Call
  <2>3. BeginsWith(t, <<DeleteCall(o)>>)
    BY <1>4 DEF Delete, BeginsWith, TypeInv
  <2> QED
    BY <2>1, <2>2, <2>3 DEF StartsRight
<1>5. ASSUME NEW o \in Objects,
             \/ Read(t, o)
             \/ \E tier \in Tiers : Move(t, o, tier) \/ Optimize(t, o, tier) \/ ArchiveOrRestore(t, o, tier)
      PROVE  \E calls : StartsRight(t, calls)
  <2>1. PICK calls : Quiet(t, o, calls)
    BY <1>5, QuietRequests
  <2> QED
    BY <2>1, HarmlessStarts DEF Quiet
<1>6. ASSUME NEW m \in Models, NEW i \in 1 .. BlockCount, ReadTensor(t, m, i)
      PROVE  \E calls : StartsRight(t, calls)
  <2>1. PICK calls : Quiet(t, m, calls)
    BY <1>6, QuietTensor
  <2> QED
    BY <2>1, HarmlessStarts DEF Quiet
<1> QED
  BY <1>1, <1>2, <1>3, <1>4, <1>5, <1>6 DEF Request, Tiers

(* The calls for a model's blocks, in whatever order the index has them.   *)
BlockCall(b, tier) == IF tier = None THEN ReadCall(b) ELSE MoveCall(b, tier)
BlockCalls(ids, tier) == [i \in DOMAIN ids |-> BlockCall(ids[i], tier)]

Listing(calls, m, tier, rest) ==
  \E S \in SUBSET BlockIds(m) : \E ids \in SetToSeqs(S) : calls = BlockCalls(ids, tier) \o rest
ForBlocks(calls, m, tier, rest) ==
  \A i \in DOMAIN calls :
    \/ \E b \in BlockIds(m) : calls[i] = BlockCall(b, tier)
    \/ \E j \in DOMAIN rest : calls[i] = rest[j]

LEMMA ListedCalls ==
  ASSUME NEW m \in Models, NEW tier \in Tiers \cup {None}, NEW rest, RightCalls(rest),
         NEW calls, Listing(calls, m, tier, rest)
  PROVE  RightCalls(calls) /\ ForBlocks(calls, m, tier, rest)
<1>01. PICK S \in SUBSET BlockIds(m) : \E ids \in SetToSeqs(S) : calls = BlockCalls(ids, tier) \o rest
  BY DEF Listing
<1>0. PICK ids \in SetToSeqs(S) : calls = BlockCalls(ids, tier) \o rest
  BY <1>01
<1> DEFINE each == BlockCalls(ids, tier)
<1>1. BlockIds(m) \subseteq Objects
  BY BlocksAreObjects
<1>2. IsFiniteSet(BlockIds(m))
  <2>1. IsFiniteSet(1 .. BlockCount)
    BY FS_Interval, BoundAssumption
  <2>2. BlockIds(m) = {BlockId(m, i) : i \in 1 .. BlockCount}
    BY DEF BlockIds
  <2>3. IsFiniteSet({BlockId(m, i) : i \in 1 .. BlockCount})
    <3> DEFINE f == [i \in 1 .. BlockCount |-> BlockId(m, i)]
               T == {BlockId(m, i) : i \in 1 .. BlockCount}
    <3>1. f \in Surjection(1 .. BlockCount, T)
      BY DEF Surjection
    <3> QED
      BY <2>1, <3>1, FS_Surjection
  <2> QED
    BY <2>2, <2>3
<1>3. Cardinality(S) \in Nat
  BY <1>2, FS_Subset, FS_CardinalityType
<1>4. ids \in [1 .. Cardinality(S) -> S]
  BY DEF SetToSeqs
<1>5. \A b \in BlockIds(m) : BlockCall(b, tier) \in Calls /\ RightCall(BlockCall(b, tier))
  BY <1>1, CallsRight DEF BlockCall
<1>6. \A i \in 1 .. Cardinality(S) : ids[i] \in BlockIds(m)
  BY <1>4
<1>7. each \in Seq(Calls) /\ Len(each) = Cardinality(S)
      /\ \A i \in 1 .. Cardinality(S) : each[i] = BlockCall(ids[i], tier)
  <2>1. DOMAIN ids = 1 .. Cardinality(S)
    BY <1>4
  <2>2. each = [i \in 1 .. Cardinality(S) |-> BlockCall(ids[i], tier)]
    BY <2>1 DEF BlockCalls
  <2> QED
    BY <1>3, <1>5, <1>6, <2>2
<1> HIDE DEF each
<1>8. rest \in Seq(Calls) /\ \A j \in DOMAIN rest : RightCall(rest[j])
  BY DEF RightCalls
<1>9. /\ calls \in Seq(Calls)
      /\ \A i \in DOMAIN calls :
           \/ i \in 1 .. Cardinality(S) /\ calls[i] = each[i]
           \/ (i - Cardinality(S)) \in DOMAIN rest /\ calls[i] = rest[i - Cardinality(S)]
  <2>1. calls = each \o rest
    BY <1>0 DEF each
  <2> QED
    BY <1>3, <1>7, <1>8, <2>1
<1>10. \A i \in DOMAIN calls :
         \/ \E b \in BlockIds(m) : calls[i] = BlockCall(b, tier)
         \/ \E j \in DOMAIN rest : calls[i] = rest[j]
  <2> TAKE i \in DOMAIN calls
  <2>1. CASE i \in 1 .. Cardinality(S) /\ calls[i] = each[i]
    BY <1>6, <1>7, <2>1
  <2>2. CASE (i - Cardinality(S)) \in DOMAIN rest /\ calls[i] = rest[i - Cardinality(S)]
    BY <2>2
  <2> QED
    BY <1>9, <2>1, <2>2
<1>11. RightCalls(calls)
  BY <1>5, <1>8, <1>9, <1>10 DEF RightCalls
<1> QED
  BY <1>10, <1>11 DEF ForBlocks

-----------------------------------------------------------------------------
(* Each step keeps the types.                                              *)

LEMMA CurrentRight ==
  ASSUME TypeInv, NEW t \in Threads, req[t] # Idle
  PROVE  /\ Current(t) \in Calls /\ Current(t).o \in Objects /\ RightCall(Current(t))
         /\ StageOf(Current(t), req[t]) /\ Knows(Current(t), req[t])
         /\ req[t] \in Requests /\ RightRequest(req[t])
         /\ Current(t).op \in {"store", "read", "delete", "move", "list"}
<1>1. RightRequest(req[t]) /\ req[t] \in Requests
  BY DEF TypeInv
<1>2. Current(t) \in Calls /\ RightCall(Current(t)) /\ StageOf(Current(t), req[t]) /\ Knows(Current(t), req[t])
  BY <1>1, BusyHead DEF Current
<1> QED
  BY <1>1, <1>2 DEF Calls

LEMMA PlaceType ==
  ASSUME NEW o \in Objects, NEW content \in AllContents
  PROVE  Location(o, content) \in Locations
BY DEF Location, Locations, AllContents, Contents, Manifest, Tensors, Tensor

LEMMA BackendType == \A tier \in Tiers : BackendOf(tier) \in Backends
BY DEF Tiers, BackendOf, Backends

LEMMA BeginType ==
  ASSUME TypeInv, NEW t \in Threads, NEW calls, RightCalls(calls), BeginsWith(t, calls)
  PROVE  TypeInv' /\ req' = [req EXCEPT ![t] = From(calls)]
<1>1. req' = [req EXCEPT ![t] = From(calls)] /\ RightRequest(From(calls))
  BY FromRight DEF BeginsWith, Begin, Continue
<1>2. req' \in [Threads -> Requests] /\ \A u \in Threads : RightRequest(req'[u])
  BY <1>1, OneRequest
<1>3. requests' \in 0 .. MaxRequests
  BY BoundAssumption DEF BeginsWith, Begin, TypeInv
<1> QED
  BY <1>1, <1>2, <1>3 DEF BeginsWith, Begin, TypeInv

LEMMA LookupType ==
  ASSUME TypeInv, NEW t \in Threads, Lookup(t)
  PROVE  TypeInv'
<1> DEFINE call == Current(t)
           entry == index[call.o]
<1>1. req[t] # Idle
  BY DoingBusy DEF Lookup, Stages
<1>2. call.o \in Objects /\ req[t] \in Requests /\ RightRequest(req[t])
  BY <1>1, CurrentRight
<1>3. entry # None => entry \in Entry /\ Suits(call.o, entry.sum)
  BY <1>2 DEF TypeInv
<1>4. ASSUME NEW stage \in {"found", "indexing"}, entry # None,
             stage = "found" => call.op \in {"read", "delete", "move"},
             stage = "indexing" => call.op = "move"
      PROVE  RightRequest([req[t] EXCEPT !.stage = stage, !.entry = entry])
  <2> DEFINE s == [req[t] EXCEPT !.stage = stage, !.entry = entry]
  <2>1. s \in Requests /\ s.todo = req[t].todo /\ s.stage = stage /\ s.entry = entry
    BY <1>2, <1>3, <1>4 DEF Requests, Stages
  <2> HIDE DEF s
  <2>2. StageOf(call, s) /\ Knows(call, s)
    BY <1>3, <1>4, <2>1 DEF StageOf, Knows
  <2>3. RightRequest(s)
    BY <1>1, <1>2, <2>1, <2>2, StageRight DEF Current
  <2> QED
    BY <2>3 DEF s
<1>5. \E r : RightRequest(r) /\ req' = [req EXCEPT ![t] = r]
  <2>1. call.op \in {"read", "delete", "move"}
    BY DEF Lookup, Doing, Current
  <2>2. RightRequest(From(Tail(req[t].todo))) /\ RightRequest(Idle)
    BY <1>1, ReturnRight
  <2>3. \/ req' = [req EXCEPT ![t] = Idle]
        \/ req' = [req EXCEPT ![t] = From(Tail(req[t].todo))]
        \/ \E stage \in {"found", "indexing"} :
             /\ entry # None /\ (stage = "indexing" => call.op = "move")
             /\ req' = [req EXCEPT ![t] = [req[t] EXCEPT !.stage = stage, !.entry = entry]]
    BY <1>2 DEF Lookup, Raise, Return, Continue, TypeInv
  <2> QED
    BY <1>4, <2>1, <2>2, <2>3
<1>6. req' \in [Threads -> Requests] /\ \A u \in Threads : RightRequest(req'[u])
  BY <1>5, OneRequest
<1> QED
  BY <1>6 DEF Lookup, TypeInv

LEMMA GetType ==
  ASSUME TypeInv, NEW t \in Threads, Get(t)
  PROVE  TypeInv'
<1> DEFINE call == Current(t)
           entry == req[t].entry
           bytes == Stored(call.o, entry)
<1>1. req[t] # Idle /\ call.op \in {"read", "move"} /\ req[t].stage = "found"
  BY DoingBusy DEF Get, Stages, Doing, Current
<1>2. /\ call.o \in Objects /\ req[t] \in Requests /\ RightRequest(req[t])
      /\ entry \in Entry /\ Suits(call.o, entry.sum)
  BY <1>1, CurrentRight DEF Knows
<1>3. bytes \in AllContents \cup {None}
  <2>1. Location(call.o, entry.sum) \in Locations /\ BackendOf(entry.tier) \in Backends
    BY <1>2, PlaceType, BackendType DEF Entry
  <2> QED
    BY <2>1 DEF Stored, TypeInv
<1>4. ASSUME bytes # None, call.op = "move"
      PROVE  RightRequest([req[t] EXCEPT !.stage = "held", !.held = bytes])
  <2> DEFINE s == [req[t] EXCEPT !.stage = "held", !.held = bytes]
  <2>1. s \in Requests /\ s.todo = req[t].todo /\ s.stage = "held" /\ s.entry = entry /\ s.held = bytes
    BY <1>2, <1>3, <1>4 DEF Requests, Stages
  <2>2. bytes \in AllContents
    BY <1>3, <1>4
  <2> HIDE DEF s, bytes
  <2>3. StageOf(call, s) /\ Knows(call, s)
    BY <1>2, <1>4, <2>1, <2>2 DEF StageOf, Knows
  <2>4. RightRequest(s)
    BY <1>1, <1>2, <2>1, <2>3, StageRight DEF Current
  <2> QED
    BY <2>4 DEF s
<1>5. \E r : RightRequest(r) /\ req' = [req EXCEPT ![t] = r]
  <2>2. RightRequest(From(Tail(req[t].todo))) /\ RightRequest(Idle)
    BY <1>1, ReturnRight
  <2>3. \/ req' = [req EXCEPT ![t] = Idle]
        \/ req' = [req EXCEPT ![t] = From(Tail(req[t].todo))]
        \/ /\ bytes # None /\ call.op = "move"
           /\ req' = [req EXCEPT ![t] = [req[t] EXCEPT !.stage = "held", !.held = bytes]]
    BY <1>2 DEF Get, Raise, Return, Continue, TypeInv
  <2> QED
    BY <1>4, <2>2, <2>3
<1>6. req' \in [Threads -> Requests] /\ \A u \in Threads : RightRequest(req'[u])
  BY <1>5, OneRequest
<1> QED
  BY <1>6 DEF Get, TypeInv

LEMMA PutType ==
  ASSUME TypeInv, NEW t \in Threads, Put(t)
  PROVE  TypeInv'
<1> DEFINE call == Current(t)
           bytes == IF call.op = "store" THEN call.content ELSE req[t].held
           place == IF call.op = "store" THEN bytes ELSE req[t].entry.sum
           stage == IF call.op = "store" THEN "indexing" ELSE "put"
           s == [req[t] EXCEPT !.stage = stage]
<1>1. /\ req[t] # Idle
      /\ \/ call.op = "store" /\ req[t].stage = "start"
         \/ call.op = "move" /\ req[t].stage = "held"
  BY DoingBusy DEF Put, Stages, Doing, Current
<1>2. /\ call.o \in Objects /\ req[t] \in Requests /\ RightRequest(req[t]) /\ RightCall(call)
      /\ Knows(call, req[t])
  BY <1>1, CurrentRight
<1>3. bytes \in AllContents /\ place \in AllContents /\ call.tier \in Tiers
  BY <1>1, <1>2 DEF RightCall, Knows, Entry
<1>4. Location(call.o, place) \in Locations /\ NewBackend(t) \in Backends
  BY <1>2, <1>3, PlaceType, BackendType DEF NewBackend
<1>5. /\ blocks' = [blocks EXCEPT ![NewBackend(t)][Location(call.o, place)] = bytes]
      /\ req' = [req EXCEPT ![t] = s]
  BY <1>2 DEF Put, TypeInv
<1>6. s \in Requests /\ s.todo = req[t].todo /\ s.stage = stage /\ s.entry = req[t].entry
  BY <1>2 DEF Requests, Stages
<1> HIDE DEF s, bytes, place
<1>7. StageOf(call, s) /\ Knows(call, s)
  BY <1>1, <1>2, <1>6 DEF StageOf, Knows
<1>8. RightRequest(s)
  BY <1>1, <1>2, <1>6, <1>7, StageRight DEF Current
<1>9. req' \in [Threads -> Requests] /\ \A u \in Threads : RightRequest(req'[u])
  BY <1>5, <1>8, OneRequest
<1>10. blocks' \in [Backends -> [Locations -> AllContents \cup {None}]]
  BY <1>3, <1>4, <1>5 DEF TypeInv
<1> QED
  BY <1>9, <1>10 DEF Put, TypeInv

LEMMA EraseType ==
  ASSUME TypeInv, NEW t \in Threads, Erase(t)
  PROVE  TypeInv'
<1> DEFINE call == Current(t)
           entry == req[t].entry
           s == [req[t] EXCEPT !.stage = "indexing"]
<1>1. /\ req[t] # Idle
      /\ \/ call.op = "delete" /\ req[t].stage = "found"
         \/ call.op = "move" /\ req[t].stage = "put"
  BY DoingBusy DEF Erase, Stages, Doing, Current
<1>2. /\ call.o \in Objects /\ req[t] \in Requests /\ RightRequest(req[t])
      /\ Knows(call, req[t]) /\ entry \in Entry
  BY <1>1, CurrentRight DEF Knows
<1>3. Location(call.o, entry.sum) \in Locations /\ BackendOf(entry.tier) \in Backends
  BY <1>2, PlaceType, BackendType DEF Entry
<1>4. /\ blocks' = [blocks EXCEPT ![BackendOf(entry.tier)][Location(call.o, entry.sum)] = None]
      /\ req' = [req EXCEPT ![t] = s]
  BY <1>2 DEF Erase, TypeInv
<1>5. s \in Requests /\ s.todo = req[t].todo /\ s.stage = "indexing" /\ s.entry = entry
  BY <1>2 DEF Requests, Stages
<1> HIDE DEF s
<1>6. StageOf(call, s) /\ Knows(call, s)
  BY <1>1, <1>2, <1>5 DEF StageOf, Knows
<1>7. RightRequest(s)
  BY <1>1, <1>2, <1>5, <1>6, StageRight DEF Current
<1>8. req' \in [Threads -> Requests] /\ \A u \in Threads : RightRequest(req'[u])
  BY <1>4, <1>7, OneRequest
<1>9. blocks' \in [Backends -> [Locations -> AllContents \cup {None}]]
  BY <1>3, <1>4 DEF TypeInv
<1> QED
  BY <1>8, <1>9 DEF Erase, TypeInv

LEMMA RegisterType ==
  ASSUME TypeInv, NEW t \in Threads, Register(t)
  PROVE  TypeInv'
<1> DEFINE call == Current(t)
           sum == IF call.op = "store" THEN call.content ELSE req[t].entry.sum
<1>1. req[t] # Idle /\ call.op \in {"store", "move"} /\ req[t].stage = "indexing"
  BY DoingBusy DEF Register, Stages, Doing, Current
<1>2. call.o \in Objects /\ RightCall(call) /\ Knows(call, req[t])
  BY <1>1, CurrentRight
<1>3. sum \in AllContents /\ Suits(call.o, sum) /\ call.tier \in Tiers
  BY <1>1, <1>2 DEF RightCall, Knows, Entry
<1>4. index' = [index EXCEPT ![call.o] = [tier |-> call.tier, sum |-> sum]]
  BY DEF Register
<1> HIDE DEF sum
<1>5. [tier |-> call.tier, sum |-> sum] \in Entry
  BY <1>3 DEF Entry
<1>6. index' \in [Objects -> Entry \cup {None}] /\ \A o \in Objects : index'[o] # None => Suits(o, index'[o].sum)
  BY <1>2, <1>3, <1>4, <1>5 DEF TypeInv
<1>7. RightRequest(From(Tail(req[t].todo)))
  BY <1>1, ReturnRight
<1>8. req' \in [Threads -> Requests] /\ \A u \in Threads : RightRequest(req'[u])
  BY <1>7, OneRequest DEF Register, Return, Continue
<1> QED
  BY <1>6, <1>8 DEF Register, TypeInv

LEMMA UnindexType ==
  ASSUME TypeInv, NEW t \in Threads, Unindex(t)
  PROVE  TypeInv'
<1>1. req[t] # Idle
  BY DoingBusy DEF Unindex, Stages
<1>2. RightRequest(From(Tail(req[t].todo)))
  BY <1>1, ReturnRight
<1>3. req' \in [Threads -> Requests] /\ \A u \in Threads : RightRequest(req'[u])
  BY <1>2, OneRequest DEF Unindex, Return, Continue
<1>4. index' = [index EXCEPT ![Current(t).o] = None]
  BY DEF Unindex
<1>5. index' \in [Objects -> Entry \cup {None}] /\ \A o \in Objects : index'[o] # None => Suits(o, index'[o].sum)
  BY <1>4 DEF TypeInv
<1> QED
  BY <1>3, <1>5 DEF Unindex, TypeInv

LEMMA ListBlocksContinues ==
  ASSUME TypeInv, NEW t \in Threads, ListBlocks(t)
  PROVE  /\ req[t] # Idle /\ Current(t).op = "list" /\ Current(t).o \in Models
         /\ \E calls :
              /\ RightCalls(calls) /\ req' = [req EXCEPT ![t] = From(calls)]
              /\ ForBlocks(calls, Current(t).o, Current(t).tier, Tail(req[t].todo))
<1>1. req[t] # Idle /\ Current(t).op = "list"
  BY DoingBusy DEF ListBlocks, Stages, Doing, Current
<1>2. PICK m : m = Current(t).o
  OBVIOUS
<1>3. PICK tier : tier = Current(t).tier
  OBVIOUS
<1>4. PICK rest : rest = Tail(req[t].todo)
  OBVIOUS
<1>5. m \in Models /\ tier \in Tiers \cup {None} /\ RightCalls(rest)
  BY <1>1, <1>2, <1>3, <1>4, CurrentRight, BusyHead DEF RightCall, Calls
<1>60. PICK S : S = {b \in BlockIds(m) : /\ index[b] # None /\ index[b].sum.type = "TENSOR"
                                         /\ Current(t).content \in {None, index[b].sum}}
  OBVIOUS
<1>61. S \in SUBSET BlockIds(m)
  BY <1>60
<1>6. PICK ids \in SetToSeqs(S) :
        req' = [req EXCEPT ![t] = From(BlockCalls(ids, tier) \o rest)]
  BY <1>2, <1>3, <1>4, <1>60 DEF ListBlocks, Continue, BlockCall, BlockCalls
<1>7. PICK calls : calls = BlockCalls(ids, tier) \o rest
  OBVIOUS
<1>8. Listing(calls, m, tier, rest)
  BY <1>61, <1>7 DEF Listing
<1>9. RightCalls(calls) /\ ForBlocks(calls, m, tier, rest)
  BY <1>5, <1>8, ListedCalls
<1>10. ForBlocks(calls, Current(t).o, Current(t).tier, Tail(req[t].todo))
  BY <1>2, <1>3, <1>4, <1>9
<1>11. req' = [req EXCEPT ![t] = From(calls)]
  BY <1>6, <1>7
<1> QED
  BY <1>1, <1>2, <1>5, <1>9, <1>10, <1>11

LEMMA TypeStep ==
  ASSUME TypeInv, [Next]_vars
  PROVE  TypeInv'
<1>1. CASE Restart
  <2>1. req' \in [Threads -> Requests] /\ \A u \in Threads : RightRequest(req'[u])
    BY <1>1, IdleRight DEF Restart, RightRequest
  <2>2. blocks' \in [Backends -> [Locations -> AllContents \cup {None}]]
    BY <1>1 DEF Restart, TypeInv
  <2> QED
    BY <1>1, <2>1, <2>2 DEF Restart, TypeInv
<1>2. ASSUME NEW t \in Threads, Request(t)
      PROVE  TypeInv'
  BY <1>2, RequestBegins, BeginType DEF StartsRight
<1>3. ASSUME NEW t \in Threads, ListBlocks(t)
      PROVE  TypeInv'
  <2>1. PICK calls : RightCalls(calls) /\ req' = [req EXCEPT ![t] = From(calls)]
    BY <1>3, ListBlocksContinues
  <2>2. req' \in [Threads -> Requests] /\ \A u \in Threads : RightRequest(req'[u])
    BY <2>1, FromRight, OneRequest
  <2> QED
    BY <1>3, <2>2 DEF ListBlocks, TypeInv
<1>4. ASSUME NEW t \in Threads, Step(t)
      PROVE  TypeInv'
  BY <1>3, <1>4, LookupType, GetType, PutType, EraseType, RegisterType, UnindexType DEF Step
<1>5. ASSUME NEW t \in Threads, Abort(t)
      PROVE  TypeInv'
  <2>1. req' \in [Threads -> Requests] /\ \A u \in Threads : RightRequest(req'[u])
    BY <1>5, IdleRight, OneRequest DEF Abort, Raise
  <2> QED
    BY <1>5, <2>1 DEF Abort, TypeInv
<1>6. CASE UNCHANGED vars
  BY <1>6 DEF vars, TypeInv
<1> QED
  BY <1>1, <1>2, <1>4, <1>5, <1>6 DEF Next

LEMMA TypeInit == Init => TypeInv
<1> SUFFICES ASSUME Init PROVE TypeInv
  OBVIOUS
<1>1. req \in [Threads -> Requests] /\ \A u \in Threads : RightRequest(req[u])
  BY IdleRight DEF Init, RightRequest
<1>2. requests \in 0 .. MaxRequests
  BY BoundAssumption DEF Init
<1> QED
  BY <1>1, <1>2 DEF Init, TypeInv

(* Every variable keeps its type, whatever requests do to each other.      *)
THEOREM TypeCorrect == Spec => []TypeOK
<1>1. TypeInv /\ [Next]_vars => TypeInv'
  BY TypeStep
<1> QED
  BY <1>1, TypeInit, TypeInvTypes, PTL DEF Spec

-----------------------------------------------------------------------------
(* What an entry stands for. *)

LEMMA StandingFor ==
  ASSUME NEW c \in AllContents
  PROVE  /\ c \in StandsFor(c) /\ StandsFor(c) \subseteq AllContents /\ None \notin StandsFor(c)
         /\ \A d \in StandsFor(c) : d.type = c.type /\ StandsFor(d) = StandsFor(c)
<1>1. CASE c.type = "TENSOR"
  <2>1. c \in Tensors
    BY <1>1, NamesAssumption DEF AllContents, Contents, Manifest
  <2>2. PICK i \in 1 .. BlockCount : c = Tensor(i)
    BY <2>1 DEF Tensors
  <2>3. \A j \in 1 .. BlockCount : Tensor(j).type = "TENSOR" /\ Tensor(j).text = j /\ Tensor(j) \in AllContents
    BY DEF Tensor, Tensors, AllContents
  <2>4. \A j \in 1 .. BlockCount : StandsFor(Tensor(j)) = {Tensor(k) : k \in Sharing(j)}
    BY <2>3 DEF StandsFor
  <2>5. \A j \in Sharing(i) : j \in 1 .. BlockCount /\ Sharing(j) = Sharing(i)
    BY DEF Sharing
  <2>6. i \in Sharing(i)
    BY DEF Sharing
  <2>7. StandsFor(c) \subseteq AllContents /\ c \in StandsFor(c)
    BY <2>2, <2>3, <2>4, <2>5, <2>6
  <2>8. \A d \in StandsFor(c) : d.type = c.type /\ StandsFor(d) = StandsFor(c)
    <3> SUFFICES ASSUME NEW d \in StandsFor(c)
                 PROVE  d.type = c.type /\ StandsFor(d) = StandsFor(c)
      OBVIOUS
    <3>1. PICK j \in Sharing(i) : d = Tensor(j)
      BY <2>2, <2>4
    <3> QED
      BY <2>2, <2>3, <2>4, <2>5, <3>1
  <2> QED
    BY <2>7, <2>8, NoneAssumption
<1>2. CASE c.type # "TENSOR"
  BY <1>2, NoneAssumption DEF StandsFor
<1> QED
  BY <1>1, <1>2

(* Tensors that are stored under one id share it. *)
LEMMA OneIdOneBlock ==
  ASSUME NEW content \in Tensors, NEW m \in Models, NEW k \in 1 .. BlockCount, Suits(BlockId(m, k), content)
  PROVE  content \in StandsFor(Tensor(k))
<1>1. PICK i \in 1 .. BlockCount : content = Tensor(i)
  BY DEF Tensors
<1>2. PICK n \in Models : BlockId(m, k) = BlockId(n, i)
  BY <1>1 DEF Suits, Tensor
<1>3. i \in Sharing(k)
  BY <1>2 DEF BlockId, Sharing
<1> QED
  BY <1>1, <1>3 DEF StandsFor, Tensor

-----------------------------------------------------------------------------
(* Requests that keep to CareSpec.  A request that stores does nothing     *)
(* else but delete, and what it stores is not in the index by then, or is  *)
(* there as a tensor of the same upload that shares its id; a model's      *)
(* tensors are there before its manifest.  What a call knows of its object *)
(* stays true while it is at work, because no other request changes that   *)
(* object.                                                                 *)

Fits(entry, call) == entry.tier = call.tier /\ entry.sum \in StandsFor(call.content)
HasIn(ix, m, k) == ix[BlockId(m, k)] # None /\ ix[BlockId(m, k)].sum \in StandsFor(Tensor(k))
StoresTensor(call, m, k) ==
  call.op = "store" /\ call.o = BlockId(m, k) /\ call.content \in StandsFor(Tensor(k))

InOrder(calls) ==
  \A i \in DOMAIN calls : calls[i].op = "store" =>
    \A j \in 1 .. i - 1 :
      /\ calls[j].op \in {"store", "delete"}
      /\ calls[j].o = calls[i].o /\ calls[j].op = "store" => Fits([tier |-> calls[j].tier, sum |-> calls[j].content], calls[i])
      /\ calls[i].content = Manifest => calls[j].op = "store" /\ calls[j].content \in Tensors
Clear(calls, ix, new) ==
  \A i \in DOMAIN calls : calls[i].op = "store" =>
    /\ calls[i].o \notin new
    /\ \/ ix[calls[i].o] = None \/ Fits(ix[calls[i].o], calls[i])
       \/ \E j \in 1 .. i - 1 : calls[j].o = calls[i].o
    /\ calls[i].content = Manifest => \A k \in 1 .. BlockCount :
         HasIn(ix, calls[i].o, k) \/ \E j \in 1 .. i - 1 : StoresTensor(calls[j], calls[i].o, k)
Careful(call, r, ix, bl) ==
  /\ call.op = "delete" /\ r.stage \in {"found", "indexing"} => r.entry = ix[call.o]
  /\ call.op = "move" /\ r.stage # "start" => r.entry = ix[call.o]
  /\ call.op = "move" /\ r.stage \in {"found", "held", "put"} =>
       ~SameBackend(r.entry.tier, call.tier)
  /\ r.stage = "held" => r.held \in StandsFor(r.entry.sum)
  /\ call.op = "move" /\ r.stage \in {"put", "indexing"} =>
       bl[BackendOf(call.tier)][Location(call.o, r.entry.sum)] \in StandsFor(r.entry.sum)
  /\ call.op = "store" /\ r.stage = "indexing" =>
       bl[BackendOf(call.tier)][Location(call.o, call.content)] = call.content
Sound(r, ix, bl, new) ==
  /\ InOrder(r.todo) /\ Clear(r.todo, ix, new)
  /\ r # Idle => Careful(Head(r.todo), r, ix, bl)

(* A block is deleted, or replaced by other content, only where named. *)
NamedRight == \A t \in Threads : Naming(req[t].todo, named)

FreshIsNew ==
  /\ \A o \in fresh : index[o] = None
  /\ \A m \in Models : m \in fresh => BlockIds(m) \subseteq fresh

(* Where an entry says the bytes are, there is what it stands for or none. *)
Exact(o) == index[o] # None => Stored(o, index[o]) \in {None} \cup StandsFor(index[o].sum)
Indexed(o) ==
  index[o] # None =>
    \/ Stored(o, index[o]) \in StandsFor(index[o].sum)
    \/ index[o].tier = "HOT" /\ o \in lost
    \/ \E t \in Threads : Unsettled(t) /\ Current(t).o = o

IInv ==
  /\ TypeInv
  /\ OneWriterEach
  /\ NamedRight
  /\ \A t \in Threads : Sound(req[t], index, blocks, fresh)
  /\ FreshIsNew
  /\ \A o \in Objects : Exact(o) /\ Indexed(o)
  /\ ModelsAreWhole

-----------------------------------------------------------------------------
(* What a request changes, nobody else does.                               *)

LEMMA CallsChange ==
  ASSUME TypeInv, NEW t \in Threads, NEW i \in DOMAIN req[t].todo,
         req[t].todo[i].op \in {"store", "delete", "move"}
  PROVE  /\ req[t].todo[i].o \in Changes(t) /\ req[t].todo[i].o \in Objects
         /\ req[t].todo[i].o \in Models => BlockIds(req[t].todo[i].o) \subseteq Changes(t)
<1>1. RightCalls(req[t].todo)
  BY DEF TypeInv, RightRequest
<1>2. req[t].todo[i] \in Calls /\ RightCall(req[t].todo[i])
  BY <1>1 DEF RightCalls
<1>3. req[t].todo[i].op \in {"store", "delete"} \/ req[t].todo[i].tier # None
  BY <1>2, NoneAssumption DEF RightCall
<1> DEFINE changed == {req[t].todo[j].o : j \in {j \in DOMAIN req[t].todo :
                         req[t].todo[j].op \in {"store", "delete"} \/ req[t].todo[j].tier # None}}
<1>4. Changes(t) = changed \cup UNION {BlockIds(m) : m \in Models \cap changed}
  BY DEF Changes
<1>5. req[t].todo[i].o \in changed
  BY <1>3
<1>6. req[t].todo[i].o \in Objects
  BY <1>2 DEF Calls
<1> HIDE DEF changed
<1> QED
  BY <1>4, <1>5, <1>6

LEMMA CurrentChanges ==
  ASSUME TypeInv, NEW t \in Threads, req[t] # Idle, Current(t).op \in {"store", "delete", "move"}
  PROVE  /\ Current(t).o \in Changes(t) /\ Current(t).o \in Objects
         /\ Current(t).o \in Models => BlockIds(Current(t).o) \subseteq Changes(t)
<1>1. RightRequest(req[t])
  BY DEF TypeInv
<1>2. 1 \in DOMAIN req[t].todo /\ Current(t) = req[t].todo[1]
  BY <1>1, BusyHead DEF Current
<1> QED
  BY <1>2, CallsChange

Changing(calls, X) ==
  \A i \in DOMAIN calls : calls[i].op \in {"store", "delete", "move"} =>
    calls[i].o \in X /\ (calls[i].o \in Models => BlockIds(calls[i].o) \subseteq X)
AlikeOn(X, ix, ix2, bl, bl2) ==
  \A p \in X :
    /\ ix2[p] = ix[p]
    /\ \A b \in Backends : \A c \in AllContents : bl2[b][Location(p, c)] = bl[b][Location(p, c)]

LEMMA ManifestsAreModels ==
  ASSUME NEW calls, RightCalls(calls), NEW i \in DOMAIN calls, calls[i].op = "store", calls[i].content = Manifest
  PROVE  calls[i].o \in Models
BY DEF RightCalls, RightCall, Suits, Manifest

(* What is known of the objects a request changes stays true while these   *)
(* stay as they are.                                                       *)
LEMMA SoundKept ==
  ASSUME NEW r, RightRequest(r), NEW ix, NEW ix2, NEW bl, NEW bl2, NEW new, NEW new2, new2 \subseteq new, NEW X,
         Sound(r, ix, bl, new), Changing(r.todo, X), AlikeOn(X, ix, ix2, bl, bl2)
  PROVE  Sound(r, ix2, bl2, new2)
<1> USE DEF Changing, AlikeOn
<1>1. InOrder(r.todo) /\ Clear(r.todo, ix, new)
  BY DEF Sound
<1>2. Clear(r.todo, ix2, new2)
  <2> SUFFICES ASSUME NEW i \in DOMAIN r.todo, r.todo[i].op = "store"
               PROVE  /\ r.todo[i].o \notin new2
                      /\ \/ ix2[r.todo[i].o] = None \/ Fits(ix2[r.todo[i].o], r.todo[i])
                         \/ \E j \in 1 .. i - 1 : r.todo[j].o = r.todo[i].o
                      /\ r.todo[i].content = Manifest => \A k \in 1 .. BlockCount :
                           HasIn(ix2, r.todo[i].o, k) \/ \E j \in 1 .. i - 1 : StoresTensor(r.todo[j], r.todo[i].o, k)
    BY DEF Clear
  <2>1. /\ r.todo[i].o \notin new
        /\ \/ ix[r.todo[i].o] = None \/ Fits(ix[r.todo[i].o], r.todo[i])
           \/ \E j \in 1 .. i - 1 : r.todo[j].o = r.todo[i].o
        /\ r.todo[i].content = Manifest => \A k \in 1 .. BlockCount :
             HasIn(ix, r.todo[i].o, k) \/ \E j \in 1 .. i - 1 : StoresTensor(r.todo[j], r.todo[i].o, k)
    BY <1>1 DEF Clear
  <2>2. r.todo[i].o \in X /\ (r.todo[i].o \in Models => BlockIds(r.todo[i].o) \subseteq X)
    OBVIOUS
  <2>3. r.todo[i].content = Manifest => r.todo[i].o \in Models
    BY ManifestsAreModels DEF RightRequest
  <2>4. r.todo[i].content = Manifest => \A k \in 1 .. BlockCount : HasIn(ix, r.todo[i].o, k) => HasIn(ix2, r.todo[i].o, k)
    BY <2>2, <2>3, BlocksAreObjects DEF HasIn
  <2>5. ix2[r.todo[i].o] = ix[r.todo[i].o]
    BY <2>2
  <2> QED
    BY <2>1, <2>4, <2>5
<1>3. ASSUME r # Idle
      PROVE  Careful(Head(r.todo), r, ix2, bl2)
  <2> DEFINE call == Head(r.todo)
  <2>1. Careful(call, r, ix, bl)
    BY <1>3 DEF Sound
  <2>2. call \in Calls /\ RightCall(call) /\ StageOf(call, r) /\ Knows(call, r)
        /\ 1 \in DOMAIN r.todo /\ call = r.todo[1]
    BY <1>3, BusyHead
  <2>3. call.op \in {"store", "delete", "move"} => call.o \in X
    BY <2>2
  <2>4. call.op = "store" => call.content \in AllContents /\ BackendOf(call.tier) \in Backends
    BY <2>2, BackendType DEF RightCall
  <2>5. call.op = "move" => BackendOf(call.tier) \in Backends
    BY <2>2, BackendType DEF RightCall
  <2>6. call.op = "move" /\ r.stage # "start" => r.entry.sum \in AllContents
    BY <2>2 DEF Knows, Entry
  <2>7. call.op \in {"store", "delete", "move"} =>
          ix2[call.o] = ix[call.o]
    BY <2>3
  <2>8. call.op = "move" /\ r.stage # "start" =>
          bl2[BackendOf(call.tier)][Location(call.o, r.entry.sum)] = bl[BackendOf(call.tier)][Location(call.o, r.entry.sum)]
    BY <2>3, <2>5, <2>6
  <2>9. call.op = "store" =>
          bl2[BackendOf(call.tier)][Location(call.o, call.content)] = bl[BackendOf(call.tier)][Location(call.o, call.content)]
    BY <2>3, <2>4
  <2> HIDE DEF call
  <2>10. Careful(call, r, ix2, bl2)
    BY <2>1, <2>7, <2>8, <2>9 DEF Careful
  <2> QED
    BY <2>10 DEF call
<1> QED
  BY <1>1, <1>2, <1>3 DEF Sound

(* Every object but o is left as it is. *)
Beyond(o) ==
  \A p \in Objects : p # o =>
    /\ index'[p] = index[p]
    /\ \A b \in Backends : \A c \in AllContents : blocks'[b][Location(p, c)] = blocks[b][Location(p, c)]

LEMMA ChangesAreObjects ==
  ASSUME TypeInv, NEW t \in Threads
  PROVE  Changes(t) \subseteq Objects
<1>1. RightCalls(req[t].todo)
  BY DEF TypeInv, RightRequest
<1>11. \A i \in DOMAIN req[t].todo : req[t].todo[i] \in Calls
  BY <1>1 DEF RightCalls
<1>12. \A call \in Calls : call.o \in Objects
  BY DEF Calls
<1>2. \A i \in DOMAIN req[t].todo : req[t].todo[i].o \in Objects
  BY <1>11, <1>12
<1>3. \A m \in Models : BlockIds(m) \subseteq Objects
  BY BlocksAreObjects
<1> QED
  BY <1>2, <1>3 DEF Changes

LEMMA OthersSound ==
  ASSUME IInv, NEW t \in Threads, NEW o \in Changes(t), fresh' \in SUBSET fresh,
         \A u \in Threads : u # t => req'[u] = req[u],
         Beyond(o)
  PROVE  \A u \in Threads : u # t => Sound(req'[u], index', blocks', fresh')
<1> SUFFICES ASSUME NEW u \in Threads, u # t
             PROVE  Sound(req[u], index', blocks', fresh')
  OBVIOUS
<1>1. TypeInv /\ RightRequest(req[u]) /\ Sound(req[u], index, blocks, fresh)
  BY DEF IInv, TypeInv
<1>2. o \notin Changes(u) /\ Changes(u) \subseteq Objects
  BY <1>1, ChangesAreObjects DEF IInv, OneWriterEach
<1>3. PICK X : X = Changes(u)
  OBVIOUS
<1>4. AlikeOn(X, index, index', blocks, blocks')
  BY <1>2, <1>3 DEF Beyond, AlikeOn
<1>5. Changing(req[u].todo, X)
  BY <1>1, <1>3, CallsChange DEF Changing
<1>6. fresh' \subseteq fresh
  OBVIOUS
<1> QED
  BY <1>1, <1>4, <1>5, <1>6, SoundKept

-----------------------------------------------------------------------------
(* Steps that leave the objects alone, and steps that change one.          *)

LEMMA StoredKept ==
  ASSUME NEW p \in Objects, NEW e \in Entry,
         \A b \in Backends : \A c \in AllContents : blocks'[b][Location(p, c)] = blocks[b][Location(p, c)]
  PROVE  blocks'[BackendOf(e.tier)][Location(p, e.sum)] = blocks[BackendOf(e.tier)][Location(p, e.sum)]
BY BackendType DEF Entry

LEMMA UnsettledKnows ==
  ASSUME TypeInv, NEW t \in Threads, Unsettled(t)
  PROVE  /\ req[t] # Idle /\ Current(t).op \in {"move", "delete"} /\ req[t].stage = "indexing"
         /\ Current(t).o \in Changes(t) /\ Current(t).o \in Objects /\ req[t].entry \in Entry
<1>1. req[t] # Idle /\ Current(t).op \in {"move", "delete"} /\ req[t].stage = "indexing"
  BY DoingBusy DEF Unsettled, Stages, Doing, Current
<1>2. req[t].entry \in Entry
  BY <1>1, CurrentRight DEF Knows
<1> QED
  BY <1>1, <1>2, CurrentChanges

(* A thread whose request does not change is about to tell the index of    *)
(* the object it was about to tell it of.                                  *)
LEMMA StillUnsettled ==
  ASSUME TypeInv, NEW u \in Threads, Unsettled(u), req'[u] = req[u],
         \A b \in Backends : \A c \in AllContents :
           blocks'[b][Location(Current(u).o, c)] = blocks[b][Location(Current(u).o, c)]
  PROVE  Unsettled(u)' /\ Current(u)' = Current(u)
<1>1. req[u].entry \in Entry /\ Current(u).o \in Objects
  BY UnsettledKnows
<1>2. blocks'[BackendOf(req[u].entry.tier)][Location(Current(u).o, req[u].entry.sum)]
        = blocks[BackendOf(req[u].entry.tier)][Location(Current(u).o, req[u].entry.sum)]
  BY <1>1, StoredKept
<1>3. Current(u)' = Current(u)
  BY DEF Current
<1>4. Stored(Current(u).o, req[u].entry)' = Stored(Current(u).o, req[u].entry)
  BY <1>2, <1>3 DEF Stored
<1> QED
  BY <1>3, <1>4 DEF Unsettled, Doing

LEMMA QuietStep ==
  ASSUME IInv, TypeInv', OneWriterEach', NamedRight', NEW t \in Threads, fresh' \subseteq fresh, named \subseteq named',
         \A u \in Threads : u # t => req'[u] = req[u],
         index' = index, blocks' = blocks, lost' = lost, ~Unsettled(t),
         Sound(req'[t], index, blocks, fresh'), FreshIsNew'
  PROVE  IInv'
<1>1. ASSUME NEW u \in Threads
      PROVE  Sound(req'[u], index', blocks', fresh')
  <2>1. CASE u = t
    BY <2>1
  <2>2. CASE u # t
    <3>1. PICK X : X = Changes(u)
      OBVIOUS
    <3>2. AlikeOn(X, index, index', blocks, blocks')
      BY DEF AlikeOn
    <3>3. TypeInv /\ RightRequest(req[u]) /\ Sound(req[u], index, blocks, fresh)
      BY DEF IInv, TypeInv
    <3>4. Changing(req[u].todo, X)
      BY <3>1, <3>3, CallsChange DEF Changing
    <3>5. Sound(req[u], index', blocks', fresh')
      BY <3>2, <3>3, <3>4, SoundKept
    <3> QED
      BY <2>2, <3>5
  <2> QED
    BY <2>1, <2>2
<1>2. ASSUME NEW p \in Objects
      PROVE  Exact(p)' /\ Indexed(p)'
  <2>1. Exact(p) /\ Indexed(p) /\ TypeInv
    BY DEF IInv
  <2>2. ASSUME NEW u \in Threads, Unsettled(u), Current(u).o = p
        PROVE  Unsettled(u)' /\ Current(u)'.o = p
    BY <2>1, <2>2, StillUnsettled
  <2>3. Exact(p)'
    BY <2>1 DEF Exact, Stored
  <2>4. Indexed(p)'
    BY <2>1, <2>2 DEF Indexed, Stored
  <2> QED
    BY <2>3, <2>4
<1>3. ModelsAreWhole'
  BY DEF IInv, ModelsAreWhole, HasTensor
<1> QED
  BY <1>1, <1>2, <1>3 DEF IInv

LEMMA ChangeStep ==
  ASSUME IInv, TypeInv', OneWriterEach', NamedRight', NEW t \in Threads, NEW o \in Changes(t), fresh' = fresh,
         \A u \in Threads : u # t => req'[u] = req[u],
         Unsettled(t) => Current(t).o = o,
         Beyond(o), \A p \in Objects : p # o /\ p \in lost => p \in lost',
         Sound(req'[t], index', blocks', fresh'),
         o \in fresh => index'[o] = None,
         Exact(o)', Indexed(o)', ModelsAreWhole'
  PROVE  IInv'
<1>1. ASSUME NEW u \in Threads
      PROVE  Sound(req'[u], index', blocks', fresh')
  BY OthersSound
<1>2. ASSUME NEW p \in Objects, p # o
      PROVE  Exact(p)' /\ Indexed(p)'
  <2>1. Exact(p) /\ Indexed(p) /\ TypeInv
    BY DEF IInv
  <2>2. /\ index'[p] = index[p]
        /\ \A b \in Backends : \A c \in AllContents : blocks'[b][Location(p, c)] = blocks[b][Location(p, c)]
    BY <1>2 DEF Beyond
  <2>3. index[p] # None => index[p] \in Entry
    BY <2>1 DEF TypeInv
  <2>4. index[p] # None => Stored(p, index[p])' = Stored(p, index[p])
    BY <2>2, <2>3, StoredKept DEF Stored
  <2>5. ASSUME NEW u \in Threads, Unsettled(u), Current(u).o = p
        PROVE  Unsettled(u)' /\ Current(u)'.o = p
    <3>1. u # t
      BY <1>2, <2>5
    <3>2. req'[u] = req[u]
      BY <3>1
    <3> QED
      BY <2>1, <2>2, <2>5, <3>2, StillUnsettled
  <2>6. Exact(p)'
    BY <2>1, <2>2, <2>4 DEF Exact
  <2>7. Indexed(p)'
    BY <1>2, <2>1, <2>2, <2>4, <2>5 DEF Indexed
  <2> QED
    BY <2>6, <2>7
<1>3. o \in Objects /\ Changes(t) \subseteq Objects
  BY ChangesAreObjects DEF IInv
<1>4. FreshIsNew'
  BY <1>3 DEF IInv, TypeInv, FreshIsNew, Beyond
<1>5. \A p \in Objects : Exact(p)' /\ Indexed(p)'
  BY <1>2
<1> QED
  BY <1>1, <1>4, <1>5 DEF IInv

-----------------------------------------------------------------------------
(* A new request is sound.                                                 *)

LEMMA IdleSound ==
  ASSUME NEW ix, NEW bl, NEW new
  PROVE  Sound(Idle, ix, bl, new)
BY DEF Sound, Idle, InOrder, Clear

LEMMA FromSound ==
  ASSUME NEW calls, RightCalls(calls), NEW ix, NEW bl, NEW new, InOrder(calls), Clear(calls, ix, new)
  PROVE  Sound(From(calls), ix, bl, new)
<1>1. RightRequest(From(calls)) /\ From(calls).todo = calls
  BY FromRight
<1>2. From(calls) # Idle => From(calls).stage = "start" /\ From(calls).held = None
  BY DEF From, Idle
<1>3. From(calls) # Idle => Careful(Head(calls), From(calls), ix, bl)
  BY <1>2 DEF Careful
<1> QED
  BY <1>1, <1>3 DEF Sound

NoStores(calls) == \A i \in DOMAIN calls : calls[i].op # "store"

LEMMA NoStoresSound ==
  ASSUME NEW calls, NoStores(calls), NEW ix, NEW new
  PROVE  InOrder(calls) /\ Clear(calls, ix, new)
BY DEF NoStores, InOrder, Clear

LEMMA BlocksApart ==
  /\ \A m, n \in Models : m # n => BlockIds(m) \cap BlockIds(n) = {}
  /\ \A m, n \in Models : n \notin BlockIds(m)
  /\ \A m \in Models : \A o \in Plain : o \notin BlockIds(m) /\ o # m
BY NamesAssumption, BlocksAreObjects DEF BlockId, BlockIds

LEMMA UploadingSound ==
  ASSUME NEW m \in Models, NEW blockTier \in Tiers, NEW tier \in Tiers, NEW ix, NEW new,
         m \notin new, \A b \in BlockIds(m) : b \notin new,
         ix[m] = None, \A b \in BlockIds(m) : ix[b] = None
  PROVE  InOrder(Uploading(m, blockTier, tier)) /\ Clear(Uploading(m, blockTier, tier), ix, new)
<1> DEFINE calls == Uploading(m, blockTier, tier)
<1>1. /\ BlockCount \in Nat /\ DOMAIN calls = 1 .. BlockCount + 1
      /\ \A i \in 1 .. BlockCount : calls[i] = StoreCall(BlockId(m, i), Tensor(i), blockTier)
      /\ calls[BlockCount + 1] = StoreCall(m, Manifest, tier)
  BY UploadingCalls, BoundAssumption
<1>11. \A o, c, k : /\ StoreCall(o, c, k).op = "store" /\ StoreCall(o, c, k).o = o
                    /\ StoreCall(o, c, k).content = c /\ StoreCall(o, c, k).tier = k
  BY DEF StoreCall, Call
<1>12. \A i \in 1 .. BlockCount : BlockId(m, i) \in BlockIds(m) /\ Tensor(i) \in Tensors
  BY DEF BlockIds, Tensors
<1>2. \A i \in 1 .. BlockCount : /\ calls[i].op = "store" /\ calls[i].o = BlockId(m, i)
                                 /\ calls[i].content = Tensor(i) /\ calls[i].tier = blockTier
  <2> HIDE DEF calls
  <2> QED
    BY <1>1, <1>11
<1>3. /\ calls[BlockCount + 1].op = "store" /\ calls[BlockCount + 1].o = m
      /\ calls[BlockCount + 1].content = Manifest
  BY <1>1, <1>11
<1>4. \A i \in DOMAIN calls : i \in 1 .. BlockCount \/ i = BlockCount + 1
  BY <1>1
<1>41. \A i \in 1 .. BlockCount : Tensor(i) # Manifest
  BY DEF Tensor, Manifest
<1> HIDE DEF calls
<1>5. InOrder(calls)
  <2> SUFFICES ASSUME NEW i \in DOMAIN calls, NEW j \in 1 .. i - 1
               PROVE  /\ calls[j].op = "store" /\ calls[j].content \in Tensors
                      /\ calls[j].o = calls[i].o =>
                           Fits([tier |-> calls[j].tier, sum |-> calls[j].content], calls[i])
    BY DEF InOrder
  <2>1. j \in 1 .. BlockCount /\ j # i
    BY <1>1, <1>4
  <2>2. CASE i \in 1 .. BlockCount
    <3>1. calls[j].o = calls[i].o => Tensor(j) \in StandsFor(Tensor(i))
      BY <1>2, <1>12, <2>1, <2>2, ContentsSuit, OneIdOneBlock
    <3> QED
      BY <1>2, <1>12, <2>1, <2>2, <3>1 DEF Fits
  <2>3. CASE i = BlockCount + 1
    BY <1>2, <1>3, <1>12, <2>1, <2>3, BlocksApart
  <2> QED
    BY <1>4, <2>2, <2>3
<1>6. Clear(calls, ix, new)
  <2> SUFFICES ASSUME NEW i \in DOMAIN calls
               PROVE  /\ calls[i].o \notin new /\ ix[calls[i].o] = None
                      /\ calls[i].content = Manifest => \A k \in 1 .. BlockCount :
                           \E j \in 1 .. i - 1 : StoresTensor(calls[j], calls[i].o, k)
    BY DEF Clear
  <2>1. CASE i \in 1 .. BlockCount
    BY <1>2, <1>12, <1>41, <2>1
  <2>2. CASE i = BlockCount + 1
    <3>1. calls[i].o = m /\ 1 .. i - 1 = 1 .. BlockCount
      BY <1>1, <1>3, <2>2
    <3>2. \A k \in 1 .. BlockCount : StoresTensor(calls[k], m, k)
      <4>1. \A k \in 1 .. BlockCount : Tensor(k) \in StandsFor(Tensor(k))
        BY ContentsSuit, StandingFor
      <4> QED
        BY <1>2, <4>1 DEF StoresTensor
    <3> QED
      BY <3>1, <3>2
  <2> QED
    BY <1>4, <2>1, <2>2
<1> QED
  BY <1>5, <1>6 DEF calls

SoundStart(t, calls) ==
  /\ RightCalls(calls) /\ BeginsWith(t, calls)
  /\ InOrder(calls) /\ Clear(calls, index, fresh') /\ FreshIsNew'

LEMMA QuietStarts ==
  ASSUME IInv, NEW t \in Threads, NEW o, NEW calls, Quiet(t, o, calls)
  PROVE  SoundStart(t, calls)
<1>1. NoStores(calls) /\ RightCalls(calls)
  BY DEF Quiet, Harmless, NoStores
<1>2. BeginsWith(t, calls)
  BY DEF Quiet, BeginsWith, IInv, TypeInv
<1>3. FreshIsNew'
  BY DEF Quiet, Begin, IInv, FreshIsNew
<1> QED
  BY <1>1, <1>2, <1>3, NoStoresSound DEF SoundStart

LEMMA RequestStarts ==
  ASSUME IInv, NEW t \in Threads, Request(t)
  PROVE  \E calls : SoundStart(t, calls)
<1>0. \A o \in Plain \cup Models : o \in Objects
  BY DEF Objects
<1>00. TypeInv /\ FreshIsNew
  BY DEF IInv
<1>2. ASSUME NEW o \in Objects, NEW content \in Contents, NEW tier \in Tiers,
             (o \in Plain /\ Upload(t, o, content, tier)) \/ Replace(t, o, content, tier)
      PROVE  \E calls : SoundStart(t, calls)
  <2> DEFINE store == StoreCall(o, content, tier)
  <2>1. store \in Calls /\ RightCall(store) /\ DeleteCall(o) \in Calls /\ RightCall(DeleteCall(o))
    BY ContentsSuit, CallsRight
  <2>2. RightCalls(<<store>>) /\ RightCalls(<<DeleteCall(o), store>>)
    BY <2>1, RequestsRight
  <2>3. fresh' = fresh \ {o} /\ index' = index /\ (o \in Plain \/ o \notin fresh)
    BY <1>2 DEF Upload, Replace, Known, Begin
  <2>31. named \subseteq named' /\ named' \in SUBSET Blocks
    BY <1>2, <1>00 DEF Upload, Replace, TypeInv
  <2>4. FreshIsNew'
    BY <1>00, <2>3, BlocksApart DEF FreshIsNew
  <2>5. o \notin fresh' /\ content # Manifest
    BY <2>3, NamesAssumption DEF Contents, Manifest
  <2>6. InOrder(<<store>>) /\ (index[o] = None => Clear(<<store>>, index, fresh'))
    BY <2>5 DEF InOrder, Clear, StoreCall, Call
  <2>7. InOrder(<<DeleteCall(o), store>>) /\ Clear(<<DeleteCall(o), store>>, index, fresh')
    BY <2>5 DEF InOrder, Clear, StoreCall, DeleteCall, Call
  <2>8. \/ Begin(t, <<store>>) /\ index[o] = None
        \/ Begin(t, <<DeleteCall(o), store>>)
    BY <1>2, <1>00 DEF Upload, Replace, FreshIsNew
  <2> HIDE DEF store
  <2>9. fresh' \in SUBSET fresh
    BY <2>3
  <2> QED
    BY <2>2, <2>31, <2>4, <2>6, <2>7, <2>8, <2>9 DEF SoundStart, BeginsWith
<1>3. ASSUME NEW m \in Models, NEW blockTier \in Tiers, NEW tier \in Tiers, UploadModel(t, m, blockTier, tier)
      PROVE  \E calls : SoundStart(t, calls)
  <2>1. m \in fresh /\ fresh' = fresh \ ({m} \cup BlockIds(m)) /\ index' = index /\ named' = named
    BY <1>3 DEF UploadModel, Begin
  <2>2. Begin(t, Uploading(m, blockTier, tier))
    BY <1>3 DEF UploadModel, Uploading
  <2>3. index[m] = None /\ \A b \in BlockIds(m) : index[b] = None
    BY <1>00, <2>1 DEF FreshIsNew
  <2>4. m \notin fresh' /\ \A b \in BlockIds(m) : b \notin fresh'
    BY <2>1
  <2>5. RightCalls(Uploading(m, blockTier, tier))
    BY UploadingCalls
  <2>6. InOrder(Uploading(m, blockTier, tier)) /\ Clear(Uploading(m, blockTier, tier), index, fresh')
    BY <2>3, <2>4, UploadingSound
  <2>7. FreshIsNew'
    BY <1>00, <2>1, BlocksApart DEF FreshIsNew
  <2>8. fresh' \in SUBSET fresh /\ named \subseteq named' /\ named' \in SUBSET Blocks
    BY <2>1, <1>00 DEF TypeInv
  <2> QED
    BY <2>2, <2>5, <2>6, <2>7, <2>8 DEF SoundStart, BeginsWith
<1>4. ASSUME NEW o \in Objects, Delete(t, o)
      PROVE  \E calls : SoundStart(t, calls)
  <2>1. RightCalls(<<DeleteCall(o)>>)
    BY CallsRight, RequestsRight
  <2>2. NoStores(<<DeleteCall(o)>>)
    BY DEF NoStores, DeleteCall, Call
  <2>3. BeginsWith(t, <<DeleteCall(o)>>)
    BY <1>4, <1>00 DEF Delete, BeginsWith, TypeInv
  <2>4. FreshIsNew'
    BY <1>4, <1>00 DEF Delete, Begin, FreshIsNew
  <2> QED
    BY <2>1, <2>2, <2>3, <2>4, NoStoresSound DEF SoundStart
<1>5. ASSUME NEW o \in Objects,
             \/ Read(t, o)
             \/ \E tier \in Tiers : Move(t, o, tier) \/ Optimize(t, o, tier) \/ ArchiveOrRestore(t, o, tier)
      PROVE  \E calls : SoundStart(t, calls)
  BY <1>00, <1>5, QuietRequests, QuietStarts
<1>6. ASSUME NEW m \in Models, NEW i \in 1 .. BlockCount, ReadTensor(t, m, i)
      PROVE  \E calls : SoundStart(t, calls)
  BY <1>6, QuietTensor, QuietStarts
<1> QED
  BY <1>0, <1>2, <1>3, <1>4, <1>5, <1>6 DEF Request, Tiers

-----------------------------------------------------------------------------
(* What is left of a request after its first call.                         *)

LEMMA RestOf ==
  ASSUME NEW r, RightRequest(r), r # Idle
  PROVE  /\ RightCalls(Tail(r.todo)) /\ 1 \in DOMAIN r.todo /\ Head(r.todo) = r.todo[1]
         /\ \A i \in DOMAIN Tail(r.todo) :
              /\ i \in Nat \ {0} /\ i + 1 \in DOMAIN r.todo
              /\ Tail(r.todo)[i] = r.todo[i + 1]
<1>1. r.todo \in Seq(Calls) /\ r.todo # << >>
  BY BusyHead DEF RightRequest, RightCalls
<1>2. \A i \in DOMAIN Tail(r.todo) :
        /\ i \in Nat \ {0} /\ i + 1 \in DOMAIN r.todo
        /\ Tail(r.todo)[i] = r.todo[i + 1]
  BY <1>1
<1> QED
  BY <1>2, BusyHead

LEMMA RestInOrder ==
  ASSUME NEW r, RightRequest(r), r # Idle, InOrder(r.todo)
  PROVE  /\ InOrder(Tail(r.todo))
         /\ Head(r.todo).op \notin {"store", "delete"} => NoStores(Tail(r.todo))
<1> DEFINE rest == Tail(r.todo)
<1>1. /\ 1 \in DOMAIN r.todo /\ Head(r.todo) = r.todo[1]
      /\ \A i \in DOMAIN rest : i \in Nat \ {0} /\ i + 1 \in DOMAIN r.todo /\ rest[i] = r.todo[i + 1]
  BY RestOf
<1> HIDE DEF rest
<1>2. InOrder(rest)
  <2> SUFFICES ASSUME NEW i \in DOMAIN rest, rest[i].op = "store", NEW j \in 1 .. i - 1
               PROVE  /\ rest[j].op \in {"store", "delete"}
                      /\ rest[j].o = rest[i].o /\ rest[j].op = "store" =>
                           Fits([tier |-> rest[j].tier, sum |-> rest[j].content], rest[i])
                      /\ rest[i].content = Manifest => rest[j].op = "store" /\ rest[j].content \in Tensors
    BY DEF InOrder
  <2>1. i + 1 \in DOMAIN r.todo /\ rest[i] = r.todo[i + 1] /\ j + 1 \in 1 .. (i + 1) - 1
    BY <1>1
  <2>2. j \in DOMAIN rest
    <3>1. rest \in Seq(Calls)
      BY RestOf DEF rest, RightCalls
    <3> QED
      BY <3>1
  <2>3. rest[j] = r.todo[j + 1]
    BY <1>1, <2>2
  <2> QED
    BY <2>1, <2>3 DEF InOrder
<1>3. Head(r.todo).op \notin {"store", "delete"} => NoStores(rest)
  <2> SUFFICES ASSUME NEW i \in DOMAIN rest, rest[i].op = "store"
               PROVE  Head(r.todo).op \in {"store", "delete"}
    BY DEF NoStores
  <2>1. i + 1 \in DOMAIN r.todo /\ r.todo[i + 1].op = "store" /\ 1 \in 1 .. (i + 1) - 1
    BY <1>1
  <2> QED
    BY <1>1, <2>1 DEF InOrder
<1> QED
  BY <1>2, <1>3 DEF rest

(* Of the calls that are left, the stores still find their objects out of  *)
(* the index or sharing an id, and a manifest its tensors in it or still   *)
(* to come.                                                                *)
LEMMA RestClear ==
  ASSUME NEW r, RightRequest(r), r # Idle, InOrder(r.todo), NEW ix, NEW ix2, NEW new,
         Clear(r.todo, ix, new),
         \A p \in Objects : p # Head(r.todo).o => ix2[p] = ix[p],
         Head(r.todo).op = "store" =>
           /\ ix2[Head(r.todo).o] = [tier |-> Head(r.todo).tier, sum |-> Head(r.todo).content]
           /\ ix2[Head(r.todo).o] # None,
         Head(r.todo).op = "delete" => ix2[Head(r.todo).o] = None
  PROVE  Clear(Tail(r.todo), ix2, new)
<1> DEFINE rest == Tail(r.todo)
           call == Head(r.todo)
<1>1. /\ 1 \in DOMAIN r.todo /\ call = r.todo[1] /\ RightCalls(rest) /\ RightCall(call)
      /\ \A i \in DOMAIN rest : i \in Nat \ {0} /\ i + 1 \in DOMAIN r.todo /\ rest[i] = r.todo[i + 1]
  BY RestOf, BusyHead
<1>2. rest \in Seq(Calls)
  BY <1>1 DEF RightCalls
<1>20. /\ \A p \in Objects : p # call.o => ix2[p] = ix[p]
       /\ call.op = "store" => ix2[call.o] = [tier |-> call.tier, sum |-> call.content] /\ ix2[call.o] # None
       /\ call.op = "delete" => ix2[call.o] = None
  OBVIOUS
<1> HIDE DEF rest, call
<1> SUFFICES ASSUME NEW i \in DOMAIN rest, rest[i].op = "store"
             PROVE  /\ rest[i].o \notin new
                    /\ \/ ix2[rest[i].o] = None \/ Fits(ix2[rest[i].o], rest[i])
                       \/ \E j \in 1 .. i - 1 : rest[j].o = rest[i].o
                    /\ rest[i].content = Manifest => \A k \in 1 .. BlockCount :
                         HasIn(ix2, rest[i].o, k) \/ \E j \in 1 .. i - 1 : StoresTensor(rest[j], rest[i].o, k)
  BY DEF Clear, rest
<1> DEFINE o == rest[i].o
<1>3. /\ i + 1 \in DOMAIN r.todo /\ r.todo[i + 1] = rest[i] /\ r.todo[i + 1].op = "store" /\ r.todo[i + 1].o = o
      /\ 1 \in 1 .. (i + 1) - 1
  BY <1>1
<1>4. /\ call.op \in {"store", "delete"}
      /\ call.o = o /\ call.op = "store" => Fits([tier |-> call.tier, sum |-> call.content], rest[i])
      /\ rest[i].content = Manifest => call.op = "store" /\ call.content \in Tensors
  BY <1>1, <1>3 DEF InOrder
<1>5. /\ o \notin new
      /\ \/ ix[o] = None \/ Fits(ix[o], rest[i])
         \/ \E j \in 1 .. (i + 1) - 1 : r.todo[j].o = o
      /\ rest[i].content = Manifest => \A k \in 1 .. BlockCount :
           HasIn(ix, o, k) \/ \E j \in 1 .. (i + 1) - 1 : StoresTensor(r.todo[j], o, k)
  BY <1>3 DEF Clear
<1>6. \A j \in 1 .. (i + 1) - 1 : j = 1 \/ (j - 1 \in 1 .. i - 1 /\ r.todo[j] = rest[j - 1])
  <2> SUFFICES ASSUME NEW j \in 1 .. (i + 1) - 1, j # 1
               PROVE  j - 1 \in 1 .. i - 1 /\ r.todo[j] = rest[j - 1]
    OBVIOUS
  <2>1. i \in 1 .. Len(rest) /\ j - 1 \in 1 .. i - 1 /\ j - 1 \in DOMAIN rest
    BY <1>2
  <2>2. rest[j - 1] = r.todo[(j - 1) + 1]
    BY <1>1, <2>1
  <2> QED
    BY <2>1, <2>2
<1>7. o \in Objects
  <2>1. rest[i] \in Calls
    BY <1>2
  <2> QED
    BY <2>1 DEF Calls
<1>70. rest[i].content = Manifest => o \in Models
  BY <1>1, ManifestsAreModels
<1> HIDE DEF o
<1>8. ix2[o] = None \/ Fits(ix2[o], rest[i]) \/ \E j \in 1 .. i - 1 : rest[j].o = o
  <2>1. CASE call.o = o
    BY <1>4, <1>20, <2>1
  <2>2. CASE call.o # o
    <3>1. ix2[o] = ix[o]
      BY <1>7, <1>20, <2>2
    <3>2. \A j \in 1 .. (i + 1) - 1 : r.todo[j].o = o => j # 1
      BY <1>1, <2>2
    <3> QED
      BY <1>5, <1>6, <3>1, <3>2
  <2> QED
    BY <2>1, <2>2
<1>9. ASSUME rest[i].content = Manifest, NEW k \in 1 .. BlockCount
      PROVE  HasIn(ix2, o, k) \/ \E j \in 1 .. i - 1 : StoresTensor(rest[j], o, k)
  <2>1. o \in Models /\ BlockId(o, k) \in Objects
    BY <1>9, <1>70, BlocksAreObjects
  <2>2. CASE call.o = BlockId(o, k)
    <3>1. call.op = "store" /\ call.content \in Tensors /\ Suits(call.o, call.content)
      BY <1>1, <1>4, <1>9 DEF RightCall
    <3>2. call.content \in StandsFor(Tensor(k))
      BY <2>1, <2>2, <3>1, OneIdOneBlock
    <3>3. ix2[call.o].sum = call.content /\ ix2[call.o] # None
      BY <1>20, <3>1
    <3>4. HasIn(ix2, o, k)
      BY <2>2, <3>2, <3>3 DEF HasIn
    <3> QED
      BY <3>4
  <2>3. CASE call.o # BlockId(o, k)
    <3>1. HasIn(ix, o, k) => HasIn(ix2, o, k)
      BY <1>20, <2>1, <2>3 DEF HasIn
    <3>2. \A j \in 1 .. (i + 1) - 1 : StoresTensor(r.todo[j], o, k) => j # 1
      BY <1>1, <2>3 DEF StoresTensor
    <3>3. HasIn(ix, o, k) \/ \E j \in 1 .. (i + 1) - 1 : StoresTensor(r.todo[j], o, k)
      BY <1>5, <1>9
    <3> QED
      BY <1>6, <3>1, <3>2, <3>3
  <2> QED
    BY <2>2, <2>3
<1> QED
  BY <1>5, <1>8, <1>9 DEF o

-----------------------------------------------------------------------------
(* Each step of a request.                                                 *)

Shape == IInv /\ TypeInv' /\ OneWriterEach' /\ NamedRight' /\ named \subseteq named'

LEMMA InvOf ==
  ASSUME IInv, NEW t \in Threads
  PROVE  /\ TypeInv /\ OneWriterEach /\ NamedRight /\ FreshIsNew /\ ModelsAreWhole
         /\ RightRequest(req[t]) /\ req[t] \in Requests /\ Sound(req[t], index, blocks, fresh)
         /\ InOrder(req[t].todo) /\ Clear(req[t].todo, index, fresh)
         /\ req[t] # Idle => Careful(Current(t), req[t], index, blocks)
BY DEF IInv, TypeInv, Sound, Current

(* A request ends, or goes on after a call that is neither a store nor a   *)
(* delete.                                                                 *)
LEMMA EndsSound ==
  ASSUME IInv, NEW t \in Threads, req[t] # Idle
  PROVE  /\ Sound(Idle, index, blocks, fresh)
         /\ Current(t).op \notin {"store", "delete"} =>
              Sound(From(Tail(req[t].todo)), index, blocks, fresh)
<1>1. RightRequest(req[t]) /\ InOrder(req[t].todo)
  BY InvOf
<1>2. Current(t).op \notin {"store", "delete"} => NoStores(Tail(req[t].todo)) /\ RightCalls(Tail(req[t].todo))
  BY <1>1, RestInOrder, RestOf DEF Current
<1> QED
  BY <1>2, IdleSound, FromSound, NoStoresSound

LEMMA FreshStays == ASSUME FreshIsNew, index' = index, fresh' = fresh PROVE FreshIsNew'
BY DEF FreshIsNew

LEMMA NotIndexing ==
  ASSUME NEW t, req[t].stage # "indexing"
  PROVE  ~Unsettled(t)
BY DEF Unsettled, Doing

LEMMA BeginStep ==
  ASSUME Shape, NEW t \in Threads, Request(t)
  PROVE  IInv'
<1>1. PICK calls : SoundStart(t, calls)
  BY RequestStarts DEF Shape
<1>2. /\ req[t] = Idle /\ req' = [req EXCEPT ![t] = From(calls)] /\ fresh' \subseteq fresh
      /\ index' = index /\ blocks' = blocks /\ lost' = lost
  BY <1>1 DEF SoundStart, BeginsWith, Begin, Continue
<1>3. Sound(From(calls), index, blocks, fresh')
  BY <1>1, FromSound DEF SoundStart
<1>4. req'[t] = From(calls) /\ \A u \in Threads : u # t => req'[u] = req[u]
  BY <1>2 DEF Shape, IInv, TypeInv
<1>5. ~Unsettled(t)
  BY <1>2, NotIndexing DEF Idle
<1>6. FreshIsNew'
  BY <1>1 DEF SoundStart
<1> QED
  BY <1>2, <1>3, <1>4, <1>5, <1>6, QuietStep DEF Shape

(* Two places of one durable backend: the bytes an entry stands for are    *)
(* there when a call of another tier that shares it starts.                *)
LEMMA SharedPlace ==
  ASSUME IInv, NEW t \in Threads, req[t] # Idle, req[t].stage # "indexing",
         Current(t).op = "move", index[Current(t).o] # None,
         index[Current(t).o].tier # Current(t).tier,
         SameBackend(index[Current(t).o].tier, Current(t).tier)
  PROVE  Stored(Current(t).o, index[Current(t).o]) \in StandsFor(index[Current(t).o].sum)
<1> DEFINE o == Current(t).o
<1>1. o \in Objects /\ o \in Changes(t) /\ Current(t).tier \in Tiers
  BY CurrentChanges, CurrentRight, InvOf DEF RightCall
<1>2. index[o] \in Entry /\ Indexed(o)
  BY <1>1 DEF IInv, TypeInv
<1>3. index[o].tier # "HOT"
  BY <1>1, <1>2 DEF Entry, SameBackend, BackendOf, Tiers
<1>4. \A u \in Threads : ~(Unsettled(u) /\ Current(u).o = o)
  <2> SUFFICES ASSUME NEW u \in Threads, Unsettled(u), Current(u).o = o
               PROVE  FALSE
    OBVIOUS
  <2>1. u # t
    BY NotIndexing
  <2>2. o \in Changes(u)
    BY UnsettledKnows, InvOf
  <2> QED
    BY <1>1, <2>1, <2>2, InvOf DEF OneWriterEach
<1> QED
  BY <1>2, <1>3, <1>4 DEF Indexed

LEMMA LookupStep ==
  ASSUME Shape, NEW t \in Threads, Lookup(t)
  PROVE  IInv'
<1> DEFINE call == Current(t)
           entry == index[call.o]
<1>1. req[t] # Idle /\ call.op \in {"read", "delete", "move"} /\ req[t].stage = "start"
  BY DoingBusy DEF Lookup, Stages, Doing, Current, Shape, IInv
<1>2. /\ IInv /\ TypeInv /\ FreshIsNew /\ req[t] \in Requests
      /\ Sound(req[t], index, blocks, fresh) /\ Careful(call, req[t], index, blocks)
  BY <1>1, InvOf DEF Shape
<1>3. ASSUME NEW stage \in {"found", "indexing"}, entry # None,
             stage = "found" /\ call.op = "move" => ~SameBackend(entry.tier, call.tier),
             stage = "indexing" =>
               call.op = "move" /\ SameBackend(entry.tier, call.tier) /\ entry.tier # call.tier
      PROVE  Sound([req[t] EXCEPT !.stage = stage, !.entry = entry], index, blocks, fresh)
  <2> DEFINE s == [req[t] EXCEPT !.stage = stage, !.entry = entry]
  <2>1. s.todo = req[t].todo /\ s.stage = stage /\ s.entry = entry
    BY <1>2 DEF Requests
  <2>2. stage = "indexing" => blocks[BackendOf(call.tier)][Location(call.o, entry.sum)] \in StandsFor(entry.sum)
    BY <1>1, <1>2, <1>3, SharedPlace DEF Stored, SameBackend
  <2> HIDE DEF s
  <2>3. Careful(Head(s.todo), s, index, blocks)
    <3>1. Head(s.todo) = call
      BY <2>1 DEF Current
    <3>2. call.op = "store" => FALSE
      BY <1>1
    <3> QED
      BY <1>3, <2>1, <2>2, <3>1, <3>2 DEF Careful
  <2>4. Sound(s, index, blocks, fresh)
    BY <1>2, <2>1, <2>3 DEF Sound
  <2> QED
    BY <2>4 DEF s
<1>4. \/ req' = [req EXCEPT ![t] = Idle]
      \/ call.op = "move" /\ req' = [req EXCEPT ![t] = From(Tail(req[t].todo))]
      \/ \E stage \in {"found", "indexing"} :
           /\ entry # None
           /\ stage = "found" /\ call.op = "move" => ~SameBackend(entry.tier, call.tier)
           /\ stage = "indexing" =>
                call.op = "move" /\ SameBackend(entry.tier, call.tier) /\ entry.tier # call.tier
           /\ req' = [req EXCEPT ![t] = [req[t] EXCEPT !.stage = stage, !.entry = entry]]
  BY <1>2 DEF Lookup, Raise, Return, Continue, TypeInv
<1>5. PICK s : Sound(s, index, blocks, fresh) /\ req' = [req EXCEPT ![t] = s]
  BY <1>1, <1>2, <1>3, <1>4, EndsSound
<1>6. req'[t] = s /\ \A u \in Threads : u # t => req'[u] = req[u]
  BY <1>2, <1>5 DEF TypeInv
<1>7. index' = index /\ blocks' = blocks /\ lost' = lost /\ fresh' = fresh
  BY DEF Lookup
<1>8. ~Unsettled(t) /\ FreshIsNew'
  BY <1>1, <1>2, <1>7, NotIndexing, FreshStays
<1> QED
  BY <1>5, <1>6, <1>7, <1>8, QuietStep DEF Shape

LEMMA GetStep ==
  ASSUME Shape, NEW t \in Threads, Get(t)
  PROVE  IInv'
<1> DEFINE call == Current(t)
           entry == req[t].entry
           bytes == Stored(call.o, entry)
<1>1. req[t] # Idle /\ call.op \in {"read", "move"} /\ req[t].stage = "found"
  BY DoingBusy DEF Get, Stages, Doing, Current, Shape, IInv
<1>2. /\ IInv /\ TypeInv /\ FreshIsNew /\ req[t] \in Requests
      /\ Sound(req[t], index, blocks, fresh) /\ Careful(call, req[t], index, blocks)
      /\ call.o \in Objects /\ Exact(call.o) /\ entry \in Entry
  BY <1>1, InvOf, CurrentRight DEF Shape, IInv, Knows
<1>3. ASSUME bytes # None, call.op = "move"
      PROVE  Sound([req[t] EXCEPT !.stage = "held", !.held = bytes], index, blocks, fresh)
  <2> DEFINE s == [req[t] EXCEPT !.stage = "held", !.held = bytes]
  <2>1. s.todo = req[t].todo /\ s.stage = "held" /\ s.entry = entry /\ s.held = bytes
    BY <1>2 DEF Requests
  <2>2. entry = index[call.o] /\ ~SameBackend(entry.tier, call.tier)
    BY <1>1, <1>2, <1>3 DEF Careful
  <2>3. index[call.o] # None
    BY <1>2, <2>2, NoneAssumption
  <2>4. bytes \in StandsFor(entry.sum)
    BY <1>2, <1>3, <2>2, <2>3 DEF Exact
  <2> HIDE DEF s, bytes
  <2>5. Careful(Head(s.todo), s, index, blocks)
    BY <1>3, <2>1, <2>2, <2>4 DEF Careful, Current
  <2>6. Sound(s, index, blocks, fresh)
    BY <1>2, <2>1, <2>5 DEF Sound
  <2> QED
    BY <2>6 DEF s
<1>4. \/ req' = [req EXCEPT ![t] = Idle]
      \/ call.op = "read" /\ req' = [req EXCEPT ![t] = From(Tail(req[t].todo))]
      \/ /\ bytes # None /\ call.op = "move"
         /\ req' = [req EXCEPT ![t] = [req[t] EXCEPT !.stage = "held", !.held = bytes]]
  BY <1>2 DEF Get, Raise, Return, Continue, TypeInv
<1>5. PICK s : Sound(s, index, blocks, fresh) /\ req' = [req EXCEPT ![t] = s]
  BY <1>1, <1>2, <1>3, <1>4, EndsSound
<1>6. req'[t] = s /\ \A u \in Threads : u # t => req'[u] = req[u]
  BY <1>2, <1>5 DEF TypeInv
<1>7. index' = index /\ blocks' = blocks /\ lost' = lost /\ fresh' = fresh
  BY DEF Get
<1>8. ~Unsettled(t) /\ FreshIsNew'
  BY <1>1, <1>2, <1>7, NotIndexing, FreshStays
<1> QED
  BY <1>5, <1>6, <1>7, <1>8, QuietStep DEF Shape

LEMMA ListStep ==
  ASSUME Shape, NEW t \in Threads, ListBlocks(t)
  PROVE  IInv'
<1>1. TypeInv /\ IInv /\ FreshIsNew
  BY InvOf DEF Shape, IInv
<1>2. PICK calls :
        /\ req[t] # Idle /\ Current(t).op = "list" /\ RightCalls(calls)
        /\ req' = [req EXCEPT ![t] = From(calls)]
        /\ ForBlocks(calls, Current(t).o, Current(t).tier, Tail(req[t].todo))
  BY <1>1, ListBlocksContinues
<1>3. RightRequest(req[t]) /\ InOrder(req[t].todo)
  BY <1>1, InvOf
<1>4. NoStores(Tail(req[t].todo))
  BY <1>2, <1>3, RestInOrder DEF Current
<1>5. \A b, tier : BlockCall(b, tier).op # "store"
  BY DEF BlockCall, ReadCall, MoveCall, Call
<1>6. NoStores(calls)
  BY <1>2, <1>4, <1>5 DEF NoStores, ForBlocks
<1>7. Sound(From(calls), index, blocks, fresh)
  BY <1>2, <1>6, NoStoresSound, FromSound
<1>8. req'[t] = From(calls) /\ \A u \in Threads : u # t => req'[u] = req[u]
  BY <1>1, <1>2 DEF TypeInv
<1>9. index' = index /\ blocks' = blocks /\ lost' = lost /\ fresh' = fresh
  BY DEF ListBlocks
<1>10. ~Unsettled(t) /\ FreshIsNew'
  BY <1>1, <1>2, <1>9, FreshStays DEF Unsettled, Doing, Current
<1> QED
  BY <1>7, <1>8, <1>9, <1>10, QuietStep DEF Shape

LEMMA AbortStep ==
  ASSUME Shape, NEW t \in Threads, Abort(t), ~Unsettled(t)
  PROVE  IInv'
<1>1. TypeInv /\ IInv /\ FreshIsNew
  BY InvOf DEF Shape, IInv
<1>2. index' = index /\ blocks' = blocks /\ lost' = lost /\ fresh' = fresh
  BY DEF Abort
<1>3. req'[t] = Idle /\ \A u \in Threads : u # t => req'[u] = req[u]
  BY <1>1 DEF Abort, Raise, TypeInv
<1>4. Sound(Idle, index, blocks, fresh) /\ FreshIsNew'
  BY <1>1, <1>2, IdleSound, FreshStays
<1> QED
  BY <1>2, <1>3, <1>4, QuietStep DEF Shape

LEMMA SoleWriter ==
  ASSUME IInv, NEW t \in Threads, NEW o \in Changes(t), NEW u \in Threads, Unsettled(u), Current(u).o = o
  PROVE  u = t
<1>1. o \in Changes(u)
  BY UnsettledKnows, InvOf
<1> QED
  BY <1>1, InvOf DEF OneWriterEach

LEMMA OneBlock ==
  ASSUME TypeInv, NEW b \in Backends, NEW o \in Objects, NEW c \in AllContents, NEW bytes,
         blocks' = [blocks EXCEPT ![b][Location(o, c)] = bytes]
  PROVE  /\ \A p \in Objects : p # o => \A k \in Backends : \A d \in AllContents :
              blocks'[k][Location(p, d)] = blocks[k][Location(p, d)]
         /\ blocks'[b][Location(o, c)] = bytes
         /\ \A k \in Backends : k # b => blocks'[k] = blocks[k]
<1>1. blocks \in [Backends -> [Locations -> AllContents \cup {None}]] /\ Location(o, c) \in Locations
  BY PlaceType DEF TypeInv
<1>2. \A p \in Objects : p # o => \A d \in AllContents : Location(p, d) # Location(o, c) /\ Location(p, d) \in Locations
  BY PlaceType DEF Location
<1> QED
  BY <1>1, <1>2

LEMMA PutStep ==
  ASSUME Shape, NEW t \in Threads, Put(t)
  PROVE  IInv' /\ Beyond(Current(t).o)
<1> DEFINE call == Current(t)
           entry == req[t].entry
           place == IF call.op = "store" THEN call.content ELSE entry.sum
           bytes == IF call.op = "store" THEN call.content ELSE req[t].held
<1>1. /\ req[t] # Idle
      /\ \/ call.op = "store" /\ req[t].stage = "start"
         \/ call.op = "move" /\ req[t].stage = "held"
  BY DoingBusy DEF Put, Stages, Doing, Current, Shape, IInv
<1>2. /\ IInv /\ TypeInv /\ FreshIsNew /\ ModelsAreWhole /\ req[t] \in Requests /\ RightRequest(req[t])
      /\ Sound(req[t], index, blocks, fresh) /\ Careful(call, req[t], index, blocks)
      /\ RightCall(call) /\ Knows(call, req[t])
  BY <1>1, InvOf, CurrentRight DEF Shape
<1>3. /\ call.o \in Objects /\ call.o \in Changes(t) /\ Exact(call.o) /\ Indexed(call.o)
      /\ call.tier \in Tiers /\ BackendOf(call.tier) \in Backends
  BY <1>1, <1>2, CurrentChanges, BackendType DEF IInv, RightCall
<1>4. call.op = "move" => /\ entry = index[call.o] /\ ~SameBackend(entry.tier, call.tier)
                          /\ req[t].held \in StandsFor(entry.sum) /\ entry \in Entry
  BY <1>1, <1>2 DEF Careful, Knows
<1>5. place \in AllContents /\ bytes \in StandsFor(place)
  <2>1. call.op = "store" => call.content \in AllContents
    BY <1>2 DEF RightCall
  <2> QED
    BY <1>1, <1>4, <2>1, StandingFor DEF Entry
<1>6. blocks' = [blocks EXCEPT ![BackendOf(call.tier)][Location(call.o, place)] = bytes]
  BY <1>1, <1>4 DEF Put, NewBackend
<1> HIDE DEF place, bytes
<1>7. /\ \A p \in Objects : p # call.o => \A k \in Backends : \A d \in AllContents :
            blocks'[k][Location(p, d)] = blocks[k][Location(p, d)]
      /\ blocks'[BackendOf(call.tier)][Location(call.o, place)] = bytes
      /\ \A k \in Backends : k # BackendOf(call.tier) => blocks'[k] = blocks[k]
  BY <1>2, <1>3, <1>5, <1>6, OneBlock
<1>8. index' = index /\ fresh' = fresh /\ lost' = lost
  BY DEF Put
<1>9. Beyond(call.o)
  BY <1>7, <1>8 DEF Beyond
<1> DEFINE stage == IF call.op = "store" THEN "indexing" ELSE "put"
           s == [req[t] EXCEPT !.stage = stage]
<1>10. req'[t] = s /\ \A u \in Threads : u # t => req'[u] = req[u]
  BY <1>2 DEF Put, TypeInv
<1>11. s.todo = req[t].todo /\ s.stage = stage /\ s.entry = entry /\ s.held = req[t].held
  BY <1>2 DEF Requests
<1> HIDE DEF s
<1>12. Careful(call, s, index, blocks')
  <2>1. CASE call.op = "store"
    BY <1>1, <1>7, <1>11, <2>1 DEF Careful, place, bytes
  <2>2. CASE call.op = "move"
    <3>1. blocks'[BackendOf(call.tier)][Location(call.o, entry.sum)] \in StandsFor(entry.sum)
      BY <1>5, <1>7, <2>2 DEF place
    <3>2. s.stage = "put"
      BY <1>11, <2>2
    <3> QED
      BY <1>4, <1>11, <2>2, <3>1, <3>2 DEF Careful
  <2> QED
    BY <1>1, <2>1, <2>2
<1>13. Sound(s, index', blocks', fresh')
  BY <1>2, <1>8, <1>11, <1>12 DEF Sound, Current
<1>14. ~Unsettled(t)
  BY <1>1, NotIndexing
<1>15. call.op = "store" => index[call.o] = None \/ Fits(index[call.o], call)
  <2>1. 1 \in DOMAIN req[t].todo /\ call = req[t].todo[1] /\ Clear(req[t].todo, index, fresh)
    BY <1>1, <1>2, RestOf DEF Current, Sound
  <2> QED
    BY <2>1 DEF Clear
<1>16. PICK o : o = call.o
  OBVIOUS
<1>17. Exact(o)' /\ Indexed(o)'
  <2>1. CASE call.op = "store"
    <3>1. CASE index[o] = None
      BY <1>8, <3>1 DEF Exact, Indexed
    <3>2. CASE index[o] # None
      <4>1. index[o] \in Entry /\ Fits(index[o], call) /\ call.content \in AllContents
        BY <1>2, <1>3, <1>15, <1>16, <2>1, <3>2 DEF TypeInv, RightCall
      <4>2. /\ index[o].sum \in AllContents /\ index[o].tier = call.tier
            /\ index[o].sum \in StandsFor(call.content)
        BY <4>1 DEF Fits, Entry
      <4>3. index[o].sum.type = call.content.type /\ StandsFor(index[o].sum) = StandsFor(call.content)
        BY <4>1, <4>2, StandingFor
      <4>4. call.content \in StandsFor(index[o].sum)
        BY <4>1, <4>3, StandingFor
      <4>5. Location(o, index[o].sum) = Location(o, call.content)
        BY <4>3 DEF Location
      <4>6. Stored(o, index[o])' = call.content
        BY <1>7, <1>8, <1>16, <2>1, <4>2, <4>5 DEF Stored, place, bytes
      <4> QED
        BY <1>8, <4>4, <4>6 DEF Exact, Indexed
    <3> QED
      BY <3>1, <3>2
  <2>2. CASE call.op = "move"
    <3>1. Stored(o, index[o])' = Stored(o, index[o])
      BY <1>4, <1>7, <1>8, <1>16, <2>2, BackendType DEF Stored, SameBackend, Entry
    <3>2. Exact(o)'
      BY <1>3, <1>8, <1>16, <3>1 DEF Exact
    <3>3. \A u \in Threads : ~(Unsettled(u) /\ Current(u).o = o)
      BY <1>2, <1>3, <1>14, <1>16, SoleWriter
    <3>4. Indexed(o)'
      BY <1>3, <1>8, <1>16, <3>1, <3>3 DEF Indexed
    <3> QED
      BY <3>2, <3>4
  <2> QED
    BY <1>1, <2>1, <2>2
<1>18. ModelsAreWhole'
  BY <1>2, <1>8 DEF Shape, ModelsAreWhole, HasTensor
<1>19. o \in Changes(t) /\ Beyond(o) /\ (o \in fresh => index'[o] = None)
  BY <1>2, <1>3, <1>8, <1>9, <1>16 DEF FreshIsNew
<1>20. Beyond(Current(t).o)
  BY <1>9
<1> QED
  BY <1>20, <1>8, <1>10, <1>13, <1>14, <1>17, <1>18, <1>19, ChangeStep DEF Shape

LEMMA EraseStep ==
  ASSUME Shape, NEW t \in Threads, Erase(t)
  PROVE  IInv' /\ Beyond(Current(t).o)
<1> DEFINE call == Current(t)
           entry == req[t].entry
<1>1. /\ req[t] # Idle
      /\ \/ call.op = "delete" /\ req[t].stage = "found"
         \/ call.op = "move" /\ req[t].stage = "put"
  BY DoingBusy DEF Erase, Stages, Doing, Current, Shape, IInv
<1>2. /\ IInv /\ TypeInv /\ FreshIsNew /\ ModelsAreWhole /\ req[t] \in Requests
      /\ Sound(req[t], index, blocks, fresh) /\ Careful(call, req[t], index, blocks)
      /\ RightCall(call) /\ Knows(call, req[t])
  BY <1>1, InvOf, CurrentRight DEF Shape
<1>3. PICK o : o = call.o
  OBVIOUS
<1>4. o \in Objects /\ o \in Changes(t) /\ entry \in Entry /\ entry = index[o]
  BY <1>1, <1>2, <1>3, CurrentChanges DEF Careful, Knows
<1>5. entry.sum \in AllContents /\ BackendOf(entry.tier) \in Backends
  BY <1>4, BackendType DEF Entry
<1>6. blocks' = [blocks EXCEPT ![BackendOf(entry.tier)][Location(o, entry.sum)] = None]
  BY <1>3 DEF Erase
<1>7. /\ \A p \in Objects : p # o => \A k \in Backends : \A d \in AllContents :
            blocks'[k][Location(p, d)] = blocks[k][Location(p, d)]
      /\ blocks'[BackendOf(entry.tier)][Location(o, entry.sum)] = None
      /\ \A k \in Backends : k # BackendOf(entry.tier) => blocks'[k] = blocks[k]
  BY <1>2, <1>4, <1>5, <1>6, OneBlock
<1>8. index' = index /\ fresh' = fresh /\ lost' = lost
  BY DEF Erase
<1>9. Beyond(o) /\ (o \in fresh => index'[o] = None)
  BY <1>2, <1>7, <1>8 DEF Beyond, FreshIsNew
<1> DEFINE s == [req[t] EXCEPT !.stage = "indexing"]
<1>10. req'[t] = s /\ \A u \in Threads : u # t => req'[u] = req[u]
  BY <1>2 DEF Erase, TypeInv
<1>11. s.todo = req[t].todo /\ s.stage = "indexing" /\ s.entry = entry
  BY <1>2 DEF Requests
<1> HIDE DEF s
<1>12. Careful(call, s, index, blocks')
  <2>1. CASE call.op = "delete"
    BY <1>3, <1>4, <1>11, <2>1 DEF Careful
  <2>2. CASE call.op = "move"
    <3>1. /\ ~SameBackend(entry.tier, call.tier) /\ call.tier \in Tiers
          /\ blocks[BackendOf(call.tier)][Location(o, entry.sum)] \in StandsFor(entry.sum)
      BY <1>1, <1>2, <1>3, <2>2 DEF Careful, RightCall
    <3>2. blocks'[BackendOf(call.tier)][Location(o, entry.sum)] \in StandsFor(entry.sum)
      BY <1>7, <3>1, BackendType DEF SameBackend
    <3> QED
      BY <1>3, <1>4, <1>11, <2>2, <3>2 DEF Careful
  <2> QED
    BY <1>1, <2>1, <2>2
<1>13. Sound(s, index', blocks', fresh')
  BY <1>2, <1>8, <1>11, <1>12 DEF Sound, Current
<1>14. ~Unsettled(t)
  BY <1>1, NotIndexing
<1>15. Stored(o, index[o])' = None
  BY <1>4, <1>7, <1>8 DEF Stored
<1>16. Unsettled(t)' /\ Current(t)'.o = o
  <2>1. Current(t)' = call /\ req'[t].entry = entry /\ req'[t].stage = "indexing"
        /\ Head(req'[t].todo) = call
    BY <1>10, <1>11 DEF Current
  <2>2. (Doing(t, "move", "indexing") \/ Doing(t, "delete", "indexing"))'
    BY <1>1, <2>1 DEF Doing
  <2>3. Stored(Current(t).o, req[t].entry)' = None
    BY <1>3, <1>7, <2>1 DEF Stored
  <2> QED
    BY <1>3, <2>1, <2>2, <2>3 DEF Unsettled
<1>17. Exact(o)' /\ Indexed(o)'
  BY <1>15, <1>16 DEF Exact, Indexed
<1>18. ModelsAreWhole'
  BY <1>2, <1>8 DEF Shape, ModelsAreWhole, HasTensor
<1>19. Beyond(Current(t).o)
  BY <1>3, <1>9
<1> QED
  BY <1>19, <1>4, <1>8, <1>9, <1>10, <1>13, <1>14, <1>17, <1>18, ChangeStep DEF Shape

LEMMA RegisterStep ==
  ASSUME Shape, NEW t \in Threads, Register(t)
  PROVE  IInv' /\ Beyond(Current(t).o)
<1> DEFINE call == Current(t)
           entry == req[t].entry
           sum == IF call.op = "store" THEN call.content ELSE entry.sum
           new == [tier |-> call.tier, sum |-> sum]
<1>1. req[t] # Idle /\ call.op \in {"store", "move"} /\ req[t].stage = "indexing"
  BY DoingBusy DEF Register, Stages, Doing, Current, Shape, IInv
<1>2. /\ IInv /\ TypeInv /\ FreshIsNew /\ ModelsAreWhole /\ NamedRight /\ req[t] \in Requests /\ RightRequest(req[t])
      /\ Careful(call, req[t], index, blocks)
      /\ InOrder(req[t].todo) /\ Clear(req[t].todo, index, fresh)
      /\ RightCall(call) /\ Knows(call, req[t])
  BY <1>1, InvOf, CurrentRight DEF Shape
<1>3. PICK o : o = call.o
  OBVIOUS
<1>4. o \in Objects /\ o \in Changes(t)
  BY <1>1, <1>2, <1>3, CurrentChanges
<1>5. call.op = "move" => entry = index[o] /\ entry \in Entry /\ index[o] # None
  BY <1>1, <1>2, <1>3, NoneAssumption DEF Careful, Knows
<1>6. sum \in AllContents /\ call.tier \in Tiers
  BY <1>1, <1>2, <1>5 DEF RightCall, Entry
<1>7. blocks[BackendOf(call.tier)][Location(o, sum)] \in StandsFor(sum)
  <2>1. sum \in StandsFor(sum)
    BY <1>6, StandingFor
  <2> QED
    BY <1>1, <1>2, <1>3, <2>1 DEF Careful
<1> HIDE DEF sum
<1>8. new \in Entry /\ new # None /\ new.tier = call.tier /\ new.sum = sum
  BY <1>6, NoneAssumption DEF Entry
<1>9. /\ index' = [index EXCEPT ![o] = new] /\ lost' = lost \ {o}
      /\ blocks' = blocks /\ fresh' = fresh
  BY <1>3 DEF Register, sum
<1> HIDE DEF new
<1>10. index'[o] = new /\ \A p \in Objects : p # o => index'[p] = index[p]
  BY <1>2, <1>4, <1>9 DEF TypeInv
<1>11. Beyond(o) /\ \A p \in Objects : p # o /\ p \in lost => p \in lost'
  BY <1>9, <1>10 DEF Beyond
<1>12. 1 \in DOMAIN req[t].todo /\ call = req[t].todo[1]
  BY <1>1, <1>2, RestOf DEF Current
<1>13. call.op = "store" => /\ o \notin fresh
                            /\ call.content = Manifest => \A k \in 1 .. BlockCount : HasIn(index, o, k)
  BY <1>2, <1>3, <1>12 DEF Clear
<1>14. o \in fresh => index'[o] = None
  BY <1>1, <1>2, <1>5, <1>13 DEF FreshIsNew
<1>15. Sound(From(Tail(req[t].todo)), index', blocks', fresh')
  <2>1. RightCalls(Tail(req[t].todo)) /\ InOrder(Tail(req[t].todo))
    BY <1>1, <1>2, RestOf, RestInOrder
  <2>2. call.op = "store" => index'[o] = [tier |-> call.tier, sum |-> call.content] /\ index'[o] # None
    BY <1>8, <1>10 DEF new, sum
  <2>3. Clear(Tail(req[t].todo), index', fresh)
    BY <1>1, <1>2, <1>3, <1>10, <2>2, RestClear DEF Current
  <2> QED
    BY <1>9, <2>1, <2>3, FromSound
<1>16. req'[t] = From(Tail(req[t].todo)) /\ \A u \in Threads : u # t => req'[u] = req[u]
  BY <1>2 DEF Register, Return, Continue, TypeInv
<1>17. Stored(o, index[o])' \in StandsFor(index'[o].sum)
  BY <1>7, <1>8, <1>9, <1>10 DEF Stored
<1>18. Exact(o)' /\ Indexed(o)'
  BY <1>17 DEF Exact, Indexed
<1>19. ModelsAreWhole'
  <2> SUFFICES ASSUME NEW m \in Models, index'[m] # None, index'[m].sum = Manifest, NEW k \in 1 .. BlockCount,
                      BlockId(m, k) \notin named'
               PROVE  HasIn(index', m, k)
    BY DEF ModelsAreWhole, HasTensor, HasIn
  <2>1. BlockId(m, k) \in Objects /\ BlockId(m, k) \in Blocks /\ m \in Objects /\ BlockId(m, k) # m
    BY BlocksApart, BlocksAreObjects DEF Objects
  <2>10. BlockId(m, k) \notin named
    BY DEF Shape
  <2>2. HasIn(index, m, k)
    <3>1. CASE m # o
      BY <1>2, <1>10, <2>1, <2>10, <3>1 DEF ModelsAreWhole, HasTensor, HasIn
    <3>2. CASE m = o /\ call.op = "store"
      BY <1>8, <1>10, <1>13, <3>2 DEF sum
    <3>3. CASE m = o /\ call.op = "move"
      BY <1>2, <1>5, <1>8, <1>10, <2>10, <3>3 DEF ModelsAreWhole, HasTensor, HasIn, sum
    <3> QED
      BY <1>1, <3>1, <3>2, <3>3
  <2>3. CASE BlockId(m, k) # o
    BY <1>10, <2>1, <2>2, <2>3 DEF HasIn
  <2>4. CASE BlockId(m, k) = o /\ call.op = "move"
    BY <1>5, <1>8, <1>10, <2>2, <2>4 DEF HasIn, sum
  <2>5. CASE BlockId(m, k) = o /\ call.op = "store"
    <3>1. call.content \notin Contents
      BY <1>2, <1>3, <1>12, <2>1, <2>10, <2>5 DEF NamedRight, Naming
    <3>2. call.content # Manifest
      <4>1. o \notin Models
        BY <2>1, <2>5, NamesAssumption
      <4> QED
        BY <1>2, <1>3, <2>5, <4>1 DEF RightCall, Suits, Manifest
    <3>3. call.content \in Tensors /\ Suits(o, call.content)
      BY <1>2, <1>3, <2>5, <3>1, <3>2 DEF RightCall, AllContents
    <3>4. call.content \in StandsFor(Tensor(k))
      BY <2>5, <3>3, OneIdOneBlock
    <3> QED
      BY <1>8, <1>10, <2>5, <3>4 DEF HasIn, sum
  <2> QED
    BY <1>1, <2>3, <2>4, <2>5
<1>20. Unsettled(t) => Current(t).o = o
  BY <1>3
<1>21. Beyond(Current(t).o)
  BY <1>3, <1>11
<1> QED
  BY <1>21, <1>4, <1>9, <1>11, <1>14, <1>15, <1>16, <1>18, <1>19, <1>20, ChangeStep DEF Shape

LEMMA UnindexStep ==
  ASSUME Shape, NEW t \in Threads, Unindex(t)
  PROVE  IInv' /\ Beyond(Current(t).o)
<1> DEFINE call == Current(t)
<1>1. req[t] # Idle /\ call.op = "delete" /\ req[t].stage = "indexing"
  BY DoingBusy DEF Unindex, Stages, Doing, Current, Shape, IInv
<1>2. /\ IInv /\ TypeInv /\ FreshIsNew /\ ModelsAreWhole /\ NamedRight /\ RightRequest(req[t])
      /\ InOrder(req[t].todo) /\ Clear(req[t].todo, index, fresh) /\ RightCall(call)
  BY <1>1, InvOf, CurrentRight DEF Shape
<1>3. PICK o : o = call.o
  OBVIOUS
<1>4. o \in Objects /\ o \in Changes(t) /\ (o \in Blocks => o \in named)
  <2>1. 1 \in DOMAIN req[t].todo /\ call = req[t].todo[1]
    BY <1>1, <1>2, RestOf DEF Current
  <2>2. o \in Objects /\ o \in Changes(t)
    BY <1>1, <1>2, <1>3, CurrentChanges
  <2>3. Naming(req[t].todo, named)
    BY <1>2 DEF NamedRight
  <2>4. o \in Blocks => o \in named
    BY <1>1, <1>3, <2>1, <2>3 DEF Naming
  <2> QED
    BY <2>2, <2>4
<1>5. index' = [index EXCEPT ![o] = None] /\ blocks' = blocks /\ fresh' = fresh /\ lost' = lost
  BY <1>3 DEF Unindex
<1>6. index'[o] = None /\ \A p \in Objects : p # o => index'[p] = index[p]
  BY <1>2, <1>4, <1>5 DEF TypeInv
<1>7. Beyond(o)
  BY <1>5, <1>6 DEF Beyond
<1>8. Sound(From(Tail(req[t].todo)), index', blocks', fresh')
  <2>1. RightCalls(Tail(req[t].todo)) /\ InOrder(Tail(req[t].todo))
    BY <1>1, <1>2, RestOf, RestInOrder
  <2>2. Clear(Tail(req[t].todo), index', fresh)
    BY <1>1, <1>2, <1>3, <1>6, RestClear DEF Current
  <2> QED
    BY <1>5, <2>1, <2>2, FromSound
<1>9. req'[t] = From(Tail(req[t].todo)) /\ \A u \in Threads : u # t => req'[u] = req[u]
  BY <1>2 DEF Unindex, Return, Continue, TypeInv
<1>10. Exact(o)' /\ Indexed(o)'
  BY <1>6 DEF Exact, Indexed
<1>11. ModelsAreWhole'
  <2> SUFFICES ASSUME NEW m \in Models, index'[m] # None, index'[m].sum = Manifest, NEW k \in 1 .. BlockCount,
                      BlockId(m, k) \notin named'
               PROVE  HasIn(index', m, k)
    BY DEF ModelsAreWhole, HasTensor, HasIn
  <2>1. BlockId(m, k) \in Objects /\ BlockId(m, k) \in Blocks /\ m \in Objects /\ BlockId(m, k) \notin named
    BY BlocksAreObjects DEF Objects, Shape
  <2>2. BlockId(m, k) # o /\ m # o
    BY <1>4, <1>6, <2>1
  <2>3. HasIn(index, m, k)
    BY <1>2, <1>6, <2>1, <2>2 DEF ModelsAreWhole, HasTensor, HasIn
  <2> QED
    BY <1>6, <2>1, <2>2, <2>3 DEF HasIn
<1>12. Unsettled(t) => Current(t).o = o
  BY <1>3
<1>13. Beyond(Current(t).o)
  BY <1>3, <1>7
<1> QED
  BY <1>13, <1>4, <1>5, <1>6, <1>7, <1>8, <1>9, <1>10, <1>11, <1>12, ChangeStep DEF Shape

-----------------------------------------------------------------------------
(* The end of the process comes at no moment at which an object's bytes    *)
(* are erased and its entry is not.                                        *)

LEMMA RestartStep ==
  ASSUME Shape, Restart, IndexFollows
  PROVE  IInv'
<1>1. TypeInv /\ FreshIsNew /\ ModelsAreWhole /\ \A p \in Objects : Exact(p) /\ Indexed(p)
  BY DEF Shape, IInv
<1>2. /\ blocks' = [blocks EXCEPT !["memory"] = [l \in Locations |-> None]]
      /\ req' = [t \in Threads |-> Idle]
      /\ lost' = {o \in Objects : index[o] # None /\ index[o].tier = "HOT"}
      /\ index' = index /\ fresh' = fresh
  BY DEF Restart
<1>3. \A t \in Threads : ~Unsettled(t)
  <2> SUFFICES ASSUME NEW t \in Threads, Unsettled(t)
               PROVE  FALSE
    OBVIOUS
  <2>1. req[t] # Idle /\ Current(t).o \in Objects
    BY <1>1, UnsettledKnows
  <2>2. req'[t] # req[t]
    BY <1>2, <2>1
  <2> QED
    BY <1>2, <2>2 DEF IndexFollows
<1>4. \A t \in Threads : Sound(req'[t], index', blocks', fresh')
  BY <1>2, IdleSound
<1>5. ASSUME NEW p \in Objects, index[p] # None
      PROVE  /\ index[p].tier = "HOT" => Stored(p, index[p])' = None /\ p \in lost'
             /\ index[p].tier # "HOT" => Stored(p, index[p])' = Stored(p, index[p])
  <2>1. index[p] \in Entry /\ Location(p, index[p].sum) \in Locations
    BY <1>1, <1>5, PlaceType DEF TypeInv, Entry
  <2>2. index[p].tier \in Tiers
    BY <2>1 DEF Entry
  <2>3. /\ index[p].tier = "HOT" => BackendOf(index[p].tier) = "memory"
        /\ index[p].tier # "HOT" => BackendOf(index[p].tier) # "memory"
    BY <2>2 DEF Tiers, BackendOf
  <2>4. \A b \in Backends : blocks'[b] = IF b = "memory" THEN [l \in Locations |-> None] ELSE blocks[b]
    BY <1>1, <1>2 DEF TypeInv
  <2>5. BackendOf(index[p].tier) \in Backends
    BY <2>2, BackendType
  <2>6. index[p].tier = "HOT" => Stored(p, index[p])' = None
    BY <1>2, <2>1, <2>3, <2>4, <2>5 DEF Stored
  <2>7. index[p].tier # "HOT" => Stored(p, index[p])' = Stored(p, index[p])
    BY <1>2, <2>3, <2>4, <2>5 DEF Stored
  <2> QED
    BY <1>2, <1>5, <2>6, <2>7
<1>6. ASSUME NEW p \in Objects
      PROVE  Exact(p)' /\ Indexed(p)'
  <2>1. Exact(p)'
    BY <1>1, <1>2, <1>5 DEF Exact
  <2>2. Indexed(p)'
    BY <1>1, <1>2, <1>3, <1>5 DEF Indexed
  <2> QED
    BY <2>1, <2>2
<1>7. FreshIsNew' /\ ModelsAreWhole'
  BY <1>1, <1>2 DEF FreshIsNew, ModelsAreWhole, HasTensor, Shape
<1> QED
  BY <1>4, <1>6, <1>7 DEF Shape, IInv

LEMMA CareInit == Init => IInv
<1> SUFFICES ASSUME Init PROVE IInv
  OBVIOUS
<1>1. \A t \in Threads : req[t] = Idle /\ Sound(req[t], index, blocks, fresh)
  BY IdleSound DEF Init
<1>2. OneWriterEach
  <2>1. \A t \in Threads : DOMAIN req[t].todo = {}
    BY <1>1 DEF Idle
  <2>2. \A t \in Threads : Changes(t) = {}
    BY <2>1 DEF Changes
  <2> QED
    BY <2>2 DEF OneWriterEach
<1>3. FreshIsNew /\ ModelsAreWhole /\ \A o \in Objects : Exact(o) /\ Indexed(o)
  <2>1. \A o \in Objects : index[o] = None
    BY DEF Init
  <2>2. \A m \in Models : m \in Objects /\ BlockIds(m) \subseteq Objects
    BY BlocksAreObjects DEF Objects
  <2>3. fresh = Objects
    BY DEF Init
  <2> QED
    BY <2>1, <2>2, <2>3 DEF FreshIsNew, ModelsAreWhole, Exact, Indexed
<1>4. NamedRight
  <2>1. \A t \in Threads : DOMAIN req[t].todo = {}
    BY <1>1 DEF Idle
  <2> QED
    BY <2>1 DEF NamedRight, Naming
<1> QED
  BY <1>1, <1>2, <1>3, <1>4, TypeInit DEF IInv

(* A block's deletion or replacement names it when the request begins, and *)
(* later steps add no such call.                                           *)
LEMMA NamingLeft ==
  ASSUME NEW calls, NEW names, NEW more, names \subseteq more, Naming(calls, names)
  PROVE  Naming(calls, more)
BY DEF Naming

LEMMA NamedStep ==
  ASSUME TypeInv, NamedRight, Next
  PROVE  NamedRight' /\ named \subseteq named'
<1>0. /\ req \in [Threads -> Requests] /\ \A u \in Threads : RightRequest(req[u])
      /\ \A u \in Threads : Naming(req[u].todo, named)
  BY DEF TypeInv, NamedRight
<1>1. \A names : Naming(Idle.todo, names)
  BY DEF Naming, Idle
<1>2. CASE Restart
  BY <1>1, <1>2 DEF Restart, NamedRight
<1>3. ASSUME NEW t \in Threads, Request(t)
      PROVE  NamedRight' /\ named \subseteq named'
  <2>1. PICK calls : StartsRight(t, calls)
    BY <1>3, RequestBegins
  <2>2. RightCalls(calls) /\ BeginsWith(t, calls) /\ Naming(calls, named') /\ named \subseteq named'
    BY <2>1 DEF StartsRight, BeginsWith
  <2>3. From(calls).todo = calls /\ req' = [req EXCEPT ![t] = From(calls)]
    BY <2>2, FromRight DEF BeginsWith, Begin, Continue
  <2>4. ASSUME NEW u \in Threads
        PROVE  Naming(req'[u].todo, named')
    <3>1. CASE u = t
      BY <1>0, <2>2, <2>3, <3>1
    <3>2. CASE u # t
      BY <1>0, <2>2, <2>3, <3>2, NamingLeft
    <3> QED
      BY <3>1, <3>2
  <2> QED
    BY <2>2, <2>4 DEF NamedRight
<1>4. ASSUME NEW t \in Threads, Step(t) \/ Abort(t)
      PROVE  NamedRight' /\ named \subseteq named'
  <2>1. named' = named
    BY <1>4 DEF Step, Lookup, Get, Put, Erase, Register, Unindex, ListBlocks, Abort
  <2>2. PICK r : Naming(r.todo, named) /\ req' = [req EXCEPT ![t] = r]
    <3>1. CASE req[t] # Idle
      <4>1. \A i \in DOMAIN Tail(req[t].todo) :
              i + 1 \in DOMAIN req[t].todo /\ Tail(req[t].todo)[i] = req[t].todo[i + 1]
        BY <1>0, <3>1, RestOf
      <4>2. Naming(Tail(req[t].todo), named)
        BY <1>0, <4>1 DEF Naming
      <4>3. From(Tail(req[t].todo)).todo = Tail(req[t].todo)
        BY <1>0, <3>1, FromRight, RestOf
      <4>4. CASE ListBlocks(t)
        <5>1. PICK calls : /\ RightCalls(calls) /\ req' = [req EXCEPT ![t] = From(calls)]
                           /\ ForBlocks(calls, Current(t).o, Current(t).tier, Tail(req[t].todo))
          BY <4>4, ListBlocksContinues
        <5>2. \A b, tier : BlockCall(b, tier).op \notin {"store", "delete"}
          BY DEF BlockCall, ReadCall, MoveCall, Call
        <5>3. Naming(calls, named)
          BY <4>2, <5>1, <5>2 DEF Naming, ForBlocks
        <5>4. From(calls).todo = calls
          BY <5>1, FromRight
        <5> QED
          BY <5>1, <5>3, <5>4
      <4>5. CASE ~ListBlocks(t)
        <5>1. PICK r : /\ r.todo = req[t].todo \/ r = Idle \/ r = From(Tail(req[t].todo))
                       /\ req' = [req EXCEPT ![t] = r]
          <6>1. CASE Lookup(t)
            BY <1>0, <6>1 DEF Lookup, Raise, Return, Continue, Requests
          <6>2. CASE Get(t)
            BY <1>0, <6>2 DEF Get, Raise, Return, Continue, Requests
          <6>3. CASE Put(t) \/ Erase(t)
            BY <1>0, <6>3 DEF Put, Erase, Requests
          <6>4. CASE Register(t) \/ Unindex(t) \/ Abort(t)
            BY <6>4 DEF Register, Unindex, Abort, Raise, Return, Continue
          <6> QED
            BY <1>4, <4>5, <6>1, <6>2, <6>3, <6>4 DEF Step
        <5> QED
          BY <1>0, <1>1, <4>2, <4>3, <5>1
      <4> QED
        BY <4>4, <4>5
    <3>2. CASE req[t] = Idle
      <4>1. ~Step(t)
        <5>1. \A op : \A stage \in Stages \ {"idle"} : ~Doing(t, op, stage)
          BY <3>2, DoingBusy
        <5> QED
          BY <5>1 DEF Step, Lookup, Get, Put, Erase, Register, Unindex, ListBlocks, Stages
      <4> QED
        BY <1>4, <3>2, <4>1 DEF Abort
    <3> QED
      BY <3>1, <3>2
  <2>3. ASSUME NEW u \in Threads
        PROVE  Naming(req'[u].todo, named')
    <3>1. CASE u = t
      BY <1>0, <2>1, <2>2, <3>1
    <3>2. CASE u # t
      BY <1>0, <2>1, <2>2, <3>2
    <3> QED
      BY <3>1, <3>2
  <2> QED
    BY <2>1, <2>3 DEF NamedRight
<1> QED
  BY <1>2, <1>3, <1>4 DEF Next

LEMMA CareStep ==
  ASSUME IInv, [CareNext]_vars
  PROVE  IInv'
<1>1. CASE UNCHANGED vars
  <2>1. index' = index /\ blocks' = blocks /\ req' = req /\ fresh' = fresh /\ lost' = lost /\ named' = named
    BY <1>1 DEF vars
  <2>2. TypeInv'
    BY <1>1, TypeStep DEF IInv
  <2>21. \A t : Changes(t)' = Changes(t)
    BY <2>1 DEF Changes
  <2>22. OneWriterEach'
    BY <2>21 DEF IInv, OneWriterEach
  <2>3. OneWriterEach' /\ NamedRight' /\ FreshIsNew' /\ ModelsAreWhole'
    BY <2>1, <2>22 DEF IInv, NamedRight, FreshIsNew, ModelsAreWhole, HasTensor
  <2>4. \A o \in Objects : Exact(o)' /\ Indexed(o)'
    BY <2>1 DEF IInv, Exact, Indexed, Stored, Unsettled, Doing, Current
  <2>5. \A t \in Threads : Sound(req'[t], index', blocks', fresh')
    BY <2>1 DEF IInv
  <2> QED
    BY <2>2, <2>3, <2>4, <2>5 DEF IInv
<1>2. CASE CareNext
  <2>1. Shape /\ IndexFollows
    BY <1>2, TypeStep, NamedStep DEF Shape, CareNext, IInv
  <2>2. CASE Restart
    BY <2>1, <2>2, RestartStep
  <2>3. ASSUME NEW t \in Threads, Request(t)
        PROVE  IInv'
    BY <2>1, <2>3, BeginStep
  <2>4. ASSUME NEW t \in Threads, Step(t)
        PROVE  IInv'
    BY <2>1, <2>4, LookupStep, GetStep, PutStep, EraseStep, RegisterStep, UnindexStep, ListStep DEF Step
  <2>5. ASSUME NEW t \in Threads, Abort(t)
        PROVE  IInv'
    <3>1. ~Unsettled(t)
      <4> SUFFICES ASSUME Unsettled(t)
                   PROVE  FALSE
        OBVIOUS
      <4>1. req'[t] # req[t] /\ index' = index
        BY <2>5 DEF Abort, Raise, IInv, TypeInv
      <4> QED
        BY <2>1, <4>1 DEF IndexFollows
    <3> QED
      BY <2>1, <2>5, <3>1, AbortStep
  <2> QED
    BY <1>2, <2>2, <2>3, <2>4, <2>5 DEF CareNext, Next
<1> QED
  BY <1>1, <1>2

(* The inductive invariant holds as long as no two requests change one     *)
(* object and what is erased is told to the index.                         *)
THEOREM Inductive == CareSpec => []IInv
BY CareInit, CareStep, PTL DEF CareSpec

(* The index says where the bytes are, through every move, failure and     *)
(* restart.                                                                *)
THEOREM IndexTrue == CareSpec => []IndexIsTrue
<1>1. IInv => IndexIsTrue
  BY DEF IInv, IndexIsTrue, Indexed
<1> QED
  BY <1>1, Inductive, PTL

(* A model that is listed has all its tensors, of those that share an id   *)
(* one, but for blocks somebody named in a request of their own.           *)
THEOREM ModelsWhole == CareSpec => []ModelsAreWhole
<1>1. IInv => ModelsAreWhole
  BY DEF IInv
<1> QED
  BY <1>1, Inductive, PTL

-----------------------------------------------------------------------------
(* The last copy.                                                          *)

LEMMA CopiesStay ==
  ASSUME TypeInv, NEW o \in Objects, index'[o] = index[o],
         \A b \in Backends : \A c \in AllContents : blocks'[b][Location(o, c)] = blocks[b][Location(o, c)]
  PROVE  Copies(o)' = Copies(o)
<1>1. index[o] # None => index[o].sum \in AllContents
  BY DEF TypeInv, Entry
<1> QED
  BY <1>1 DEF Copies

(* A call that writes its object: what becomes of the object's copies. *)
LEMMA WrittenCopies ==
  ASSUME IInv, IInv', NEW t \in Threads, Put(t) \/ Erase(t) \/ Register(t) \/ Unindex(t),
         NEW o \in Objects, o = Current(t).o, Copies(o) # {}, Copies(o)' = {}
  PROVE  Doing(t, "delete", "found") \/ Doing(t, "delete", "indexing")
<1> SUFFICES ASSUME ~Doing(t, "delete", "found"), ~Doing(t, "delete", "indexing")
             PROVE  FALSE
  OBVIOUS
<1> DEFINE call == Current(t)
<1>1. /\ TypeInv /\ RightRequest(req[t]) /\ req[t] \in Requests /\ Clear(req[t].todo, index, fresh)
      /\ req \in [Threads -> Requests]
  BY InvOf DEF IInv, TypeInv
<1>2. req[t] # Idle
  BY <1>1, DoingBusy DEF Put, Erase, Register, Unindex, Stages
<1>3. Careful(call, req[t], index, blocks) /\ RightCall(call) /\ Knows(call, req[t])
  BY <1>1, <1>2, InvOf, CurrentRight
<1>4. CASE Put(t) /\ call.op = "store"
  <2>1. 1 \in DOMAIN req[t].todo /\ call = req[t].todo[1]
    BY <1>1, <1>2, RestOf DEF Current
  <2>2. index[o] = None \/ Fits(index[o], call)
    BY <1>1, <1>4, <2>1 DEF Clear
  <2>3. index'[o] = index[o] /\ index[o] # None
    BY <1>4 DEF Put, Copies
  <2>4. index[o] \in Entry /\ index'[o] # None
    BY <1>1, <2>3 DEF TypeInv
  <2>5. index[o].tier \in Tiers /\ BackendOf(index[o].tier) \in Backends
    BY <2>4, BackendType DEF Entry
  <2>6. call.content \in AllContents /\ index[o].sum \in AllContents
    BY <1>3, <1>4, <2>4 DEF RightCall, Entry
  <2>7. index[o].tier = call.tier /\ index[o].sum \in StandsFor(call.content)
    BY <2>2, <2>3 DEF Fits
  <2>8. index[o].sum.type = call.content.type /\ call.content \in StandsFor(index[o].sum)
    BY <2>6, <2>7, StandingFor
  <2>9. Location(o, index[o].sum) = Location(o, call.content)
    BY <2>8 DEF Location
  <2>10. blocks' = [blocks EXCEPT ![BackendOf(call.tier)][Location(o, call.content)] = call.content]
    BY <1>4 DEF Put, NewBackend
  <2>11. blocks'[BackendOf(call.tier)][Location(o, call.content)] = call.content
    <3>1. BackendOf(call.tier) \in Backends
      BY <2>5, <2>7
    <3>2. Location(o, call.content) \in Locations
      BY <2>6, PlaceType
    <3>3. blocks \in [Backends -> [Locations -> AllContents \cup {None}]]
      BY <1>1 DEF TypeInv
    <3> HIDE DEF call
    <3> QED
      BY <2>10, <3>1, <3>2, <3>3
  <2>12. BackendOf(index[o].tier) \in Copies(o)'
    BY <2>3, <2>5, <2>7, <2>8, <2>9, <2>11 DEF Copies
  <2> QED
    BY <2>12
<1>5. CASE (Put(t) /\ call.op # "store") \/ Erase(t)
  <2>1. call.op = "move"
    BY <1>5 DEF Put, Erase, Doing, Current
  <2>2. req'[t] = [req[t] EXCEPT !.stage = IF Put(t) THEN "put" ELSE "indexing"]
    BY <1>1, <1>5, <2>1 DEF Put, Erase, Doing
  <2>3. req'[t].todo = req[t].todo /\ req'[t].stage \in {"put", "indexing"} /\ req'[t].entry = req[t].entry
    BY <1>1, <2>2 DEF Requests
  <2>4. req'[t] # Idle
    BY <2>3 DEF Idle
  <2>5. Sound(req'[t], index', blocks', fresh')
    BY DEF IInv
  <2>6. Careful(call, req'[t], index', blocks')
    BY <2>3, <2>4, <2>5 DEF Sound, Current
  <2>70. req[t].stage # "start"
    BY <1>5, <2>1 DEF Put, Erase, Doing, Current
  <2>71. req[t].entry \in Entry /\ call.tier \in Tiers
    BY <1>3, <2>1, <2>70 DEF Knows, RightCall
  <2>7. req[t].entry # None /\ BackendOf(call.tier) \in Backends
    BY <2>71, NoneAssumption, BackendType
  <2>8. BackendOf(call.tier) \in Copies(o)'
    BY <2>1, <2>3, <2>6, <2>7 DEF Careful, Copies
  <2> QED
    BY <2>8
<1>6. CASE Register(t)
  <2>1. call.op \in {"store", "move"} /\ req[t].stage = "indexing"
    BY <1>6 DEF Register, Doing, Current
  <2>2. PICK sum : sum = IF call.op = "store" THEN call.content ELSE req[t].entry.sum
    OBVIOUS
  <2>30. call.tier \in Tiers /\ sum \in AllContents
    BY <1>3, <2>1, <2>2 DEF RightCall, Knows, Entry
  <2>31. sum \in StandsFor(sum)
    BY <2>30, StandingFor
  <2>3. /\ blocks[BackendOf(call.tier)][Location(o, sum)] \in StandsFor(sum)
        /\ call.tier \in Tiers /\ sum \in AllContents
    BY <1>3, <2>1, <2>2, <2>30, <2>31 DEF Careful
  <2>4. index' = [index EXCEPT ![o] = [tier |-> call.tier, sum |-> sum]] /\ blocks' = blocks
    BY <1>6, <2>2 DEF Register
  <2>5. [tier |-> call.tier, sum |-> sum] \in Entry
    BY <2>3 DEF Entry
  <2>6. index'[o] # None /\ index'[o].sum = sum
    BY <1>1, <2>4, <2>5, NoneAssumption DEF TypeInv
  <2>7. BackendOf(call.tier) \in Copies(o)'
    BY <2>3, <2>4, <2>6, BackendType DEF Copies
  <2> QED
    BY <2>7
<1>7. CASE Unindex(t)
  BY <1>7 DEF Unindex
<1> QED
  BY <1>4, <1>5, <1>6, <1>7

(* Nothing but an object's deletion takes its last copy away, except the   *)
(* end of the process when that copy was in memory.                        *)
THEOREM LastCopyKept == CareSpec => LastCopyIsKept
<1> DEFINE Kept ==
      \A o \in Objects : Copies(o) # {} /\ Copies(o)' = {} =>
        \/ Copies(o) = {"memory"} /\ \A t \in Threads : req'[t] = Idle
        \/ \E t \in Threads : /\ Doing(t, "delete", "found") \/ Doing(t, "delete", "indexing")
                              /\ Current(t).o = o
<1>1. IInv /\ IInv' /\ [CareNext]_vars => [Kept]_vars
  <2> SUFFICES ASSUME IInv, IInv', CareNext, NEW o \in Objects, Copies(o) # {}, Copies(o)' = {}
               PROVE  \/ Copies(o) = {"memory"} /\ \A t \in Threads : req'[t] = Idle
                      \/ \E t \in Threads : /\ Doing(t, "delete", "found") \/ Doing(t, "delete", "indexing")
                                            /\ Current(t).o = o
    OBVIOUS
  <2>1. TypeInv /\ Shape
    BY NamedStep DEF Shape, IInv, CareNext
  <2>2. ASSUME UNCHANGED <<index, blocks>>
        PROVE  FALSE
    <3>1. Copies(o)' = Copies(o)
      BY <2>2 DEF Copies
    <3> QED
      BY <3>1
  <2>3. CASE Restart
    <3>1. /\ index' = index /\ req' = [t \in Threads |-> Idle]
          /\ blocks' = [blocks EXCEPT !["memory"] = [l \in Locations |-> None]]
      BY <2>3 DEF Restart
    <3>2. \A b \in Backends : b # "memory" => blocks'[b] = blocks[b]
      BY <2>1, <3>1 DEF TypeInv
    <3>3. \A b \in Copies(o) : b = "memory"
      BY <3>1, <3>2 DEF Copies
    <3> QED
      BY <3>1, <3>3
  <2>4. ASSUME NEW t \in Threads, Request(t) \/ Abort(t) \/ Lookup(t) \/ Get(t) \/ ListBlocks(t)
        PROVE  FALSE
    <3>1. CASE Request(t)
      <4>1. PICK calls : SoundStart(t, calls)
        BY <3>1, RequestStarts
      <4> QED
        BY <2>2, <4>1 DEF SoundStart, BeginsWith, Begin
    <3> QED
      BY <2>2, <2>4, <3>1 DEF Abort, Lookup, Get, ListBlocks
  <2>5. ASSUME NEW t \in Threads, Put(t) \/ Erase(t) \/ Register(t) \/ Unindex(t)
        PROVE  /\ Doing(t, "delete", "found") \/ Doing(t, "delete", "indexing")
               /\ Current(t).o = o
    <3>1. Beyond(Current(t).o)
      BY <2>1, <2>5, PutStep, EraseStep, RegisterStep, UnindexStep
    <3>2. Current(t).o = o
      <4> SUFFICES ASSUME Current(t).o # o
                   PROVE  FALSE
        OBVIOUS
      <4>1. Copies(o)' = Copies(o)
        BY <2>1, <3>1, CopiesStay DEF Beyond
      <4> QED
        BY <4>1
    <3> QED
      BY <2>5, <3>2, WrittenCopies
  <2> QED
    BY <2>3, <2>4, <2>5 DEF CareNext, Next, Step
<1> QED
  BY <1>1, Inductive, PTL DEF CareSpec, LastCopyIsKept
=============================================================================
