--------------------------- MODULE AccountsProofs ---------------------------
(***************************************************************************)
(* Theorems about Accounts, for any processes, names, roles granted and    *)
(* bounds: what a server answers is right, no account is undone, and only  *)
(* the first account is asked for, as long as no two processes are between *)
(* the load and the save of one file.                                      *)
(***************************************************************************)
EXTENDS Accounts, TLAPS

Labels == Names \cup {LocalUi}
TokenOps == {"issue", "revoke"}
UserOps == {"create", "set_role", "delete"}
Working == {"changing", "truncating", "writing"}
Saving == {"truncating", "writing"}
Stages == Working \cup {"ended", "asking", "prompting", "serving"}

ProcessType ==
  [role : Roles \cup {None}, name : Labels \cup Usernames \cup {None}, server : BOOLEAN,
   op : AllOps \cup {None}, stage : Stages,
   mem : SUBSET (TokenEntries \cup UserEntries)]

FileType == [is : {"missing", "torn", "whole"}, entries : SUBSET (OldTokenEntries \cup UserEntries)]

(* What a process at a stage is given and holds. *)
Sensible(q) ==
  /\ q.stage \in Working =>
       \/ q.op = "issue" /\ q.name \in Labels /\ q.role \in Roles
       \/ q.op = "revoke" /\ q.name \in Labels
       \/ q.op \in {"create", "set_role"} /\ q.name \in Usernames /\ q.role \in Roles
       \/ q.op = "delete" /\ q.name \in Usernames
  /\ q.stage \in {"asking", "prompting"} => q.op = "create" /\ q.role = "admin"
  /\ q.stage \in {"ended", "serving"} => q.op = None
  /\ q.server => q.op \in {None, "create", "revoke", "issue"}
  /\ q.op \in TokenOps \cup {None} => q.mem \subseteq TokenEntries
  /\ q.op \in UserOps => q.mem \subseteq UserEntries

Types ==
  /\ proc \in [Processes -> ProcessType]
  /\ \A p \in Processes : Sensible(proc[p])
  /\ file \in [Files -> FileType]
  /\ file["tokens"].entries \subseteq OldTokenEntries
  /\ file["users"].entries \subseteq UserEntries
  /\ issued \in 0 .. MaxTokens
  /\ handed \subseteq TokenEntries
  /\ revoked \subseteq Tokens
  /\ accounts \subseteq UserEntries

(* One process at a time is between the load and the save of a file. *)
OneHolds ==
  \A p, q \in Processes, f \in Files : Holds(p, f) /\ Holds(q, f) => p = q

(* The accounts when the operation of p returns. *)
AccountsAfter(p) ==
  Without(accounts, proc[p].name)
    \cup (IF proc[p].op = "delete" THEN {} ELSE {Entry(proc[p].name, None, proc[p].role)})

UsersAgree ==
  /\ AccountsAreKept
  /\ \A p \in Processes :
       proc[p].op \in UserOps /\ proc[p].stage \in Saving => proc[p].mem = AccountsAfter(p)

(* The tokens that work. *)
Valid == {e \in handed : e.token \notin revoked}

(* The newest token, made and not yet handed out. *)
IsNew(token) == token \notin revoked /\ \A e \in handed : e.token # token

(* What a process holds of the tokens file. *)
TokensHeld(p) ==
  /\ proc[p].op = "revoke" /\ proc[p].stage \in Saving => proc[p].mem = Without(Valid, proc[p].name)
  /\ proc[p].op = "issue" /\ proc[p].stage \in Saving =>
       /\ issued \in Tokens /\ IsNew(issued)
       /\ proc[p].mem = Valid \cup {Entry(proc[p].name, issued, proc[p].role)}
  /\ proc[p].op = "issue" /\ proc[p].server /\ proc[p].stage = "changing" => proc[p].mem = Valid

TokensAgree ==
  /\ ~Raises("tokens") => Contents("tokens") = Valid
  /\ \A e \in handed : e.token <= issued
  /\ \A t \in revoked : t <= issued
  /\ \A e, g \in handed : e.token = g.token => e = g
  /\ \A p \in Processes : TokensHeld(p)

IInv == Types /\ OneHolds /\ UsersAgree /\ TokensAgree
-----------------------------------------------------------------------------
(* Types.                                                                  *)

LEMMA ContentsType ==
  ASSUME Types
  PROVE  /\ Contents("tokens") \subseteq TokenEntries
         /\ Contents("users") \subseteq UserEntries
         /\ Contents("users") = file["users"].entries
<1>1. \A e \in OldTokenEntries : WithRole(e) \in TokenEntries
  BY DEF WithRole, OldTokenEntries, TokenEntries, Roles
<1>2. \A e \in UserEntries : WithRole(e) = e
  BY NamesAssumption DEF WithRole, UserEntries
<1> QED BY <1>1, <1>2 DEF Types, Contents

LEMMA FileOfType == \A op : FileOf(op) \in Files
BY DEF FileOf, Files

LEMMA BaseType ==
  ASSUME Types, NEW p \in Processes, proc[p].stage \in Working
  PROVE  /\ proc[p].op \in TokenOps => Base(p) \subseteq TokenEntries
         /\ proc[p].op \in UserOps => Base(p) = Contents("users") /\ Base(p) \subseteq UserEntries
BY ContentsType DEF Types, Sensible, Base, FileOf, TokenOps, UserOps

LEMMA ResultType ==
  ASSUME Types, NEW p \in Processes, proc[p].stage \in Working,
         proc[p].op = "issue" => issued + 1 <= MaxTokens
  PROVE  /\ proc[p].op \in TokenOps => Result(p) \subseteq TokenEntries
         /\ proc[p].op \in UserOps => Result(p) \subseteq UserEntries
<1>1. Sensible(proc[p]) /\ issued \in 0 .. MaxTokens
  BY DEF Types
<1>2. CASE proc[p].op = "issue"
  <2>1. Entry(proc[p].name, issued + 1, proc[p].role) \in TokenEntries
    BY <1>1, <1>2, BoundAssumption DEF Sensible, Entry, TokenEntries, Labels, Tokens
  <2> QED BY <1>2, <2>1, BaseType DEF Result, TokenOps, UserOps
<1>3. CASE proc[p].op = "create"
  <2>1. Entry(proc[p].name, None, proc[p].role) \in UserEntries
    BY <1>1, <1>3 DEF Sensible, Entry, UserEntries
  <2> QED BY <1>3, <2>1, BaseType DEF Result, TokenOps, UserOps
<1>4. CASE proc[p].op = "set_role"
  <2>1. Entry(proc[p].name, None, proc[p].role) \in UserEntries
    BY <1>1, <1>4 DEF Sensible, Entry, UserEntries
  <2> QED BY <1>4, <2>1, BaseType DEF Result, TokenOps, UserOps, Without
<1>5. CASE proc[p].op = "revoke"
  BY <1>5, BaseType DEF Result, TokenOps, UserOps, Without
<1>6. CASE proc[p].op = "delete"
  BY <1>6, BaseType DEF Result, TokenOps, UserOps, Without
<1> QED BY <1>1, <1>2, <1>3, <1>4, <1>5, <1>6 DEF Sensible

LEMMA AfterReturnType ==
  ASSUME Types, NEW p \in Processes, proc[p].stage \in Working, NEW STATE mem,
         proc[p].op \in TokenOps => mem \subseteq TokenEntries
  PROVE  /\ AfterReturn(p, mem) \in ProcessType
         /\ Sensible(AfterReturn(p, mem))
<1>1. Sensible(proc[p]) /\ proc[p] \in ProcessType
  BY DEF Types
<1>2. Ended \in ProcessType /\ Sensible(Ended)
  BY NamesAssumption DEF Ended, Process, ProcessType, Sensible, Stages, Working, UserOps, TokenOps, AllOps
<1>3. CASE ~proc[p].server
  BY <1>2, <1>3 DEF AfterReturn
<1>4. CASE proc[p].server /\ proc[p].op = "create"
  BY <1>4 DEF AfterReturn, AfterAccount, Process, ProcessType, Sensible, Stages, Working, TokenOps, UserOps, AllOps, Labels
<1>5. CASE proc[p].server /\ proc[p].op = "revoke"
  <2>1. AfterReturn(p, mem) = [Process(TRUE, "issue", "changing", LocalUi, "admin") EXCEPT !.mem = mem]
    BY <1>5 DEF AfterReturn
  <2>2. mem \subseteq TokenEntries
    BY <1>5 DEF TokenOps
  <2> QED BY <2>1, <2>2 DEF Process, ProcessType, Sensible, Stages, Working, TokenOps, UserOps, AllOps, Labels, Roles
<1>6. CASE proc[p].server /\ proc[p].op = "issue"
  <2>1. AfterReturn(p, mem) = [Process(TRUE, None, "serving", None, None) EXCEPT !.mem = mem]
    BY <1>6 DEF AfterReturn
  <2>2. mem \subseteq TokenEntries
    BY <1>6 DEF TokenOps
  <2> QED BY <2>1, <2>2, NamesAssumption DEF Process, ProcessType, Sensible, Stages, Working, TokenOps, UserOps, AllOps
<1> QED BY <1>1, <1>3, <1>4, <1>5, <1>6, NamesAssumption DEF Sensible, Working, AllOps

LEMMA ReturnsType ==
  ASSUME Types, NEW p \in Processes, proc[p].stage \in Working, NEW STATE mem,
         proc[p].op \in TokenOps => mem \subseteq TokenEntries,
         Returns(p, mem)
  PROVE  /\ proc' \in [Processes -> ProcessType]
         /\ \A q \in Processes : Sensible(proc[q])'
         /\ handed' \subseteq TokenEntries
         /\ revoked' \subseteq Tokens
         /\ accounts' \subseteq UserEntries
<1>1. Sensible(proc[p]) /\ proc \in [Processes -> ProcessType]
  BY DEF Types
<1>2. proc' \in [Processes -> ProcessType] /\ \A q \in Processes : Sensible(proc[q])'
  BY <1>1, AfterReturnType DEF Returns, Types, Sensible
<1>3. handed' \subseteq TokenEntries
  BY DEF Returns, Types, TokenOps
<1>4. revoked' \subseteq Tokens
  BY DEF Returns, Types, TokenEntries, Named, Without
<1>5. CASE proc[p].op \in {"create", "set_role"}
  <2>1. Entry(proc[p].name, None, proc[p].role) \in UserEntries
    BY <1>1, <1>5 DEF Sensible, Entry, UserEntries
  <2> QED BY <1>2, <1>3, <1>4, <1>5, <2>1 DEF Returns, Types, Without
<1>6. CASE proc[p].op \notin {"create", "set_role"}
  BY <1>2, <1>3, <1>4, <1>6 DEF Returns, Types, Without
<1> QED BY <1>5, <1>6

LEMMA RunsType ==
  ASSUME Types, NEW p \in Processes, NEW process \in ProcessType, Sensible(process), Runs(p, process)
  PROVE  Types'
BY DEF Types, Runs, history, Sensible

LEMMA StartsType ==
  ASSUME Types, NEW p \in Processes, Starts(p)
  PROVE  Types'
<1> USE DEF Process, ProcessType, Sensible, Stages, Working, TokenOps, UserOps, AllOps, Labels
<1>1. CASE TokenIssue(p)
  BY <1>1, RunsType, RolesAssumption DEF TokenIssue
<1>2. CASE TokenRevoke(p)
  BY <1>2, RunsType DEF TokenRevoke
<1>3. CASE UserCreate(p)
  BY <1>3, RunsType, RolesAssumption DEF UserCreate
<1>4. CASE UserSetRole(p)
  BY <1>4, RunsType, RolesAssumption DEF UserSetRole
<1>5. CASE UserDelete(p)
  BY <1>5, RunsType DEF UserDelete
<1>6. CASE Serve(p)
  BY <1>6, RunsType DEF Serve, Roles
<1>7. CASE Shell(p)
  BY <1>7, RunsType DEF Shell, Roles
<1> QED BY <1>1, <1>2, <1>3, <1>4, <1>5, <1>6, <1>7 DEF Starts

LEMMA FailsType ==
  ASSUME Types, NEW p \in Processes, Fails(p), UNCHANGED <<file, issued>>
  PROVE  Types'
<1>1. Ended \in ProcessType /\ Sensible(Ended)
  BY NamesAssumption DEF Ended, Process, ProcessType, Sensible, Stages, Working, UserOps, TokenOps, AllOps
<1> QED BY <1>1 DEF Types, Fails, history, Sensible

LEMMA ChangeType ==
  ASSUME Types, NEW p \in Processes, Change(p)
  PROVE  Types'
<1>1. proc[p].stage \in Working /\ Sensible(proc[p]) /\ file' = file
  BY DEF Change, Working, Types
<1>2. CASE Fails(p) /\ UNCHANGED issued
  BY <1>1, <1>2, FailsType
<1>3. CASE Returns(p, Base(p)) /\ UNCHANGED issued
  BY <1>1, <1>3, BaseType, ReturnsType DEF Types
<1>4. CASE /\ issued' = IF proc[p].op = "issue" THEN issued + 1 ELSE issued
           /\ issued' <= MaxTokens
           /\ proc' = [proc EXCEPT ![p].stage = "truncating", ![p].mem = Result(p)]
           /\ UNCHANGED history
  <2>1. issued' \in 0 .. MaxTokens
    BY <1>4, BoundAssumption DEF Types
  <2>2. /\ proc[p].op \in TokenOps => Result(p) \subseteq TokenEntries
        /\ proc[p].op \in UserOps => Result(p) \subseteq UserEntries
    BY <1>1, <1>4, ResultType DEF Types
  <2>3. proc[p].op \in TokenOps \cup UserOps
    BY <1>1 DEF Sensible, TokenOps, UserOps, Working
  <2>4. Result(p) \in SUBSET (TokenEntries \cup UserEntries)
    BY <2>2, <2>3
  <2>5. proc' \in [Processes -> ProcessType]
    <3> DEFINE held == Result(p)
    <3>1. held \in SUBSET (TokenEntries \cup UserEntries)
      BY <2>4
    <3> HIDE DEF held
    <3>2. \A q \in ProcessType : [q EXCEPT !.stage = "truncating", !.mem = held] \in ProcessType
      BY <3>1 DEF ProcessType, Stages, Working
    <3>3. proc' = [proc EXCEPT ![p] = [proc[p] EXCEPT !.stage = "truncating", !.mem = held]]
      BY <1>4 DEF held
    <3> QED BY <3>2, <3>3 DEF Types
  <2>6. Sensible(proc[p])'
    BY <1>1, <1>4, <2>2 DEF Sensible, Working, Types, ProcessType
  <2>7. \A q \in Processes : Sensible(proc[q])'
    BY <1>4, <2>6 DEF Types, Sensible
  <2> QED BY <1>1, <1>4, <2>1, <2>5, <2>7 DEF Types, history
<1> QED BY <1>2, <1>3, <1>4 DEF Change

LEMMA ProceedsType ==
  ASSUME Types, NEW p \in Processes, Proceeds(p)
  PROVE  Types'
<1>1. Sensible(proc[p]) /\ proc[p] \in ProcessType
  BY DEF Types
<1>2. CASE AskForAdmin(p)
  <2>1. CASE Fails(p)
    BY <1>2, <2>1, FailsType DEF AskForAdmin
  <2>2. CASE /\ Contents("users") = {}
             /\ proc' = [proc EXCEPT ![p].stage = "prompting", ![p].mem = Contents("users")]
             /\ UNCHANGED history
    <3>1. proc' \in [Processes -> ProcessType] /\ \A q \in Processes : Sensible(proc[q])'
      BY <1>1, <1>2, <2>2 DEF Types, AskForAdmin, ProcessType, Sensible, Stages, Working
    <3> QED BY <1>2, <2>2, <3>1 DEF Types, AskForAdmin, history
  <2>3. CASE proc' = [proc EXCEPT ![p] = AfterAccount(p)] /\ UNCHANGED history
    <3>1. AfterAccount(p) \in ProcessType /\ Sensible(AfterAccount(p))
      BY NamesAssumption
      DEF AfterAccount, Ended, Process, ProcessType, Sensible, Stages, Working, UserOps, TokenOps, AllOps, Labels
    <3> QED BY <1>2, <2>3, <3>1 DEF Types, AskForAdmin, history, Sensible
  <2> QED BY <1>2, <2>1, <2>2, <2>3 DEF AskForAdmin
<1>3. CASE Answered(p)
  <2>1. PICK name \in Usernames : proc' = [proc EXCEPT ![p].stage = "changing", ![p].name = name]
    BY <1>3 DEF Answered
  <2>2. /\ proc[p].stage = "prompting" /\ proc[p] \in ProcessType /\ Sensible(proc[p])
        /\ proc \in [Processes -> ProcessType]
    BY <1>1, <1>3 DEF Answered, Types
  <2> DEFINE answered == [proc[p] EXCEPT !.stage = "changing", !.name = name]
  <2>3. answered \in ProcessType /\ Sensible(answered)
    BY <2>2 DEF ProcessType, Sensible, Stages, Working, Roles
  <2>4. proc' = [proc EXCEPT ![p] = answered]
    BY <2>1, <2>2
  <2> HIDE DEF answered
  <2>5. proc' \in [Processes -> ProcessType] /\ \A q \in Processes : Sensible(proc[q])'
    BY <2>2, <2>3, <2>4 DEF Types
  <2> QED BY <1>3, <2>5 DEF Answered, Types, history
<1>4. CASE Truncate(p)
  <2>1. proc' \in [Processes -> ProcessType] /\ \A q \in Processes : Sensible(proc[q])'
    BY <1>1, <1>4 DEF Truncate, Types, ProcessType, Sensible, Stages, Working
  <2>2. file' \in [Files -> FileType] /\ file["tokens"].entries' \subseteq OldTokenEntries
        /\ file["users"].entries' \subseteq UserEntries
    BY <1>4, FileOfType DEF Truncate, Types, FileType, Torn
  <2> QED BY <1>4, <2>1, <2>2 DEF Truncate, Types, history
<1>5. CASE Write(p)
  <2>1. proc[p].stage \in Working /\ Returns(p, proc[p].mem)
    BY <1>5 DEF Write, Working
  <2>2. /\ proc[p].op \in TokenOps => proc[p].mem \subseteq TokenEntries
        /\ proc[p].op \in UserOps => proc[p].mem \subseteq UserEntries
        /\ proc[p].op \in TokenOps \cup UserOps
    BY <1>1, <2>1 DEF Sensible, TokenOps, UserOps
  <2>3. TokenEntries \subseteq OldTokenEntries
    BY DEF TokenEntries, OldTokenEntries
  <2>4. file' \in [Files -> FileType] /\ file["tokens"].entries' \subseteq OldTokenEntries
        /\ file["users"].entries' \subseteq UserEntries
    <3>1. CASE proc[p].op \in TokenOps
      BY <1>5, <2>2, <2>3, <3>1 DEF Write, Types, FileType, Whole, FileOf, TokenOps, Files
    <3>2. CASE proc[p].op \in UserOps
      BY <1>5, <2>2, <3>2 DEF Write, Types, FileType, Whole, FileOf, UserOps, Files
    <3> QED BY <2>2, <3>1, <3>2
  <2> QED BY <1>5, <2>1, <2>2, <2>4, ReturnsType DEF Write, Types
<1> QED BY <1>2, <1>3, <1>4, <1>5 DEF Proceeds

LEMMA TypesKept ==
  ASSUME Types, [Next]_vars
  PROVE  Types'
<1>1. ASSUME NEW p \in Processes, Starts(p) \/ Proceeds(p) \/ Change(p) \/ Stop(p) \/ Crash(p)
      PROVE  Types'
  BY <1>1, StartsType, ProceedsType, ChangeType, FailsType DEF Stop, Crash
<1>2. CASE UNCHANGED vars
  BY <1>2 DEF Types, vars, history, Sensible
<1> QED BY <1>1, <1>2 DEF Next

LEMMA TypesAtFirst == Init => Types
<1> SUFFICES ASSUME Init PROVE Types
  OBVIOUS
<1>1. Old \in OldTokenEntries /\ [Old EXCEPT !.role = "viewer"] \in TokenEntries /\ Someone \in UserEntries
  <2>1. (CHOOSE n \in Names : TRUE) \in Names /\ (CHOOSE u \in Usernames : TRUE) \in Usernames
    BY NamesAssumption
  <2>2. 1 \in Tokens /\ "viewer" \in Roles /\ "admin" \in Roles
    BY BoundAssumption DEF Tokens, Roles
  <2> QED BY <2>1, <2>2 DEF Old, Someone, Entry, OldTokenEntries, TokenEntries, UserEntries
<1>2. Ended \in ProcessType /\ Sensible(Ended)
  BY NamesAssumption DEF Ended, Process, ProcessType, Sensible, Stages, Working, UserOps, TokenOps, AllOps
<1>3. proc \in [Processes -> ProcessType] /\ \A p \in Processes : Sensible(proc[p])
  BY <1>2 DEF Init
<1>4. file \in [Files -> FileType] /\ file["tokens"].entries \subseteq OldTokenEntries
      /\ file["users"].entries \subseteq UserEntries
  BY <1>1 DEF Init, Files, FileType, Missing, Whole
<1> QED BY <1>1, <1>3, <1>4, BoundAssumption DEF Init, Types

-----------------------------------------------------------------------------
(* One process at a time.                                                  *)

CareStep(p) ==
  \/ Starts(p) \/ Proceeds(p) \/ Stop(p) \/ Crash(p)
  \/ proc[p].op # None /\ OneAtATime(p) /\ Change(p)

LEMMA CareSteps == CareNext <=> \E p \in Processes : CareStep(p)
BY DEF CareNext, CareStep

LEMMA CareIsNext == CareNext => Next
BY DEF CareNext, Next

LEMMA OthersStay ==
  ASSUME Types, NEW p \in Processes, CareStep(p), NEW q \in Processes, q # p
  PROVE  proc'[q] = proc[q]
BY DEF Types, CareStep, Starts, TokenIssue, TokenRevoke, UserCreate, UserSetRole, UserDelete, Serve, Shell,
       Runs, Proceeds, AskForAdmin, Answered, Truncate, Write, Returns, Stop, Crash, Fails, Change

(* What a process goes on with after its operation holds a file only where *)
(* a server has revoked the token of its page and is to issue it anew.     *)
LEMMA AfterReturnHolds ==
  ASSUME Types, NEW p \in Processes, proc[p].stage \in Working, NEW STATE mem
  PROVE  LET q == AfterReturn(p, mem) IN
         /\ q.stage \notin Saving
         /\ q.op = "issue" => /\ proc[p].op = "revoke" /\ q.server /\ q.mem = mem
<1>1. Sensible(proc[p])
  BY DEF Types
<1>2. CASE ~proc[p].server
  BY <1>2, NamesAssumption DEF AfterReturn, Ended, Process, Saving, AllOps
<1>3. CASE proc[p].server /\ proc[p].op = "create"
  BY <1>3 DEF AfterReturn, AfterAccount, Process, Saving
<1>4. CASE proc[p].server /\ proc[p].op = "revoke"
  BY <1>4 DEF AfterReturn, Process, Saving
<1>5. CASE proc[p].server /\ proc[p].op = "issue"
  BY <1>5, NamesAssumption DEF AfterReturn, Process, Saving, AllOps
<1> QED BY <1>1, <1>2, <1>3, <1>4, <1>5, NamesAssumption DEF Sensible, Working, AllOps

LEMMA HoldingBegins ==
  ASSUME Types, NEW p \in Processes, CareStep(p), NEW f \in Files, Holds(p, f)'
  PROVE  \/ Holds(p, f)
         \/ OneAtATime(p) /\ FileOf(proc[p].op) = f
<1> DEFINE Mark(q) == /\ q.op # None /\ FileOf(q.op) = f
                      /\ \/ q.stage \in Saving
                         \/ q.server /\ q.op = "issue" /\ q.stage = "changing"
<1>1. Holds(p, f) <=> Mark(proc[p])
  BY DEF Holds, Saving
<1>2. Mark(proc'[p])
  BY DEF Holds, Saving
<1> HIDE DEF Mark
<1>3. ~Mark(Ended)
  BY DEF Mark, Ended, Process
<1>4. CASE Starts(p)
  BY <1>2, <1>4 DEF Mark, Types, Starts, TokenIssue, TokenRevoke, UserCreate, UserSetRole, UserDelete, Serve, Shell,
                    Runs, Process, Saving
<1>5. CASE Stop(p) \/ Crash(p)
  BY <1>2, <1>3, <1>5 DEF Types, Stop, Crash, Fails
<1>6. ASSUME proc[p].stage \in Working, NEW STATE mem, Returns(p, mem)
      PROVE  proc[p].op = "revoke" /\ f = "tokens"
  <2>1. proc'[p] = AfterReturn(p, mem)
    BY <1>6 DEF Returns, Types
  <2>2. proc'[p].op = "issue" /\ proc[p].op = "revoke"
    BY <1>2, <1>6, <2>1, AfterReturnHolds DEF Mark
  <2> QED BY <1>2, <2>2 DEF Mark, FileOf
<1>7. CASE Change(p) /\ OneAtATime(p)
  <2>1. proc[p].stage \in Working
    BY <1>7 DEF Change, Working
  <2>2. CASE Fails(p)
    BY <1>2, <1>3, <2>2 DEF Types, Fails
  <2>3. CASE Returns(p, Base(p))
    BY <1>6, <1>7, <2>1, <2>3 DEF FileOf
  <2>4. CASE proc' = [proc EXCEPT ![p].stage = "truncating", ![p].mem = Result(p)]
    <3>1. proc'[p].op = proc[p].op
      BY <2>4 DEF Types, ProcessType
    <3> QED BY <1>2, <1>7, <3>1 DEF Mark
  <2> QED BY <1>7, <2>2, <2>3, <2>4 DEF Change
<1>8. CASE Write(p)
  <2>1. proc[p].op = "revoke" /\ f = "tokens" /\ proc[p].stage \in Saving
    BY <1>6, <1>8 DEF Write, Working, Saving
  <2> QED BY <1>1, <2>1, NamesAssumption DEF Mark, FileOf, AllOps
<1>9. CASE AskForAdmin(p)
  <2>1. CASE Fails(p)
    BY <1>2, <1>3, <2>1 DEF Types, Fails
  <2>2. CASE proc' = [proc EXCEPT ![p].stage = "prompting", ![p].mem = Contents("users")]
    BY <1>2, <2>2 DEF Mark, Types, ProcessType, Saving
  <2>3. CASE proc' = [proc EXCEPT ![p] = AfterAccount(p)]
    BY <1>2, <1>3, <2>3 DEF Mark, Types, AfterAccount, Process, Saving
  <2> QED BY <1>9, <2>1, <2>2, <2>3 DEF AskForAdmin
<1>10. CASE Answered(p)
  <2>1. proc[p].op = "create"
    BY <1>10 DEF Types, Sensible, Answered
  <2>2. proc'[p].op = proc[p].op /\ proc'[p].stage = "changing"
    BY <1>10 DEF Answered, Types, ProcessType
  <2> QED BY <1>2, <2>1, <2>2 DEF Mark, Saving
<1>11. CASE Truncate(p)
  <2>1. proc[p].stage \in Saving /\ proc'[p].op = proc[p].op
    BY <1>11 DEF Truncate, Types, ProcessType, Saving
  <2> QED BY <1>1, <1>2, <2>1 DEF Mark
<1> QED BY <1>4, <1>5, <1>7, <1>8, <1>9, <1>10, <1>11 DEF CareStep, Proceeds

LEMMA OneHoldsKept ==
  ASSUME Types, OneHolds, NEW p \in Processes, CareStep(p)
  PROVE  OneHolds'
<1>1. ASSUME NEW q \in Processes, q # p, NEW f \in Files
      PROVE  Holds(q, f)' <=> Holds(q, f)
  BY <1>1, OthersStay DEF Holds
<1>2. ASSUME NEW q \in Processes, q # p, NEW f \in Files, Holds(p, f)', Holds(q, f)
      PROVE  FALSE
  <2>1. CASE Holds(p, f)
    BY <1>2, <2>1 DEF OneHolds
  <2>2. CASE OneAtATime(p) /\ FileOf(proc[p].op) = f
    BY <1>2, <2>2 DEF OneAtATime
  <2> QED BY <1>2, <2>1, <2>2, HoldingBegins
<1>3. ASSUME NEW q \in Processes, NEW r \in Processes, NEW f \in Files, Holds(q, f)', Holds(r, f)', q # r
      PROVE  FALSE
  BY <1>1, <1>2, <1>3 DEF OneHolds
<1> QED BY <1>3 DEF OneHolds

-----------------------------------------------------------------------------
(* The accounts.                                                           *)

(* A step that leaves the accounts and their file alone, and begins no     *)
(* save of them.                                                           *)
LEMMA UsersUndisturbed ==
  ASSUME Types, UsersAgree, NEW p \in Processes, CareStep(p),
         file'["users"] = file["users"], accounts' = accounts,
         (proc[p].op \in UserOps /\ proc[p].stage \in Saving)' =>
           /\ proc[p].op \in UserOps /\ proc[p].stage \in Saving
           /\ proc'[p] = [proc[p] EXCEPT !.stage = proc'[p].stage]
  PROVE  UsersAgree'
<1>1. AccountsAreKept'
  BY DEF UsersAgree, AccountsAreKept, Raises, Contents
<1>2. ASSUME NEW q \in Processes, (proc[q].op \in UserOps /\ proc[q].stage \in Saving)'
      PROVE  (proc[q].mem = AccountsAfter(q))'
  <2>1. CASE q # p
    BY <1>2, <2>1, OthersStay DEF UsersAgree, AccountsAfter, Without
  <2>2. CASE q = p
    <3>1. proc[p] \in ProcessType
      BY DEF Types
    <3>2. /\ proc'[p].op = proc[p].op /\ proc'[p].mem = proc[p].mem
          /\ proc'[p].name = proc[p].name /\ proc'[p].role = proc[p].role
      BY <1>2, <2>2, <3>1 DEF ProcessType
    <3> QED BY <1>2, <2>2, <3>2 DEF UsersAgree, AccountsAfter, Without
  <2> QED BY <2>1, <2>2
<1> QED BY <1>1, <1>2 DEF UsersAgree

(* What is to be saved is what the operation leaves, if the file agrees.   *)
LEMMA ResultOfUsers ==
  ASSUME Types, NEW p \in Processes, proc[p].stage = "changing", proc[p].op \in UserOps,
         Contents("users") = accounts, ~Refused(p)
  PROVE  Result(p) = AccountsAfter(p)
<1>1. Base(p) = accounts
  BY BaseType DEF Working
<1>2. CASE proc[p].op = "create"
  BY <1>1, <1>2 DEF Result, AccountsAfter, Refused, Named, Without
<1>3. CASE proc[p].op = "set_role"
  <2>1. Named(Base(p), proc[p].name) # {}
    BY <1>3 DEF Refused
  <2> QED BY <1>1, <1>3, <2>1 DEF Result, AccountsAfter
<1>4. CASE proc[p].op = "delete"
  BY <1>1, <1>4 DEF Result, AccountsAfter
<1> QED BY <1>2, <1>3, <1>4 DEF UserOps

LEMMA WriteUsers ==
  ASSUME Types, OneHolds, UsersAgree, NEW p \in Processes, Write(p), proc[p].op \in UserOps
  PROVE  UsersAgree'
<1>1. FileOf(proc[p].op) = "users" /\ proc[p].stage \in Saving /\ Sensible(proc[p])
  BY DEF FileOf, UserOps, Write, Saving, Types
<1>2. accounts' = AccountsAfter(p)
  BY <1>1 DEF Write, Returns, AccountsAfter, UserOps, Without
<1>3. file'["users"].entries = proc[p].mem /\ proc[p].mem \subseteq UserEntries
  BY <1>1 DEF Write, Whole, Types, Files, Sensible
<1>4. proc[p].mem = accounts'
  BY <1>1, <1>2 DEF UsersAgree
<1>5. Contents("users")' = proc[p].mem
  <2>1. \A e \in UserEntries : WithRole(e) = e
    BY NamesAssumption DEF WithRole, UserEntries
  <2> QED BY <1>3, <2>1 DEF Contents
<1>6. AccountsAreKept'
  BY <1>4, <1>5 DEF AccountsAreKept
<1>7. ASSUME NEW q \in Processes, (proc[q].op \in UserOps /\ proc[q].stage \in Saving)'
      PROVE  FALSE
  <2>1. CASE q = p
    <3>1. proc'[p] = AfterReturn(p, proc[p].mem)
      BY DEF Write, Returns, Types
    <3> QED BY <1>1, <1>7, <2>1, <3>1, AfterReturnHolds DEF Saving, Working
  <2>2. CASE q # p
    <3>1. proc'[q] = proc[q]
      BY <2>2, OthersStay DEF CareStep, Proceeds
    <3>2. Holds(q, "users") /\ Holds(p, "users")
      BY <1>1, <1>7, <3>1, NamesAssumption DEF Holds, FileOf, UserOps, Saving, AllOps
    <3> QED BY <2>2, <3>2 DEF OneHolds, Files
  <2> QED BY <2>1, <2>2
<1> QED BY <1>6, <1>7 DEF UsersAgree

LEMMA ChangeUsers ==
  ASSUME Types, UsersAgree, NEW p \in Processes, CareStep(p), Change(p), proc[p].op \in UserOps
  PROVE  UsersAgree'
<1>1. FileOf(proc[p].op) = "users" /\ proc[p].stage = "changing" /\ Sensible(proc[p])
  BY DEF FileOf, UserOps, Change, Types
<1>2. file' = file
  BY DEF Change
<1>3. CASE Fails(p)
  <2>1. proc'[p] = Ended /\ accounts' = accounts
    BY <1>3 DEF Fails, Types, history
  <2>2. proc'[p].stage \notin Saving
    BY <2>1 DEF Ended, Process, Saving
  <2> QED BY <1>2, <2>1, <2>2, UsersUndisturbed
<1>4. CASE ~Raises(FileOf(proc[p].op)) /\ NothingToSave(p) /\ Returns(p, Base(p))
  <2>1. proc[p].op = "delete" /\ Base(p) = accounts /\ Named(accounts, proc[p].name) = {}
    BY <1>1, <1>4, BaseType DEF NothingToSave, UserOps, UsersAgree, AccountsAreKept, Working
  <2>2. accounts' = accounts
    BY <1>4, <2>1 DEF Returns, Named, Without
  <2>3. proc'[p].stage \notin Saving
    BY <1>1, <1>4, AfterReturnHolds DEF Returns, Types, Working
  <2> QED BY <1>2, <2>2, <2>3, UsersUndisturbed
<1>5. CASE /\ ~Raises(FileOf(proc[p].op)) /\ ~Refused(p)
           /\ proc' = [proc EXCEPT ![p].stage = "truncating", ![p].mem = Result(p)]
           /\ UNCHANGED history
  <2>1. AccountsAreKept'
    BY <1>2, <1>5 DEF UsersAgree, AccountsAreKept, Raises, Contents, history
  <2>2. Result(p) = AccountsAfter(p)
    BY <1>1, <1>5, ResultOfUsers DEF UsersAgree, AccountsAreKept
  <2>3. /\ proc'[p].mem = Result(p) /\ proc'[p].op = proc[p].op
        /\ proc'[p].name = proc[p].name /\ proc'[p].role = proc[p].role
    BY <1>5 DEF Types, ProcessType
  <2>4. accounts' = accounts
    BY <1>5 DEF history
  <2>5. (proc[p].mem = AccountsAfter(p))'
    BY <2>4, <2>2, <2>3 DEF AccountsAfter, Without
  <2>6. ASSUME NEW q \in Processes, q # p, (proc[q].op \in UserOps /\ proc[q].stage \in Saving)'
        PROVE  (proc[q].mem = AccountsAfter(q))'
    BY <2>4, <2>6, OthersStay DEF UsersAgree, AccountsAfter, Without
  <2> QED BY <2>1, <2>5, <2>6 DEF UsersAgree
<1> QED BY <1>3, <1>4, <1>5 DEF Change

LEMMA UsersAgreeKept ==
  ASSUME Types, OneHolds, UsersAgree, NEW p \in Processes, CareStep(p)
  PROVE  UsersAgree'
<1>1. proc[p] \in ProcessType /\ Sensible(proc[p])
  BY DEF Types
<1>2. UserOps \cap TokenOps = {} /\ None \notin UserOps
  BY NamesAssumption DEF UserOps, TokenOps, AllOps
<1>3. CASE Starts(p)
  <2>1. proc'[p].stage \notin Saving /\ UNCHANGED <<file, accounts>>
    BY <1>3 DEF Types, Starts, TokenIssue, TokenRevoke, UserCreate, UserSetRole, UserDelete, Serve, Shell,
                Runs, Process, Saving, history
  <2> QED BY <2>1, UsersUndisturbed
<1>4. CASE Stop(p) \/ Crash(p)
  <2>1. proc'[p] = Ended /\ UNCHANGED <<file, accounts>>
    BY <1>4 DEF Stop, Crash, Fails, Types, history
  <2>2. proc'[p].stage \notin Saving
    BY <2>1 DEF Ended, Process, Saving
  <2> QED BY <2>1, <2>2, UsersUndisturbed
<1>5. CASE AskForAdmin(p)
  <2>1. proc'[p].stage \notin Saving
    BY <1>5 DEF AskForAdmin, Fails, AfterAccount, Ended, Process, Saving, Types, ProcessType
  <2>2. UNCHANGED <<file, accounts>>
    BY <1>5 DEF AskForAdmin, Fails, history
  <2> QED BY <2>1, <2>2, UsersUndisturbed
<1>6. CASE Answered(p)
  <2>1. proc'[p].stage \notin Saving /\ UNCHANGED <<file, accounts>>
    BY <1>6 DEF Answered, Saving, Types, ProcessType, history
  <2> QED BY <2>1, UsersUndisturbed
<1>7. CASE Truncate(p)
  <2>1. /\ proc'[p] = [proc[p] EXCEPT !.stage = "writing"] /\ proc[p].stage \in Saving
        /\ proc'[p].op = proc[p].op /\ proc'[p].stage = "writing" /\ accounts' = accounts
    BY <1>7 DEF Truncate, Types, ProcessType, Saving, history
  <2>2. CASE proc[p].op \in TokenOps
    <3>1. file'["users"] = file["users"]
      BY <1>7, <2>2 DEF Truncate, FileOf, TokenOps, Types, Files
    <3> QED BY <1>2, <2>1, <2>2, <3>1, UsersUndisturbed
  <2>3. CASE proc[p].op \in UserOps
    <3>1. Raises("users")'
      BY <1>7, <2>3 DEF Truncate, FileOf, UserOps, Types, Files, Raises, Torn
    <3>2. AccountsAreKept'
      BY <3>1 DEF AccountsAreKept
    <3>3. /\ proc'[p].mem = proc[p].mem /\ proc'[p].name = proc[p].name /\ proc'[p].role = proc[p].role
      BY <1>1, <2>1 DEF ProcessType
    <3>4. ASSUME NEW q \in Processes, (proc[q].op \in UserOps /\ proc[q].stage \in Saving)'
          PROVE  (proc[q].mem = AccountsAfter(q))'
      <4>1. CASE q = p
        <5>1. AccountsAfter(p)' = AccountsAfter(p)
          BY <2>1, <3>3 DEF AccountsAfter, Without
        <5>2. proc[p].mem = AccountsAfter(p)
          BY <2>1, <2>3 DEF UsersAgree
        <5> QED BY <3>3, <4>1, <5>1, <5>2
      <4>2. CASE q # p
        BY <2>1, <3>4, <4>2, OthersStay DEF UsersAgree, AccountsAfter, Without
      <4> QED BY <4>1, <4>2
    <3> QED BY <3>2, <3>4 DEF UsersAgree
  <2>4. proc[p].op \in TokenOps \cup UserOps
    BY <1>1, <2>1 DEF Sensible, TokenOps, UserOps, Working, Saving
  <2> QED BY <2>2, <2>3, <2>4
<1>8. CASE Write(p) /\ proc[p].op \in TokenOps
  <2>1. file'["users"] = file["users"]
    BY <1>8 DEF Write, FileOf, TokenOps, Types, Files
  <2>2. accounts' = accounts
    BY <1>8 DEF Write, Returns, TokenOps
  <2>3. proc'[p].stage \notin Saving
    BY <1>8, AfterReturnHolds DEF Write, Returns, Types, Working
  <2> QED BY <2>1, <2>2, <2>3, UsersUndisturbed
<1>9. CASE Write(p) /\ proc[p].op \in UserOps
  BY <1>9, WriteUsers
<1>10. CASE Change(p) /\ proc[p].op \in TokenOps
  <2>1. file' = file /\ accounts' = accounts
    BY <1>10 DEF Change, Fails, Returns, TokenOps, history
  <2>2. proc'[p].op \notin UserOps \/ proc'[p].stage \notin Saving
    <3>1. CASE Fails(p)
      BY <3>1 DEF Fails, Types, Ended, Process, Saving
    <3>2. CASE Returns(p, Base(p))
      BY <1>10, <3>2, AfterReturnHolds DEF Change, Returns, Types, Working
    <3>3. CASE proc' = [proc EXCEPT ![p].stage = "truncating", ![p].mem = Result(p)]
      <4>1. proc'[p].op = proc[p].op
        BY <3>3 DEF Types, ProcessType
      <4> QED BY <1>2, <1>10, <4>1
    <3> QED BY <1>10, <3>1, <3>2, <3>3 DEF Change
  <2> QED BY <2>1, <2>2, UsersUndisturbed
<1>11. CASE Change(p) /\ proc[p].op \in UserOps
  BY <1>11, ChangeUsers
<1>12. ASSUME Write(p) \/ Change(p)
       PROVE  proc[p].op \in TokenOps \cup UserOps
  BY <1>1, <1>12 DEF Sensible, TokenOps, UserOps, Working, Write, Change
<1> QED BY <1>3, <1>4, <1>5, <1>6, <1>7, <1>8, <1>9, <1>10, <1>11, <1>12 DEF CareStep, Proceeds

-----------------------------------------------------------------------------
(* The tokens.                                                             *)

LEMMA IdleHoldsNothing ==
  ASSUME NEW p \in Processes, ~Holds(p, "tokens")
  PROVE  TokensHeld(p)
BY NamesAssumption DEF Holds, TokensHeld, FileOf, Saving, AllOps

(* A step that leaves the tokens and their file alone. *)
LEMMA TokensUndisturbed ==
  ASSUME Types, TokensAgree, NEW p \in Processes, CareStep(p),
         file'["tokens"] = file["tokens"], handed' = handed, revoked' = revoked, issued' = issued,
         TokensHeld(p)'
  PROVE  TokensAgree'
<1>1. Valid' = Valid
  BY DEF Valid
<1>2. ~Raises("tokens")' => Contents("tokens")' = Valid'
  BY <1>1 DEF TokensAgree, Raises, Contents
<1>3. ASSUME NEW q \in Processes, q # p
      PROVE  TokensHeld(q)'
  <2>1. proc'[q] = proc[q] /\ TokensHeld(q)
    BY <1>3, OthersStay DEF TokensAgree
  <2> QED BY <1>1, <2>1 DEF TokensHeld, IsNew, Without
<1> QED BY <1>2, <1>3 DEF TokensAgree

LEMMA TokensUntouched ==
  ASSUME Types, TokensAgree, NEW p \in Processes, CareStep(p),
         file'["tokens"] = file["tokens"], handed' = handed, revoked' = revoked, issued' = issued,
         \/ proc'[p].stage \notin Saving /\ ~(proc'[p].server /\ proc'[p].op = "issue")
         \/ proc'[p].op \in UserOps
  PROVE  TokensAgree'
<1>1. TokensHeld(p)'
  BY DEF TokensHeld, UserOps
<1> QED BY <1>1, TokensUndisturbed

(* A revocation leaves the tokens under other names: no token has two.     *)
LEMMA RevocationLeaves ==
  ASSUME Types, TokensAgree, NEW p \in Processes, NEW STATE mem, Returns(p, mem), proc[p].op = "revoke"
  PROVE  /\ handed' = handed
         /\ Valid' = Without(Valid, proc[p].name)
         /\ \A t \in revoked' : t <= issued
<1>1. /\ handed' = handed
      /\ revoked' = revoked \cup {e.token : e \in Named(handed, proc[p].name)}
  BY DEF Returns
<1>2. ASSUME NEW e \in Valid, e.name # proc[p].name
      PROVE  e.token \notin revoked'
  BY <1>1, <1>2 DEF Valid, TokensAgree, Named, Without
<1>3. ASSUME NEW e \in handed, e.token \notin revoked'
      PROVE  e \in Valid /\ e.name # proc[p].name
  BY <1>1, <1>3 DEF Valid, Named, Without
<1>4. Valid' = Without(Valid, proc[p].name)
  BY <1>1, <1>2, <1>3 DEF Valid, Without
<1>5. \A t \in revoked' : t <= issued
  BY <1>1 DEF TokensAgree, Named, Without
<1> QED BY <1>1, <1>4, <1>5

(* What the server's next operation, which is to issue, starts from.       *)
LEMMA HeldOnReturn ==
  ASSUME Types, NEW p \in Processes, proc[p].stage \in Working, NEW STATE mem, Returns(p, mem),
         proc[p].op = "revoke" => mem = Valid'
  PROVE  TokensHeld(p)'
<1>1. proc'[p] = AfterReturn(p, mem)
  BY DEF Returns, Types
<1> QED BY <1>1, AfterReturnHolds DEF TokensHeld

LEMMA ChangeTokens ==
  ASSUME Types, TokensAgree, NEW p \in Processes, CareStep(p), Change(p), OneAtATime(p),
         proc[p].op \in TokenOps
  PROVE  TokensAgree'
<1>1. /\ FileOf(proc[p].op) = "tokens" /\ proc[p].stage = "changing"
      /\ Sensible(proc[p]) /\ file' = file
  BY DEF FileOf, TokenOps, Change, Types
<1>2. ASSUME NEW q \in Processes, q # p
      PROVE  TokensHeld(q)'
  <2>1. ~Holds(q, "tokens")
    BY <1>1, <1>2 DEF OneAtATime
  <2>2. proc'[q] = proc[q]
    BY <1>2, OthersStay
  <2>3. ~Holds(q, "tokens")'
    BY <2>1, <2>2 DEF Holds
  <2> QED BY <2>3, NamesAssumption DEF Holds, TokensHeld, FileOf, Saving, AllOps
<1>3. CASE Fails(p) /\ UNCHANGED issued
  <2>1. proc'[p] = Ended /\ handed' = handed /\ revoked' = revoked
    BY <1>3 DEF Fails, Types, history
  <2>2. proc'[p].stage \notin Saving /\ ~proc'[p].server
    BY <2>1 DEF Ended, Process, Saving
  <2> QED BY <1>1, <1>3, <2>1, <2>2, TokensUntouched
<1>4. CASE ~Raises("tokens") /\ NothingToSave(p) /\ Returns(p, Base(p)) /\ UNCHANGED issued
  <2>1. proc[p].op = "revoke" /\ Base(p) = Valid /\ Without(Valid, proc[p].name) = Valid
    BY <1>1, <1>4 DEF NothingToSave, TokenOps, TokensAgree, Base, Named, Without
  <2>2. handed' = handed /\ Valid' = Valid /\ \A t \in revoked' : t <= issued
    BY <1>4, <2>1, RevocationLeaves
  <2>3. TokensHeld(p)'
    BY <1>1, <1>4, <2>1, <2>2, HeldOnReturn DEF Working
  <2>4. Contents("tokens")' = Valid'
    BY <1>1, <1>4, <2>2 DEF Contents, TokensAgree
  <2> QED BY <1>2, <1>4, <2>2, <2>3, <2>4 DEF TokensAgree
<1>5. CASE /\ ~Raises("tokens")
           /\ issued' = IF proc[p].op = "issue" THEN issued + 1 ELSE issued
           /\ issued' <= MaxTokens
           /\ proc' = [proc EXCEPT ![p].stage = "truncating", ![p].mem = Result(p)]
           /\ UNCHANGED history
  <2>1. Base(p) = Valid
    BY <1>1, <1>5 DEF TokensAgree, TokensHeld, Base, TokenOps
  <2>2. /\ proc'[p].mem = Result(p) /\ proc'[p].op = proc[p].op /\ proc'[p].stage = "truncating"
        /\ proc'[p].name = proc[p].name /\ proc'[p].role = proc[p].role
    BY <1>5 DEF Types, ProcessType
  <2>3. handed' = handed /\ revoked' = revoked /\ Valid' = Valid
    BY <1>5 DEF history, Valid
  <2>4. CASE proc[p].op = "revoke"
    <3>1. Result(p) = Without(Valid, proc[p].name)
      BY <2>1, <2>4 DEF Result
    <3>2. TokensHeld(p)'
      BY <2>2, <2>3, <2>4, <3>1 DEF TokensHeld, Without
    <3> QED BY <1>1, <1>5, <2>3, <2>4, <3>2, TokensUndisturbed
  <2>5. CASE proc[p].op = "issue"
    <3>1. Result(p) = Valid \cup {Entry(proc[p].name, issued', proc[p].role)}
      BY <1>5, <2>1, <2>5 DEF Result
    <3>2. issued' = issued + 1 /\ issued' \in Tokens /\ issued \in 0 .. MaxTokens
      BY <1>5, <2>5, BoundAssumption DEF Types, Tokens
    <3>3. revoked \subseteq Tokens /\ \A e \in handed : e.token \in Tokens
      BY DEF Types, TokenEntries
    <3>4. IsNew(issued)'
      BY <2>3, <3>2, <3>3, BoundAssumption DEF IsNew, TokensAgree, Tokens
    <3>5. TokensHeld(p)'
      BY <2>2, <2>3, <2>5, <3>1, <3>2, <3>4 DEF TokensHeld
    <3>6. (\A e \in handed : e.token <= issued)' /\ (\A t \in revoked : t <= issued)'
      BY <2>3, <3>2, <3>3, BoundAssumption DEF TokensAgree, Tokens
    <3>7. ~Raises("tokens")' => Contents("tokens")' = Valid'
      BY <1>1, <2>3 DEF TokensAgree, Raises, Contents
    <3> QED BY <1>2, <2>3, <3>5, <3>6, <3>7 DEF TokensAgree
  <2> QED BY <2>4, <2>5 DEF TokenOps
<1> QED BY <1>1, <1>3, <1>4, <1>5 DEF Change

LEMMA WriteTokens ==
  ASSUME Types, OneHolds, TokensAgree, NEW p \in Processes, CareStep(p), Write(p), proc[p].op \in TokenOps
  PROVE  TokensAgree'
<1>1. /\ FileOf(proc[p].op) = "tokens" /\ proc[p].stage \in Saving /\ proc[p].stage \in Working
      /\ Sensible(proc[p]) /\ Returns(p, proc[p].mem) /\ issued' = issued
  BY DEF FileOf, TokenOps, Write, Saving, Working, Types
<1>2. ASSUME NEW q \in Processes, q # p
      PROVE  TokensHeld(q)'
  <2>1. Holds(p, "tokens")
    BY <1>1, NamesAssumption DEF Holds, Saving, TokenOps, AllOps
  <2>2. ~Holds(q, "tokens")
    BY <1>2, <2>1 DEF OneHolds, Files
  <2>3. proc'[q] = proc[q]
    BY <1>2, OthersStay
  <2>4. ~Holds(q, "tokens")'
    BY <2>2, <2>3 DEF Holds
  <2> QED BY <2>4, NamesAssumption DEF Holds, TokensHeld, FileOf, Saving, AllOps
<1>3. Contents("tokens")' = proc[p].mem
  <2>1. proc[p].mem \subseteq TokenEntries
    BY <1>1 DEF Sensible
  <2>2. \A e \in TokenEntries : WithRole(e) = e
    BY NamesAssumption DEF WithRole, TokenEntries
  <2>3. file'["tokens"].entries = proc[p].mem
    BY <1>1 DEF Write, Whole, Types, Files
  <2> QED BY <2>1, <2>2, <2>3 DEF Contents
<1>4. CASE proc[p].op = "revoke"
  <2>1. proc[p].mem = Without(Valid, proc[p].name)
    BY <1>1, <1>4 DEF TokensAgree, TokensHeld
  <2>2. /\ handed' = handed /\ Valid' = Without(Valid, proc[p].name)
        /\ \A t \in revoked' : t <= issued
    BY <1>1, <1>4, RevocationLeaves
  <2>3. TokensHeld(p)'
    BY <1>1, <2>1, <2>2, HeldOnReturn
  <2> QED BY <1>1, <1>2, <1>3, <2>1, <2>2, <2>3 DEF TokensAgree
<1>5. CASE proc[p].op = "issue"
  <2> DEFINE new == Entry(proc[p].name, issued, proc[p].role)
  <2>1. issued \in Tokens /\ IsNew(issued) /\ proc[p].mem = Valid \cup {new}
    BY <1>1, <1>5 DEF TokensAgree, TokensHeld
  <2>2. new.token = issued
    BY DEF Entry
  <2> HIDE DEF new
  <2>3. handed' = handed \cup {new} /\ revoked' = revoked
    BY <1>1, <1>5, <2>1, <2>2 DEF Returns, Valid, IsNew
  <2>4. Valid' = Valid \cup {new}
    BY <2>1, <2>2, <2>3 DEF Valid, IsNew
  <2>5. TokensHeld(p)'
    BY <1>1, <1>5, HeldOnReturn
  <2>6. (\A e \in handed : e.token <= issued)' /\ (\A t \in revoked : t <= issued)'
    BY <1>1, <2>1, <2>2, <2>3, BoundAssumption DEF TokensAgree, Tokens
  <2>7. (\A e, g \in handed : e.token = g.token => e = g)'
    BY <2>1, <2>2, <2>3 DEF TokensAgree, IsNew
  <2> QED BY <1>2, <1>3, <2>1, <2>4, <2>5, <2>6, <2>7 DEF TokensAgree
<1> QED BY <1>4, <1>5 DEF TokenOps

LEMMA TokensAgreeKept ==
  ASSUME Types, OneHolds, TokensAgree, NEW p \in Processes, CareStep(p)
  PROVE  TokensAgree'
<1>1. proc[p] \in ProcessType /\ Sensible(proc[p])
  BY DEF Types
<1>2. CASE Starts(p)
  <2>1. proc'[p].stage \notin Saving /\ (proc'[p].server => proc'[p].op # "issue")
    BY <1>2 DEF Types, Starts, TokenIssue, TokenRevoke, UserCreate, UserSetRole, UserDelete, Serve, Shell,
                Runs, Process, Saving
  <2>2. UNCHANGED <<file, handed, revoked, issued>>
    BY <1>2 DEF Starts, TokenIssue, TokenRevoke, UserCreate, UserSetRole, UserDelete, Serve, Shell, Runs, history
  <2> QED BY <2>1, <2>2, TokensUntouched
<1>3. CASE Stop(p) \/ Crash(p)
  <2>1. proc'[p] = Ended /\ UNCHANGED <<file, handed, revoked, issued>>
    BY <1>3 DEF Stop, Crash, Fails, Types, history
  <2>2. proc'[p].stage \notin Saving /\ ~proc'[p].server
    BY <2>1 DEF Ended, Process, Saving
  <2> QED BY <2>1, <2>2, TokensUntouched
<1>4. CASE AskForAdmin(p)
  <2>1. UNCHANGED <<file, handed, revoked, issued>>
    BY <1>4 DEF AskForAdmin, Fails, history
  <2>2. proc[p].op = "create"
    BY <1>1, <1>4 DEF AskForAdmin, Sensible
  <2>3. proc'[p].stage \notin Saving /\ proc'[p].op # "issue"
    BY <1>4, <2>2, NamesAssumption
    DEF AskForAdmin, Fails, AfterAccount, Ended, Process, Saving, Types, ProcessType, AllOps
  <2> QED BY <2>1, <2>3, TokensUntouched
<1>5. CASE Answered(p)
  <2>1. proc[p].op = "create" /\ UNCHANGED <<file, handed, revoked, issued>>
    BY <1>1, <1>5 DEF Answered, Sensible, history
  <2>2. proc'[p].op = proc[p].op
    BY <1>5 DEF Answered, Types, ProcessType
  <2> QED BY <2>1, <2>2, TokensUntouched DEF UserOps
<1>6. CASE Truncate(p)
  <2>1. /\ proc[p].stage \in Saving /\ UNCHANGED <<handed, revoked, issued>>
        /\ proc'[p].op = proc[p].op /\ proc'[p].stage = "writing" /\ proc'[p].mem = proc[p].mem
        /\ proc'[p].name = proc[p].name /\ proc'[p].role = proc[p].role
    BY <1>6 DEF Truncate, Types, ProcessType, Saving, history
  <2>2. CASE proc[p].op \in UserOps
    <3>1. file'["tokens"] = file["tokens"]
      BY <1>6, <2>2 DEF Truncate, FileOf, UserOps, Types, Files
    <3> QED BY <2>1, <2>2, <3>1, TokensUntouched
  <2>3. CASE proc[p].op \in TokenOps
    <3>1. Raises("tokens")'
      BY <1>6, <2>3 DEF Truncate, FileOf, TokenOps, Types, Files, Raises, Torn
    <3>2. Valid' = Valid
      BY <2>1 DEF Valid
    <3>3. TokensHeld(p)'
      BY <2>1, <3>2 DEF TokensAgree, TokensHeld, IsNew, Without
    <3>4. ASSUME NEW q \in Processes, q # p
          PROVE  TokensHeld(q)'
      <4>1. proc'[q] = proc[q] /\ TokensHeld(q)
        BY <3>4, OthersStay DEF TokensAgree
      <4> QED BY <2>1, <3>2, <4>1 DEF TokensHeld, IsNew, Without
    <3> QED BY <2>1, <3>1, <3>3, <3>4 DEF TokensAgree
  <2> QED BY <1>1, <2>1, <2>2, <2>3 DEF Sensible, TokenOps, UserOps, Working, Saving
<1>7. CASE (Write(p) \/ Change(p)) /\ proc[p].op \in UserOps
  <2>1. proc[p].stage \in Working /\ proc[p].op \notin TokenOps
    BY <1>7 DEF Write, Change, Working, UserOps, TokenOps
  <2>2. file'["tokens"] = file["tokens"]
    BY <1>7 DEF Write, Change, FileOf, UserOps, Types, Files
  <2>3. ASSUME NEW STATE mem, Returns(p, mem)
        PROVE  /\ handed' = handed /\ revoked' = revoked
               /\ proc'[p].stage \notin Saving /\ proc'[p].op # "issue"
    <3>1. proc'[p] = AfterReturn(p, mem)
      BY <2>3 DEF Returns, Types
    <3> QED BY <2>1, <2>3, <3>1, AfterReturnHolds DEF Returns, TokenOps
  <2>4. CASE Write(p)
    BY <1>7, <2>2, <2>3, <2>4, TokensUntouched DEF Write
  <2>5. CASE Fails(p) /\ UNCHANGED issued
    <3>1. proc'[p] = Ended /\ handed' = handed /\ revoked' = revoked
      BY <2>5 DEF Fails, Types, history
    <3>2. proc'[p].stage \notin Saving /\ ~proc'[p].server
      BY <3>1 DEF Ended, Process, Saving
    <3> QED BY <2>2, <2>5, <3>1, <3>2, TokensUntouched
  <2>6. CASE Returns(p, Base(p)) /\ UNCHANGED issued
    BY <2>2, <2>3, <2>6, TokensUntouched
  <2>7. CASE /\ issued' = IF proc[p].op = "issue" THEN issued + 1 ELSE issued
             /\ proc' = [proc EXCEPT ![p].stage = "truncating", ![p].mem = Result(p)]
             /\ UNCHANGED history
    <3>1. handed' = handed /\ revoked' = revoked /\ issued' = issued
      BY <2>1, <2>7 DEF history, TokenOps
    <3>2. proc'[p].op = proc[p].op
      BY <2>7 DEF Types, ProcessType
    <3> QED BY <1>7, <2>2, <3>1, <3>2, TokensUntouched
  <2> QED BY <1>7, <2>4, <2>5, <2>6, <2>7 DEF Change
<1>8. CASE Change(p) /\ OneAtATime(p) /\ proc[p].op \in TokenOps
  BY <1>8, ChangeTokens
<1>9. CASE Write(p) /\ proc[p].op \in TokenOps
  BY <1>9, WriteTokens
<1>10. ASSUME Write(p) \/ Change(p)
       PROVE  proc[p].op \in TokenOps \cup UserOps
  BY <1>1, <1>10 DEF Sensible, TokenOps, UserOps, Working, Write, Change
<1> QED BY <1>2, <1>3, <1>4, <1>5, <1>6, <1>7, <1>8, <1>9, <1>10 DEF CareStep, Proceeds

-----------------------------------------------------------------------------
(* The theorems.                                                           *)

LEMMA IInvAtFirst == Init => IInv
<1> SUFFICES ASSUME Init PROVE IInv
  OBVIOUS
<1>1. Types
  BY TypesAtFirst
<1>2. \A p \in Processes : proc[p].op = None /\ proc[p].stage = "ended"
  BY DEF Init, Ended, Process
<1>3. OneHolds
  BY <1>2 DEF OneHolds, Holds
<1>4. UsersAgree
  <2>1. Contents("users") = file["users"].entries
    BY <1>1, ContentsType
  <2>2. AccountsAreKept
    BY <2>1 DEF AccountsAreKept, Init, Files, Missing, Whole
  <2> QED BY <1>2, <2>2 DEF UsersAgree, Saving
<1>5. TokensAgree
  <2> DEFINE old == [Old EXCEPT !.role = "viewer"]
  <2>1. WithRole(Old) = old /\ old.token = 1
    BY DEF WithRole, Old, Entry
  <2>2. \/ handed = {}
        \/ issued = 1 /\ handed = {old}
    BY DEF Init
  <2> HIDE DEF old
  <2>3. Contents("tokens") = handed
    BY <2>1 DEF Init, Contents, Files, Missing, Whole, old
  <2>4. revoked = {} /\ Valid = handed
    BY DEF Valid, Init
  <2>5. (\A e \in handed : e.token <= issued) /\ (\A e, g \in handed : e = g)
    BY <2>1, <2>2
  <2> QED BY <1>2, <2>3, <2>4, <2>5 DEF TokensAgree, TokensHeld, Saving
<1> QED BY <1>1, <1>3, <1>4, <1>5 DEF IInv

LEMMA IInvKept == IInv /\ [CareNext]_vars => IInv'
<1> SUFFICES ASSUME IInv, [CareNext]_vars PROVE IInv'
  OBVIOUS
<1>1. Types'
  BY TypesKept, CareIsNext DEF IInv
<1>2. ASSUME NEW p \in Processes, CareStep(p)
      PROVE  OneHolds' /\ UsersAgree' /\ TokensAgree'
  BY <1>2, OneHoldsKept, UsersAgreeKept, TokensAgreeKept DEF IInv
<1>3. CASE UNCHANGED vars
  BY <1>3 DEF IInv, Types, OneHolds, Holds, UsersAgree, AccountsAreKept, AccountsAfter, TokensAgree, TokensHeld,
              Valid, IsNew, Without, Raises, Contents, vars, history
<1> QED BY <1>1, <1>2, <1>3, CareSteps DEF IInv

(* Whatever processes run and die, the two files, the processes and what   *)
(* was handed out have their types: no entry in memory lacks a role.       *)
THEOREM TypeCorrect == Spec => []TypeOK
<1>1. Init => Types
  BY TypesAtFirst
<1>2. Types /\ [Next]_vars => Types'
  BY TypesKept
<1>3. Types => TypeOK
  <2>1. ASSUME Types, NEW p \in Processes
        PROVE  proc[p].mem \subseteq TokenEntries \/ proc[p].mem \subseteq UserEntries
    BY <2>1 DEF Types, ProcessType, Sensible, TokenOps, UserOps, AllOps
  <2>2. ASSUME Types, NEW p \in Processes
        PROVE  proc[p].stage \in Stages
    BY <2>2 DEF Types, ProcessType
  <2> QED BY <2>1, <2>2 DEF Types, TypeOK, FileType, Files, Stages, Working
<1> QED BY <1>1, <1>2, <1>3, PTL DEF Spec

LEMMA Invariant == CareSpec => []IInv
<1>1. Init => IInv
  BY IInvAtFirst
<1>2. IInv /\ [CareNext]_vars => IInv'
  BY IInvKept
<1> QED BY <1>1, <1>2, PTL DEF CareSpec

(* No account is undone (UserStore loads again before each change): what   *)
(* the file holds is what the operations that returned left.               *)
THEOREM AccountsKept == CareSpec => []AccountsAreKept
<1>1. IInv => AccountsAreKept
  BY DEF IInv, UsersAgree
<1> QED BY <1>1, Invariant, PTL

(* What a running server says to a token follows what the commands and the *)
(* starts of servers last said of it (TokenStore.resolve loads the file).  *)
THEOREM AnswersCorrect == CareSpec => []AnswersAreRight
<1>1. ASSUME IInv, NEW p \in Processes, NEW token \in Tokens \cup {Configured}, NEW permission \in Permissions,
             ~(Raises("tokens") /\ token # Configured)
      PROVE  Answer(p, token, permission) = Due(token, permission)
  <2>1. CASE token = Configured
    BY <2>1 DEF Answer, Due, Says, RoleHas, RolePermissions
  <2>2. CASE token # Configured
    <3>1. ~Raises("tokens") /\ Current(p) = Valid
      BY <1>1, <2>2 DEF Current, IInv, TokensAgree
    <3>2. Live(token) = {e \in Valid : e.token = token}
      BY DEF Live, Valid
    <3>3. CASE \E e \in Valid : e.token = token
      <4>1. PICK e \in Valid : e.token = token
        BY <3>3
      <4>2. \A g \in Valid : g.token = token => g = e
        BY <1>1, <4>1 DEF IInv, TokensAgree, Valid
      <4>3. (CHOOSE g \in Valid : g.token = token) = e
        BY <4>1, <4>2
      <4>4. Live(token) = {e}
        BY <3>2, <4>1, <4>2
      <4>5. Answer(p, token, permission) = Says(e.role, permission)
        BY <2>2, <3>1, <3>3, <4>3 DEF Answer
      <4> QED BY <2>2, <4>4, <4>5 DEF Due, Says
    <3>4. CASE ~\E e \in Valid : e.token = token
      BY <2>2, <3>1, <3>2, <3>4 DEF Answer, Due
    <3> QED BY <3>3, <3>4
  <2> QED BY <2>1, <2>2
<1>2. IInv => AnswersAreRight
  BY <1>1 DEF AnswersAreRight
<1> QED BY <1>2, Invariant, PTL

(* A server or a shell offers to make the first administrator only where   *)
(* there is no account (_ensure_admin_bootstrapped).                       *)
THEOREM FirstOnly == CareSpec => OnlyTheFirstIsAsked
<1> DEFINE Asks == \A p \in Processes :
                     proc'[p].stage = "prompting" /\ proc[p].stage # "prompting" => accounts = {}
<1>1. ASSUME IInv, CareNext
      PROVE  Asks
  <2>1. SUFFICES ASSUME NEW q \in Processes, proc'[q].stage = "prompting", proc[q].stage # "prompting"
                 PROVE  accounts = {}
    OBVIOUS
  <2>2. PICK p \in Processes : CareStep(p)
    BY <1>1, CareSteps
  <2>3. Types /\ AccountsAreKept
    BY <1>1 DEF IInv, UsersAgree
  <2>4. p = q
    BY <2>1, <2>2, <2>3, OthersStay
  <2>5. proc[q] \in ProcessType /\ Ended.stage = "ended" /\ AfterAccount(q).stage # "prompting"
    BY <2>3 DEF Types, Ended, AfterAccount, Process
  <2>6. ASSUME NEW STATE mem, Returns(q, mem), proc[q].stage \in Working
        PROVE  FALSE
    <3>1. proc'[q] = AfterReturn(q, mem)
      BY <2>3, <2>6 DEF Returns, Types
    <3>2. AfterReturn(q, mem).stage # "prompting"
      BY <2>3, <2>5, <2>6, NamesAssumption DEF AfterReturn, Process, Types, Sensible, Working, AllOps
    <3> QED BY <2>1, <3>1, <3>2
  <2>7. ~Fails(q)
    BY <2>1, <2>3, <2>5 DEF Fails, Types
  <2>8. CASE AskForAdmin(q)
    <3>1. ~Raises("users") /\ Contents("users") = {}
      BY <2>1, <2>3, <2>5, <2>7, <2>8 DEF AskForAdmin, Types
    <3> QED BY <2>3, <3>1 DEF AccountsAreKept
  <2>9. ~Starts(q)
    BY <2>1, <2>3 DEF Types, Starts, TokenIssue, TokenRevoke, UserCreate, UserSetRole, UserDelete, Serve, Shell,
                      Runs, Process
  <2>10. ~Answered(q) /\ ~Truncate(q)
    BY <2>1, <2>3 DEF Types, ProcessType, Answered, Truncate
  <2>11. ~Write(q)
    BY <2>6 DEF Write, Working
  <2>12. ~Change(q)
    <3>1. proc' # [proc EXCEPT ![q].stage = "truncating", ![q].mem = Result(q)]
      BY <2>1, <2>3 DEF Types, ProcessType
    <3> QED BY <2>6, <2>7, <3>1 DEF Change, Working
  <2> QED BY <2>2, <2>4, <2>7, <2>8, <2>9, <2>10, <2>11, <2>12 DEF CareStep, Proceeds, Stop, Crash
<1>2. IInv /\ [CareNext]_vars => [Asks]_vars
  BY <1>1
<1> QED BY <1>2, Invariant, PTL DEF CareSpec, OnlyTheFirstIsAsked

=============================================================================
