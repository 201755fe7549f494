------------------------------ MODULE Accounts ------------------------------
(***************************************************************************)
(* Bearer tokens and user accounts.  Both are a JSON file in the home      *)
(* directory that a process loads, changes in memory and writes back       *)
(* whole: the commands "mdc token" and "mdc user", and "mdc serve" and the *)
(* shell while they start.  A server that runs re-reads the token file on  *)
(* every request.  There is no lock between processes, and a file is       *)
(* truncated before it is written.                                         *)
(*                                                                         *)
(* A token is a number, which stands for its text and for its hash; an     *)
(* account's password is left out.  Definitions marked "Fault" are the     *)
(* bugs the properties are tried against; nothing in the specification     *)
(* uses them.                                                              *)
(***************************************************************************)
EXTENDS Integers

CONSTANTS
  Processes,
  Names,          \* labels of tokens given on the command line
  Usernames,
  Granted,        \* bound: the roles given on the command line
  MaxTokens,      \* bound: tokens ever made
  MaxCommands,    \* bound: processes ever started
  MaxCrashes,     \* bound: processes that die while they start or change
  None            \* absent

LocalUi == "local-browser-ui"

Roles == {"viewer", "editor", "db_admin", "admin"}

Permissions ==
  {"read", "write", "create_table", "create_database", "manage_users", "drop"}

RolePermissions ==
  [viewer   |-> {"read"},
   editor   |-> {"read", "write", "create_table"},
   db_admin |-> {"read", "write", "create_table", "create_database", "drop"},
   admin    |-> Permissions]

RoleHas(role, permission) == permission \in RolePermissions[role]

(* A token is a number; Configured is the one MDC_API_TOKENS lists. *)
Tokens == 1 .. MaxTokens
Configured == 0
Files == {"tokens", "users"}

Missing == [is |-> "missing", entries |-> {}]
Torn == [is |-> "torn", entries |-> {}]     \* truncated and not written: not JSON
Whole(entries) == [is |-> "whole", entries |-> entries]

(* An entry of either file; one of tokens.json from before roles has none. *)
Entry(name, token, role) == [role |-> role, name |-> name, token |-> token]
TokenEntries == [name : Names \cup {LocalUi}, token : Tokens, role : Roles]
OldTokenEntries == [name : Names \cup {LocalUi}, token : Tokens, role : Roles \cup {None}]
UserEntries == [name : Usernames, token : {None}, role : Roles]
AllOps == {"issue", "revoke", "create", "set_role", "delete"}

ASSUME BoundAssumption == MaxTokens \in Nat \ {0} /\ MaxCommands \in Nat /\ MaxCrashes \in Nat
ASSUME RolesAssumption == Granted \subseteq Roles
ASSUME NamesAssumption ==
  /\ LocalUi \notin Names /\ None \notin Tokens /\ None \notin Roles /\ None \notin AllOps
  /\ Names # {} /\ Usernames # {}

VARIABLES
  file,       \* each file's entries, or Missing or Torn
  proc,       \* each process: the operation it is at and what it loaded
  issued,     \* tokens made so far
  commands, crashes,
  handed,     \* history: entries of the tokens that were handed out
  revoked,    \* history: tokens whose revocation returned
  accounts    \* history: the accounts as the operations that returned left them

history == <<handed, revoked, accounts>>
vars == <<file, proc, issued, commands, crashes, history>>

Process(server, op, stage, name, role) ==
  [role |-> role, name |-> name, server |-> server, op |-> op, stage |-> stage, mem |-> {}]

Ended == Process(FALSE, None, "ended", None, None)

Old == Entry(CHOOSE n \in Names : TRUE, 1, None)
Someone == Entry(CHOOSE u \in Usernames : TRUE, None, "admin")

(* A first start, or one over files an older version left. *)
Init ==
  /\ \/ /\ file = [f \in Files |-> Missing]
        /\ issued = 0 /\ handed = {} /\ accounts = {}
     \/ /\ file = [f \in Files |-> Whole(IF f = "tokens" THEN {Old} ELSE {Someone})]
        /\ issued = 1 /\ handed = {[Old EXCEPT !.role = "viewer"]} /\ accounts = {Someone}
  /\ proc = [p \in Processes |-> Ended]
  /\ commands = 0 /\ crashes = 0 /\ revoked = {}

-----------------------------------------------------------------------------
(* The two stores.                                                         *)

(* Fault: an entry without a role is taken as it is. *)
AsWritten(e) == e
(* TokenStore._load: an entry without a role is a viewer's. *)
WithRole(e) == IF e.role = None THEN [e EXCEPT !.role = "viewer"] ELSE e

Contents(f) == {WithRole(e) : e \in file[f].entries}

(* Fault: a file that is not JSON is read as an empty one. *)
NeverRaises(f) == FALSE
Raises(f) == file[f].is = "torn"

FileOf(op) == IF op \in {"issue", "revoke"} THEN "tokens" ELSE "users"

Without(entries, name) == {e \in entries : e.name # name}
Named(entries, name) == entries \ Without(entries, name)

(* The entries an operation changes.  The operations on accounts load them *)
(* again; those on tokens change what the store loaded when it was made,   *)
(* which for a command is just now.                                        *)

(* Fault: an account is made from what the prompt's store loaded. *)
BaseOfTheStore(p) ==
  IF proc[p].server /\ proc[p].op \in {"issue", "create"}
  THEN proc[p].mem
  ELSE Contents(FileOf(proc[p].op))
Base(p) ==
  IF proc[p].server /\ proc[p].op = "issue"
  THEN proc[p].mem
  ELSE Contents(FileOf(proc[p].op))

Result(p) ==
  LET name == proc[p].name
      role == proc[p].role
  IN CASE proc[p].op = "issue" -> Base(p) \cup {Entry(name, issued + 1, role)}
       [] proc[p].op = "create" -> Base(p) \cup {Entry(name, None, role)}
       [] proc[p].op \in {"revoke", "delete"} -> Without(Base(p), name)
       [] proc[p].op = "set_role" ->
            Without(Base(p), name) \cup {Entry(name, None, role) : e \in Named(Base(p), name)}

(* UserAlreadyExistsError, UserNotFoundError. *)
Refused(p) ==
  \/ proc[p].op = "create" /\ Named(Base(p), proc[p].name) # {}
  \/ proc[p].op = "set_role" /\ Named(Base(p), proc[p].name) = {}

(* Nothing to remove, and nothing is saved. *)
NothingToSave(p) ==
  proc[p].op \in {"revoke", "delete"} /\ Named(Base(p), proc[p].name) = {}

-----------------------------------------------------------------------------
(* Processes.                                                              *)

(* A command is over when its operation returns.  A starting server makes  *)
(* the first account if it asked for one, then revokes the token of the    *)
(* page and issues it anew.                                                *)

AfterAccount(p) ==
  IF proc[p].server THEN Process(TRUE, "revoke", "changing", LocalUi, None) ELSE Ended
AfterReturn(p, mem) ==
  IF ~proc[p].server THEN Ended
  ELSE CASE proc[p].op = "create" -> AfterAccount(p)
         [] proc[p].op = "revoke" ->
              [Process(TRUE, "issue", "changing", LocalUi, "admin") EXCEPT !.mem = mem]
         [] proc[p].op = "issue" ->
              [Process(TRUE, None, "serving", None, None) EXCEPT !.mem = mem]

Returns(p, mem) ==
  /\ proc' = [proc EXCEPT ![p] = AfterReturn(p, mem)]
  /\ handed' = handed \cup (IF proc[p].op = "issue" THEN {e \in mem : e.token = issued} ELSE {})
  /\ revoked' =
       IF proc[p].op = "revoke"
       THEN revoked \cup {e.token : e \in Named(handed, proc[p].name)}
       ELSE revoked
  /\ accounts' =
       LET others == Without(accounts, proc[p].name)
       IN CASE proc[p].op \in {"create", "set_role"} ->
                 others \cup {Entry(proc[p].name, None, proc[p].role)}
            [] proc[p].op = "delete" -> others
            [] OTHER -> accounts

Fails(p) == proc' = [proc EXCEPT ![p] = Ended] /\ UNCHANGED history

Runs(p, process) ==
  /\ proc[p].stage = "ended"
  /\ commands < MaxCommands
  /\ commands' = commands + 1
  /\ proc' = [proc EXCEPT ![p] = process]
  /\ UNCHANGED <<file, issued, crashes, history>>

TokenIssue(p) ==
  \E name \in Names \cup {LocalUi}, role \in Granted :
    Runs(p, Process(FALSE, "issue", "changing", name, role))
TokenRevoke(p) ==
  \E name \in Names \cup {LocalUi} : Runs(p, Process(FALSE, "revoke", "changing", name, None))
UserCreate(p) ==
  \E name \in Usernames, role \in Granted :
    Runs(p, Process(FALSE, "create", "changing", name, role))
UserSetRole(p) ==
  \E name \in Usernames, role \in Granted :
    Runs(p, Process(FALSE, "set_role", "changing", name, role))
UserDelete(p) ==
  \E name \in Usernames : Runs(p, Process(FALSE, "delete", "changing", name, None))
(* "mdc serve", and the shell, which has no business with tokens. *)
Serve(p) == Runs(p, Process(TRUE, "create", "asking", None, "admin"))
Shell(p) == Runs(p, Process(FALSE, "create", "asking", None, "admin"))

(* _ensure_admin_bootstrapped: the terminal is asked for a first account,  *)
(* if there is a terminal.                                                 *)
AskForAdmin(p) ==
  /\ proc[p].stage = "asking"
  /\ IF Raises("users")
     THEN Fails(p)
     ELSE /\ \/ /\ Contents("users") = {}
                /\ proc' = [proc EXCEPT ![p].stage = "prompting", ![p].mem = Contents("users")]
             \/ proc' = [proc EXCEPT ![p] = AfterAccount(p)]
          /\ UNCHANGED history
  /\ UNCHANGED <<file, issued, commands, crashes>>

Answered(p) ==
  /\ proc[p].stage = "prompting"
  /\ \E name \in Usernames :
       proc' = [proc EXCEPT ![p].stage = "changing", ![p].name = name]
  /\ UNCHANGED <<file, issued, commands, crashes, history>>

(* The file is loaded and changed in memory. *)
Change(p) ==
  /\ proc[p].stage = "changing"
  /\ \/ /\ Raises(FileOf(proc[p].op)) \/ Refused(p)
        /\ Fails(p)
        /\ UNCHANGED issued
     \/ /\ ~Raises(FileOf(proc[p].op))
        /\ NothingToSave(p)
        /\ Returns(p, Base(p))
        /\ UNCHANGED issued
     \/ /\ ~Raises(FileOf(proc[p].op))
        /\ ~Refused(p)
        /\ ~NothingToSave(p)
        /\ issued' = IF proc[p].op = "issue" THEN issued + 1 ELSE issued
        /\ issued' <= MaxTokens
        /\ proc' = [proc EXCEPT ![p].stage = "truncating", ![p].mem = Result(p)]
        /\ UNCHANGED history
  /\ UNCHANGED <<file, commands, crashes>>

(* _save: write_text opens the file, which truncates it, and writes. *)
Truncate(p) ==
  /\ proc[p].stage = "truncating"
  /\ file' = [file EXCEPT ![FileOf(proc[p].op)] = Torn]
  /\ proc' = [proc EXCEPT ![p].stage = "writing"]
  /\ UNCHANGED <<issued, commands, crashes, history>>

Write(p) ==
  /\ proc[p].stage = "writing"
  /\ file' = [file EXCEPT ![FileOf(proc[p].op)] = Whole(proc[p].mem)]
  /\ Returns(p, proc[p].mem)
  /\ UNCHANGED <<issued, commands, crashes>>

Stop(p) ==
  /\ proc[p].stage = "serving"
  /\ Fails(p)
  /\ UNCHANGED <<file, issued, commands, crashes>>

Crash(p) ==
  /\ proc[p].stage \notin {"ended", "serving"}
  /\ crashes < MaxCrashes
  /\ crashes' = crashes + 1
  /\ Fails(p)
  /\ UNCHANGED <<file, issued, commands>>

-----------------------------------------------------------------------------
(* A request to a server that runs.                                        *)

(* Fault: the entries of the server's start. *)
LoadedAtStart(p) == proc[p].mem
(* TokenStore.resolve loads the file. *)
Current(p) == Contents("tokens")

(* _require over _authenticate. *)
Says(role, permission) == IF RoleHas(role, permission) THEN "ok" ELSE "forbidden"

Answer(p, token, permission) ==
  IF token = Configured THEN Says("admin", permission)
  ELSE IF Raises("tokens") THEN "error"
  ELSE IF \E e \in Current(p) : e.token = token
  THEN Says((CHOOSE e \in Current(p) : e.token = token).role, permission)
  ELSE "unauthorized"

-----------------------------------------------------------------------------
Starts(p) ==
  \/ TokenIssue(p) \/ TokenRevoke(p)
  \/ UserCreate(p) \/ UserSetRole(p) \/ UserDelete(p)
  \/ Serve(p) \/ Shell(p)
Proceeds(p) == AskForAdmin(p) \/ Answered(p) \/ Truncate(p) \/ Write(p)
Next == \E p \in Processes : Starts(p) \/ Proceeds(p) \/ Change(p) \/ Stop(p) \/ Crash(p)
Spec == Init /\ [][Next]_vars

(* Between the load and the end of the save. *)
Holds(p, f) ==
  /\ proc[p].op # None /\ FileOf(proc[p].op) = f
  /\ \/ proc[p].stage \in {"truncating", "writing"}
     \/ proc[p].server /\ proc[p].op = "issue" /\ proc[p].stage = "changing"

(* No two processes are between a load and a save of one file.  A server   *)
(* may wait at its prompt for as long as it likes.                         *)
OneAtATime(p) == \A q \in Processes \ {p} : ~Holds(q, FileOf(proc[p].op))
CareNext ==
  \E p \in Processes :
    \/ Starts(p) \/ Proceeds(p) \/ Stop(p) \/ Crash(p)
    \/ proc[p].op # None /\ OneAtATime(p) /\ Change(p)
CareSpec == Init /\ [][CareNext]_vars

-----------------------------------------------------------------------------
(* Every variable has its type; an entry in memory always has a role.      *)
TypeOK ==
  /\ \A f \in Files : /\ file[f].is \in {"missing", "torn", "whole"}
                      /\ file[f].entries \subseteq (IF f = "tokens" THEN OldTokenEntries ELSE UserEntries)
  /\ \A p \in Processes :
       /\ proc[p].stage \in {"ended", "asking", "prompting", "changing", "truncating",
                             "writing", "serving"}
       /\ proc[p].mem \subseteq TokenEntries \/ proc[p].mem \subseteq UserEntries
  /\ issued \in 0 .. MaxTokens
  /\ handed \subseteq TokenEntries
  /\ revoked \subseteq Tokens
  /\ accounts \subseteq UserEntries

(* What a server that runs says to a token follows, with no restart, what  *)
(* the commands and the starts of servers last said of it: it has the role *)
(* it was issued with and no more, it is refused once its revocation       *)
(* returned, and the page of an earlier start no longer works (app.py: "a  *)
(* leaked/stale copy of the served HTML stops working the moment the       *)
(* server restarts").  Only a file that is being written, or was left      *)
(* half-written, fails a request.                                          *)
Live(token) == {e \in handed : e.token = token /\ token \notin revoked}
Due(token, permission) ==
  IF token = Configured THEN "ok"
  ELSE IF \E e \in Live(token) : RoleHas(e.role, permission) THEN "ok"
  ELSE IF Live(token) # {} THEN "forbidden" ELSE "unauthorized"
AnswersAreRight ==
  \A p \in Processes, token \in Tokens \cup {Configured}, permission \in Permissions :
    proc[p].stage = "serving" =>
      \/ Answer(p, token, permission) = Due(token, permission)
      \/ Raises("tokens") /\ token # Configured

(* No change of an account is undone by another process: the file holds    *)
(* what the operations that returned left, also when a server waited at    *)
(* its prompt meanwhile, unless a save was cut off.                        *)
AccountsAreKept == ~Raises("users") => Contents("users") = accounts

(* A server offers to make the first administrator only where there is no  *)
(* account: not while the accounts are being written, and not after a save *)
(* that was cut off.                                                       *)
OnlyTheFirstIsAsked ==
  [][\A p \in Processes :
       proc'[p].stage = "prompting" /\ proc[p].stage # "prompting" => accounts = {}]_vars
=============================================================================
