------------------------------ MODULE Accounts ------------------------------
(***************************************************************************)
(* The accounts and their database: backend/db/session.py prepares it and  *)
(* creates the first administrator when a process of the server starts     *)
(* (backend/app.py, _run_startup_bootstrap), and the routes of app.py      *)
(* create the others and change their roles and their access.  Each call   *)
(* looks before it writes, and others may write in between.  The default   *)
(* database, SQLite, makes every DDL statement and every commit one step;  *)
(* it fails only for what exists.                                          *)
(***************************************************************************)
EXTENDS Naturals, Sequences, Deployment

CONSTANTS
  Creators,     \* threads that serve the routes that create accounts
  Managers,     \* threads that serve the route that changes them
  Emails,       \* addresses asked for
  FirstEmail,   \* FIRST_RUN_ADMIN_EMAIL
  MaxPasswords, MaxProcessStarts,  \* bounds
  MaxAccountEvents  \* bound on passwords, starts of processes and updates together

ASSUME AccountsAssumption == {MaxPasswords, MaxProcessStarts, MaxAccountEvents} \subseteq Nat

VARIABLES
  schema,       \* what the database has of its schema
  rows,         \* the users
  starting,     \* how far each process is
  creating,     \* the call of each creator
  drawn,        \* passwords drawn so far
  handed,       \* passwords handed out, with the address they were handed out for
  starts,
  forgotten,    \* a password was committed that no one was told, by a kill
  badges,       \* addresses that hold a token of the role SUPER_ADMIN
  managing,     \* the call of each manager
  updates,      \* such calls so far
  overreached   \* a role or an access was taken away by who no longer administered, or
                \* an administrator gave up his own role

managerVars == <<badges, managing, updates, overreached>>
accountVars == <<schema, rows, starting, creating, drawn, handed, starts, forgotten, managerVars>>

-----------------------------------------------------------------------------
(* create_all makes the tables, with their columns; an older database has  *)
(* tables without the columns added since.                                 *)
Tables == {"users", "user_sessions"}
Whole == Tables \cup {"metadata", "device"}
With(piece) ==
  CASE piece = "users" -> {"users", "metadata"}
    [] piece = "user_sessions" -> {"user_sessions", "device"}
    [] OTHER -> {piece}

(* What each stage looks for.                                              *)
Stages == <<Tables, {"metadata"}, {"device"}>>

StartPhases == {"down", "look", "make", "seed", "insert", "print", "boot", "diagnose", "up"}

(* The roles without the permission to manage users are told apart nowhere *)
(* here.                                                                   *)
UserRoles == {"SUPER_ADMIN", "STAFF"}
Addresses == Emails \cup {FirstEmail}
Row(email, password, role) ==
  [email |-> email, password |-> password, role |-> role, active |-> TRUE]

(* What a change asks for, or writes.                                      *)
UserChanges == [role : {"keep"} \cup UserRoles, active : {"keep", "on", "off"}]

Room == drawn + starts + updates < MaxAccountEvents

(* The unique index on the addresses.                                      *)
Taken(email) == \E row \in rows : row.email = email

AccountsTypeOK ==
  /\ schema \subseteq Whole
  /\ rows \subseteq [email : Addresses, password : 1 .. MaxPasswords, role : UserRoles,
                     active : BOOLEAN]
  /\ starting \in [Servers -> [phase : StartPhases, stage : 1 .. 3, missing : SUBSET Whole,
                               password : 0 .. MaxPasswords]]
  /\ creating \in [Creators -> [phase : {"idle", "insert", "answer"}, email : Addresses,
                                role : UserRoles, password : 0 .. MaxPasswords]]
  /\ drawn \in 0 .. MaxPasswords
  /\ handed \subseteq Addresses \X (1 .. MaxPasswords)
  /\ starts \in 0 .. MaxProcessStarts /\ forgotten \in BOOLEAN
  /\ badges \subseteq Addresses
  /\ managing \in [Managers -> [phase : {"idle", "find", "commit"}, by : Addresses,
                                email : Addresses, write : UserChanges]]
  /\ updates \in 0 .. MaxAccountEvents /\ overreached \in BOOLEAN

Down == [phase |-> "down", stage |-> 1, missing |-> {}, password |-> 0]
Rest == [phase |-> "idle", email |-> FirstEmail, role |-> "STAFF", password |-> 0]
NoUpdate == [phase |-> "idle", by |-> FirstEmail, email |-> FirstEmail,
             write |-> [role |-> "keep", active |-> "keep"]]

(* A new host, and one with a database of an older edition.                *)
AccountsInit ==
  /\ schema \in {{}, Tables}
  /\ rows = {} /\ handed = {} /\ drawn = 0 /\ starts = 0 /\ forgotten = FALSE
  /\ badges = {} /\ updates = 0 /\ overreached = FALSE
  /\ starting = [p \in Servers |-> Down]
  /\ creating = [c \in Creators |-> Rest]
  /\ managing = [u \in Managers |-> NoUpdate]

-----------------------------------------------------------------------------
(* A process starts. *)

Progress(p, record) == starting' = [starting EXCEPT ![p] = record]

StartProcess(p) ==
  /\ starting[p].phase = "down" /\ starts < MaxProcessStarts /\ Room
  /\ starts' = starts + 1
  /\ Progress(p, [Down EXCEPT !.phase = "look"])
  /\ UNCHANGED <<schema, rows, creating, drawn, handed, forgotten, managerVars>>

(* Each stage looks for all it may have to create, and creates it then.    *)
LookAtSchema(p) ==
  /\ starting[p].phase = "look"
  /\ Progress(p, [starting[p] EXCEPT !.phase = "make", !.missing = Stages[starting[p].stage] \ schema])
  /\ UNCHANGED <<schema, rows, creating, drawn, handed, starts, forgotten, managerVars>>

(* What exists by now cannot be created: the process does not come up.     *)
MakePiece(p) ==
  LET at == starting[p] IN
  /\ at.phase = "make"
  /\ \/ /\ at.missing = {}
        /\ Progress(p, IF at.stage < Len(Stages) THEN [at EXCEPT !.phase = "look", !.stage = @ + 1]
                                                 ELSE [at EXCEPT !.phase = "seed"])
        /\ UNCHANGED schema
     \/ \E piece \in at.missing :
          /\ piece = "user_sessions" => "users" \notin at.missing
          /\ schema' = schema \cup With(piece)
          /\ Progress(p, IF piece \in schema THEN Down ELSE [at EXCEPT !.missing = @ \ {piece}])
  /\ UNCHANGED <<rows, creating, drawn, handed, starts, forgotten, managerVars>>

(* seed_db: without an administrator, a password is drawn.                 *)
SeedLook(p) ==
  /\ starting[p].phase = "seed"
  /\ IF \E row \in rows : row.role = "SUPER_ADMIN"
       THEN Progress(p, [starting[p] EXCEPT !.phase = "boot"]) /\ UNCHANGED drawn
       ELSE /\ drawn < MaxPasswords /\ Room /\ drawn' = drawn + 1
            /\ Progress(p, [starting[p] EXCEPT !.phase = "insert", !.password = drawn + 1])
  /\ UNCHANGED <<schema, rows, creating, handed, starts, forgotten, managerVars>>

(* A failure is printed and rolled back, and the process goes on.          *)
SeedInsert(p) ==
  /\ starting[p].phase = "insert"
  /\ IF Taken(FirstEmail)
       THEN Progress(p, [starting[p] EXCEPT !.phase = "boot"]) /\ UNCHANGED rows
       ELSE /\ rows' = rows \cup {Row(FirstEmail, starting[p].password, "SUPER_ADMIN")}
            /\ Progress(p, [starting[p] EXCEPT !.phase = "print"])
  /\ UNCHANGED <<schema, creating, drawn, handed, starts, forgotten, managerVars>>

(* The password is printed, once.                                          *)
SeedPrint(p) ==
  /\ starting[p].phase = "print"
  /\ handed' = handed \cup {<<FirstEmail, starting[p].password>>}
  /\ Progress(p, [starting[p] EXCEPT !.phase = "boot"])
  /\ UNCHANGED <<schema, rows, creating, drawn, starts, forgotten, managerVars>>

(* The start is on the ledger, and then the diagnostics are.               *)
Boot(p) ==
  /\ starting[p].phase \in {"boot", "diagnose"}
  /\ Progress(p, [starting[p] EXCEPT !.phase = IF @ = "boot" THEN "diagnose" ELSE "up"])
  /\ UNCHANGED <<schema, rows, creating, drawn, handed, starts, forgotten, managerVars>>

KillProcess(p) ==
  /\ starting[p].phase # "down"
  /\ Progress(p, Down)
  /\ forgotten' = (forgotten \/ starting[p].phase = "print")
  /\ UNCHANGED <<schema, rows, creating, drawn, handed, starts, managerVars>>

-----------------------------------------------------------------------------
(* The routes. *)

Served == \E p \in Servers : starting[p].phase = "up"

(* login: only an active account gets a token, which bears its role.       *)
LogIn(email) ==
  /\ Served /\ email \notin badges
  /\ \E row \in rows :
       /\ row.email = email /\ row.active /\ row.role = "SUPER_ADMIN"
       /\ <<email, row.password>> \in handed
  /\ badges' = badges \cup {email}
  /\ UNCHANGED <<schema, rows, starting, creating, drawn, handed, starts, forgotten, managing,
                 updates, overreached>>

(* get_active_user looks whether the account is active; the role that      *)
(* counts is still the token's.                                            *)
MayManage(by) == by \in badges /\ \E row \in rows : row.email = by /\ row.active

(* register, open to all, and create_user look for the address, and hash a *)
(* password.                                                               *)
BeginCreate(c, email, role) ==
  /\ creating[c].phase = "idle" /\ drawn < MaxPasswords /\ Room
  /\ Served /\ (role = "STAFF" \/ \E by \in Addresses : MayManage(by))
  /\ ~Taken(email)
  /\ drawn' = drawn + 1
  /\ creating' = [creating EXCEPT ![c] =
       [phase |-> "insert", email |-> email, role |-> role, password |-> drawn + 1]]
  /\ UNCHANGED <<schema, rows, starting, handed, starts, forgotten, managerVars>>

(* The commit fails, with an error that nothing catches, or the row is in. *)
CommitAccount(c) ==
  /\ creating[c].phase = "insert"
  /\ IF Taken(creating[c].email)
       THEN creating' = [creating EXCEPT ![c] = Rest] /\ UNCHANGED rows
       ELSE /\ rows' = rows \cup {Row(creating[c].email, creating[c].password, creating[c].role)}
            /\ creating' = [creating EXCEPT ![c].phase = "answer"]
  /\ UNCHANGED <<schema, starting, drawn, handed, starts, forgotten, managerVars>>

(* The ledger has it, and the answer the password.                         *)
AnswerAccount(c) ==
  /\ creating[c].phase = "answer"
  /\ handed' = handed \cup {<<creating[c].email, creating[c].password>>}
  /\ creating' = [creating EXCEPT ![c] = Rest]
  /\ UNCHANGED <<schema, rows, starting, drawn, starts, forgotten, managerVars>>

(* The process that serves the call dies.                                  *)
DropCall(c) ==
  /\ creating[c].phase # "idle"
  /\ creating' = [creating EXCEPT ![c] = Rest]
  /\ forgotten' = (forgotten \/ creating[c].phase = "answer")
  /\ UNCHANGED <<schema, rows, starting, drawn, handed, starts, managerVars>>

Update(u, record) == managing' = [managing EXCEPT ![u] = record]

(* update_user: the caller is admitted, then the row is read.              *)
BeginUpdate(u, by) ==
  /\ managing[u].phase = "idle" /\ Room
  /\ Served /\ MayManage(by)
  /\ updates' = updates + 1
  /\ Update(u, [NoUpdate EXCEPT !.phase = "find", !.by = by])
  /\ UNCHANGED <<schema, rows, starting, creating, drawn, handed, starts, forgotten, badges,
                 overreached>>

(* Only the columns whose value is another than the one read are written.  *)
Differing(change, row) ==
  [role |-> IF change.role = row.role THEN "keep" ELSE change.role,
   active |-> IF change.active = (IF row.active THEN "on" ELSE "off") THEN "keep" ELSE change.active]

(* No one disables himself.                                                *)
ReadUser(u, row, change) ==
  /\ managing[u].phase = "find" /\ row \in rows
  /\ ~(row.email = managing[u].by /\ change.active = "off")
  /\ Update(u, [managing[u] EXCEPT !.phase = "commit", !.email = row.email,
                                   !.write = Differing(change, row)])
  /\ UNCHANGED <<schema, rows, starting, creating, drawn, handed, starts, forgotten, badges,
                 updates, overreached>>

Updated(row, write) ==
  [row EXCEPT !.role = IF write.role = "keep" THEN @ ELSE write.role,
              !.active = IF write.active = "keep" THEN @ ELSE write.active = "on"]

Administers(email) == \E row \in rows : row.email = email /\ row.role = "SUPER_ADMIN" /\ row.active

Overreaches(call) ==
  \/ call.write.role = "STAFF" /\ call.email = call.by
  \/ (call.write.role = "STAFF" \/ call.write.active = "off") /\ ~Administers(call.by)

(* The commit, the audit record and the answer.                            *)
CommitUpdate(u) ==
  LET call == managing[u] IN
  /\ call.phase = "commit"
  /\ rows' = {IF row.email = call.email THEN Updated(row, call.write) ELSE row : row \in rows}
  /\ overreached' = (overreached \/ Overreaches(call))
  /\ Update(u, NoUpdate)
  /\ UNCHANGED <<schema, starting, creating, drawn, handed, starts, forgotten, badges, updates>>

(* The process that serves the call dies.                                  *)
DropUpdate(u) ==
  /\ managing[u].phase # "idle"
  /\ Update(u, NoUpdate)
  /\ UNCHANGED <<schema, rows, starting, creating, drawn, handed, starts, forgotten, badges,
                 updates, overreached>>

AccountsNext ==
  \/ \E p \in Servers :
       \/ StartProcess(p) \/ LookAtSchema(p) \/ MakePiece(p) \/ SeedLook(p) \/ SeedInsert(p)
       \/ SeedPrint(p) \/ Boot(p) \/ KillProcess(p)
  \/ \E c \in Creators :
       \/ \E email \in Emails, role \in UserRoles : BeginCreate(c, email, role)
       \/ CommitAccount(c) \/ AnswerAccount(c) \/ DropCall(c)
  \/ \E email \in Addresses : LogIn(email)
  \/ \E u \in Managers :
       \/ \E by \in Addresses : BeginUpdate(u, by)
       \/ \E row \in rows, change \in UserChanges : ReadUser(u, row, change)
       \/ CommitUpdate(u) \/ DropUpdate(u)

AccountsSpec == AccountsInit /\ [][AccountsNext]_accountVars

-----------------------------------------------------------------------------
(* Every password that was printed by the seeding or answered by a route   *)
(* that creates accounts opens the account it was handed out for, whoever  *)
(* else was creating it: that account is the one of its address.  (The     *)
(* routes that replace a password later belong to the sessions.)           *)
PasswordsTold ==
  \A told \in handed :
    /\ \E row \in rows : <<row.email, row.password>> = told
    /\ \A one, other \in rows : one.email = told[1] /\ other.email = told[1] => one = other

(* A process that is up has found or made the whole schema, and someone    *)
(* can administer: an active administrator's password was handed out, or   *)
(* is about to be, whichever administrators were disabled or lost their    *)
(* role meanwhile.  Three things undo it: a kill before a password was     *)
(* told; an administrator who gives up his own role, which no guard stops; *)
(* and a call that takes a role or an access away after its own caller     *)
(* lost his, because two disable each other at once or because the role in *)
(* the token is older than the account's.  No one is seeded then: seed_db  *)
(* looks for a role and not for an access, and the first address is taken. *)
AdministratorTold ==
  \A p \in Servers : starting[p].phase = "up" =>
    /\ schema = Whole
    /\ \/ forgotten \/ overreached
       \/ \E row \in rows : row.role = "SUPER_ADMIN" /\ row.active /\
            \/ <<row.email, row.password>> \in handed
            \/ \E q \in Servers : starting[q].phase = "print" /\ starting[q].password = row.password
            \/ \E c \in Creators : creating[c].phase = "answer" /\ creating[c].password = row.password

=============================================================================
