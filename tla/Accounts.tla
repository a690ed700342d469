------------------------------ MODULE Accounts ------------------------------
(***************************************************************************)
(* The accounts of the web server (src/webserver/restapi.py) and the debug *)
(* socket that relies on them (src/webserver/debug_websocket.py).          *)
(*                                                                         *)
(* Every request runs in a thread of its own and every handler reads the   *)
(* database several times before it commits, so two handlers interleave    *)
(* between the reads.  A handler is a worker's program counter; a row that *)
(* SQLAlchemy has loaded stays as it was read ("me", "was") until the      *)
(* commit, which writes only the columns that the handler changed.         *)
(* Passwords are abstracted to "the caller gave the right one or not", the *)
(* lifetime of a token to "any".                                           *)
(***************************************************************************)
EXTENDS Integers, FiniteSets

CONSTANTS Names,      \* user names
          Workers,    \* threads that serve requests
          Sockets,    \* connections of the debug namespace
          MaxId,      \* bound: row ids
          MaxTokens,  \* bound: tokens ever issued
          MaxBusy     \* bound: threads at work at a time

ASSUME AccountsAssumption ==
    /\ MaxId \in Nat /\ MaxId >= 2   \* a device comes with two accounts at most
    /\ MaxTokens \in Nat
    /\ MaxBusy \in Nat

VARIABLES
    users,     \* the table: a function from the ids in use to rows
    marker,    \* the bootstrap_marker row exists
    hasRole,   \* the users table has its role column
    up,        \* step of the server process: "down", "migrate", "repair", "serving"
    lock,      \* holder of _bootstrap_lock, or NoOne
    req,       \* what each worker is doing
    sub,       \* the subject (a row id) of each token issued so far
    revoked,   \* jwt_blacklist: memory only
    sock,      \* the debug sockets
    firsts,    \* history: accounts made by the unauthenticated branch
    excused    \* history: why there may be no admin: the boot left the accounts so, or
               \* the last one went in a request that another one overtook

db == <<users, marker, hasRole>>
auth == <<sub, revoked>>
history == <<firsts, excused>>
vars == <<users, marker, hasRole, up, lock, req, sub, revoked, sock,
          firsts, excused>>

Roles == {"admin", "user"}
Row == [name: Names, role: Roles \cup {"none"}]
NoRow == [name |-> "none", role |-> "none"]   \* in a change: the column stays
LoadedRow == [name: Names \cup {"none"}, role: Roles \cup {"none"}]
NoOne == "no one"
Ids == 1 .. MaxId
Tokens == DOMAIN sub

Admins == {i \in DOMAIN users : users[i].role = "admin"}
NameTaken(n) == \E i \in DOMAIN users : users[i].name = n
Put(i, row) == [j \in DOMAIN users \cup {i} |-> IF j = i THEN row ELSE users[j]]

\* SQLite gives a new row the largest id in use plus one.
NewId == 1 + (IF users = <<>> THEN 0 ELSE CHOOSE i \in DOMAIN users : \A j \in DOMAIN users : j <= i)

\* A worker: its step, the token it will revoke, the caller's role as loaded, the
\* target and its row as loaded, the columns it changes; "seen" is history: the
\* admins there were when a request that removes one made its check.
Idle == [pc |-> "idle", tok |-> 0, me |-> "none", id |-> 0, was |-> NoRow,
         new |-> NoRow, seen |-> {}]
Closed == [step |-> "closed", tok |-> 0, void |-> {}]

TypeOK ==
    /\ DOMAIN users \subseteq Ids
    /\ \A i \in DOMAIN users : users[i] \in Row
    /\ marker \in BOOLEAN /\ hasRole \in BOOLEAN
    /\ up \in {"down", "migrate", "repair", "serving"}
    /\ lock \in Workers \cup {NoOne}
    /\ req \in [Workers -> [pc: {"idle", "lockwait", "recheck", "first", "name", "insert",
                                 "load", "role", "rename", "save", "revoke",
                                 "find", "remove"},
                            tok: 0 .. MaxTokens, me: Roles \cup {"none"}, id: 0 .. MaxId,
                            was: LoadedRow, new: LoadedRow, seen: SUBSET Ids]]
    /\ sub \in [1 .. Cardinality(Tokens) -> Ids] /\ Cardinality(Tokens) <= MaxTokens
    /\ revoked \subseteq Tokens
    /\ sock \in [Sockets -> [step: {"closed", "idle", "received", "verified"},
                             tok: 0 .. MaxTokens, void: SUBSET Tokens]]
    /\ firsts \in 0 .. 2 /\ excused \in BOOLEAN

\* A device comes with an empty database, with the table of a build that had no
\* roles, or with that of an early build whose rows landed on either role.
Init ==
    /\ hasRole \in BOOLEAN
    /\ \E S \in {{}, {1}, {1, 2}} :
         users \in [S -> [name: Names, role: IF hasRole THEN Roles ELSE {"none"}]]
    /\ \A i, j \in DOMAIN users : users[i].name = users[j].name => i = j
    /\ marker = FALSE
    /\ up = "down"
    /\ lock = NoOne
    /\ req = [w \in Workers |-> Idle]
    /\ sub = <<>> /\ revoked = {}
    /\ sock = [s \in Sockets |-> Closed]
    /\ firsts = 0 /\ excused = FALSE

-----------------------------------------------------------------------------
(* The server process: start, migration, repair, death. *)

Boot ==
    /\ up = "down"
    /\ up' = "migrate"
    /\ excused' = FALSE
    /\ UNCHANGED <<db, lock, req, auth, sock, firsts>>

\* apply_user_schema_migrations: every row of a table without roles becomes an admin.
Migrate ==
    /\ up = "migrate"
    /\ up' = "repair"
    /\ hasRole' = TRUE
    /\ users' = [i \in DOMAIN users |->
                   IF hasRole THEN users[i] ELSE [users[i] EXCEPT !.role = "admin"]]
    /\ UNCHANGED <<marker, lock, req, auth, sock, history>>

\* A sole account without the admin role.
Repairable == Admins = {} /\ Cardinality(DOMAIN users) = 1

\* repair_missing_admin: promote a sole account; its commit may fail.
Repair ==
    /\ up = "repair"
    /\ up' = "serving"
    /\ \/ /\ Repairable
          /\ users' = [i \in DOMAIN users |-> [users[i] EXCEPT !.role = "admin"]]
          /\ UNCHANGED excused
       \/ /\ Repairable   \* the commit raised: rolled back and logged
          /\ excused' = TRUE
          /\ UNCHANGED users
       \/ /\ ~Repairable
          /\ excused' = (Admins = {} /\ users # <<>>)
          /\ UNCHANGED users
    /\ UNCHANGED <<marker, hasRole, lock, req, auth, sock, firsts>>

\* The boot work raised: run_https swallows it and serves all the same.
BootError ==
    /\ up \in {"migrate", "repair"}
    /\ up' = "serving"
    /\ excused' = TRUE
    /\ UNCHANGED <<db, lock, req, auth, sock, firsts>>

\* The process ends: requests, sockets and the blacklist go with it; the
\* database and the signing key, so the tokens, do not.
Die ==
    /\ up # "down"
    /\ up' = "down"
    /\ lock' = NoOne
    /\ req' = [w \in Workers |-> Idle]
    /\ sock' = [s \in Sockets |-> Closed]
    /\ revoked' = {}
    /\ UNCHANGED <<db, sub, history>>

-----------------------------------------------------------------------------
(* Tokens *)

\* check_if_token_revoked and user_lookup_callback.
Known(t) == t \notin revoked /\ sub[t] \in DOMAIN users

\* jwt_required: the token is not revoked and its subject exists.  Its lifetime is
\* left out: the model lets every token live as long as it is of use.
Authentic(t) == Known(t)

\* A table without the role column fails every query, so every request.
Serving == up = "serving" /\ hasRole

Login(i) ==
    /\ Serving /\ i \in DOMAIN users
    /\ Cardinality(Tokens) < MaxTokens
    /\ sub' = [t \in 1 .. Cardinality(Tokens) + 1 |-> IF t \in Tokens THEN sub[t] ELSE i]
    /\ UNCHANGED <<db, up, lock, req, revoked, sock, history>>

Logout(t) ==
    /\ Serving /\ Authentic(t)
    /\ revoked' = revoked \cup {t}
    /\ UNCHANGED <<db, up, lock, req, sub, sock, history>>

-----------------------------------------------------------------------------
(* create-user *)

Step(w, r) == req' = [req EXCEPT ![w] = r]
At(w, pc) == Serving /\ req[w].pc = pc

\* Threads that serve a request or a debug session; at most MaxBusy at a time.
Busy == {w \in Workers : req[w].pc # "idle"} \cup {s \in Sockets : sock[s].step # "closed"}
MayStart(w) == At(w, "idle") /\ Cardinality(Busy) < MaxBusy
Locals == <<up, auth, sock>>

\* The answer is a refusal: nothing was committed, the ORM session is dropped.
Refuse(w) == Step(w, Idle) /\ UNCHANGED <<db, lock, Locals, history>>

\* No account yet: the request goes to _bootstrap_first_admin.
CreateFirst(w) ==
    /\ MayStart(w) /\ users = <<>>
    /\ Step(w, [Idle EXCEPT !.pc = "lockwait"])
    /\ UNCHANGED <<db, lock, Locals, history>>

TakeLock(w) ==
    /\ At(w, "lockwait") /\ lock = NoOne
    /\ lock' = w
    /\ Step(w, [req[w] EXCEPT !.pc = "recheck"])
    /\ UNCHANGED <<db, Locals, history>>

\* The authoritative check inside the lock.
MayBootstrap == users = <<>> /\ ~marker

Recheck(w) ==
    /\ At(w, "recheck")
    /\ IF MayBootstrap THEN Step(w, [req[w] EXCEPT !.pc = "first"]) /\ UNCHANGED lock
                       ELSE Step(w, Idle) /\ lock' = NoOne
    /\ UNCHANGED <<db, Locals, history>>

\* Seeded fault: the marker is not part of the transaction.
InsertFirstNoMarker(w) ==
    /\ At(w, "first")
    /\ Step(w, Idle)
    /\ lock' = NoOne
    /\ \/ \E n \in Names :
            /\ ~NameTaken(n) /\ NewId \in Ids
            /\ users' = Put(NewId, [name |-> n, role |-> "admin"])
            /\ firsts' = firsts + 1
       \/ UNCHANGED <<users, firsts>>
    /\ UNCHANGED <<marker, hasRole, Locals, excused>>

\* One transaction: the first admin and the marker row, or neither.
InsertFirst(w) ==
    /\ At(w, "first")
    /\ Step(w, Idle)
    /\ lock' = NoOne
    /\ \/ \E n \in Names :
            /\ ~marker /\ ~NameTaken(n) /\ NewId \in Ids
            /\ users' = Put(NewId, [name |-> n, role |-> "admin"])
            /\ marker' = TRUE
            /\ firsts' = firsts + 1
       \/ UNCHANGED <<users, marker, firsts>>   \* missing fields, IntegrityError
    /\ UNCHANGED <<hasRole, Locals, excused>>

\* Seeded fault: any authenticated caller may create accounts.
MayCreateAnyRole(row) == row.role \in Roles

\* Who may create an account once one exists.
MayCreate(row) == row.role = "admin"

\* An account exists: the caller must be an admin.
CreateStart(w, t, r) ==
    /\ MayStart(w) /\ users # <<>>
    /\ Authentic(t) /\ MayCreate(users[sub[t]])
    /\ \E n \in Names :
         Step(w, [Idle EXCEPT !.pc = "name", !.me = users[sub[t]].role,
                              !.new = [name |-> n, role |-> r]])
    /\ UNCHANGED <<db, lock, Locals, history>>

CheckName(w) ==
    /\ At(w, "name")
    /\ Step(w, IF NameTaken(req[w].new.name) THEN Idle ELSE [req[w] EXCEPT !.pc = "insert"])
    /\ UNCHANGED <<db, lock, Locals, history>>

\* Seeded fault: the name column is not declared unique.
InsertableAnyName(n) == NewId \in Ids

\* The unique constraint on username, at the commit.
Insertable(n) == ~NameTaken(n) /\ NewId \in Ids

Insert(w) ==
    /\ At(w, "insert") /\ Insertable(req[w].new.name)
    /\ users' = Put(NewId, req[w].new)
    /\ Step(w, Idle)
    /\ UNCHANGED <<marker, hasRole, lock, Locals, history>>

\* The commit raises (constraint, database locked): the request ends in an error.
CommitError(w) ==
    /\ Serving /\ req[w].pc \in {"insert", "save", "remove"}
    /\ Refuse(w)

-----------------------------------------------------------------------------
(* update-user *)

UpdateStart(w, t, i) ==
    /\ MayStart(w) /\ Authentic(t)
    /\ Step(w, [Idle EXCEPT !.pc = "load", !.id = i,
                            !.me = users[sub[t]].role,
                            !.was = IF sub[t] = i THEN users[i] ELSE NoRow,
                            !.tok = IF sub[t] = i THEN t ELSE 0])
    /\ UNCHANGED <<db, lock, Locals, history>>

\* A caller keeps its token when it is its own target.
IsSelf(w) == req[w].tok # 0
ByAdmin(w) == req[w].me = "admin"

\* The target row; when it is the caller's own, the row loaded with the token.
LoadTarget(w) ==
    /\ At(w, "load")
    /\ LET row == IF IsSelf(w) THEN req[w].was
                  ELSE IF req[w].id \in DOMAIN users THEN users[req[w].id] ELSE NoRow
       IN IF row = NoRow \/ ~(ByAdmin(w) \/ IsSelf(w))
          THEN Step(w, Idle)
          ELSE Step(w, [req[w] EXCEPT !.pc = "role", !.was = row])
    /\ UNCHANGED <<db, lock, Locals, history>>

\* Seeded fault: the guard counts the accounts instead of the admins.
MaySetRoleAnyCount(was, r) ==
    was.role = "admin" /\ r # "admin" => Cardinality(DOMAIN users) > 1

\* The last admin is not demoted: admin_count is read from the database, the
\* target's role from the row loaded before.
MaySetRole(was, r) == was.role = "admin" /\ r # "admin" => Cardinality(Admins) > 1

SetRole(w, r) ==
    /\ At(w, "role")
    /\ IF ByAdmin(w) /\ MaySetRole(req[w].was, r)
       THEN Step(w, [req[w] EXCEPT !.pc = "rename", !.was.role = "none",
                                   !.new.role = IF r = req[w].was.role THEN "none" ELSE r,
                                   !.seen = IF r = "user" THEN Admins ELSE {}])
       ELSE Step(w, Idle)
    /\ UNCHANGED <<db, lock, Locals, history>>

KeepRole(w) ==
    /\ At(w, "role")
    /\ Step(w, [req[w] EXCEPT !.pc = "rename", !.was.role = "none"])
    /\ UNCHANGED <<db, lock, Locals, history>>

\* A clash ends the request after the role was set on the loaded row.
SetName(w, n) ==
    /\ At(w, "rename")
    /\ Step(w, IF \E i \in DOMAIN users \ {req[w].id} : users[i].name = n
               THEN Idle
               ELSE [req[w] EXCEPT !.pc = "save", !.was = NoRow,
                                   !.new.name = IF n = req[w].was.name THEN "none" ELSE n])
    /\ UNCHANGED <<db, lock, Locals, history>>

KeepName(w) ==
    /\ At(w, "rename")
    /\ Step(w, [req[w] EXCEPT !.pc = "save", !.was = NoRow])
    /\ UNCHANGED <<db, lock, Locals, history>>

\* Seeded fault: fields that the request does not give are written as well.
FlushedAll(row, new) == new

\* The UPDATE names the columns that the handler changed and no other.
Flushed(row, new) ==
    [name |-> IF new.name = "none" THEN row.name ELSE new.name,
     role |-> IF new.role = "none" THEN row.role ELSE new.role]

\* The last admin left in a request that another one overtook since its check; an
\* excuse lasts no longer than there is no admin.
Overtaken(w, after) ==
    /\ \A i \in DOMAIN after : after[i].role # "admin"
    /\ IF Admins = {} THEN excused ELSE Admins # req[w].seen

\* The commit, with a new password or not.  A row deleted meanwhile is a
\* StaleDataError, a name taken meanwhile an IntegrityError: CommitError.
Save(w, password) ==
    LET i == req[w].id
        r == req[w]
    IN /\ At(w, "save") /\ i \in DOMAIN users
       /\ LET row == Flushed(users[i], r.new)
          IN /\ \A j \in DOMAIN users \ {i} : users[j].name # row.name
             /\ users' = Put(i, row)
             /\ excused' = Overtaken(w, Put(i, row))
       /\ Step(w, IF password /\ IsSelf(w)
                  THEN [Idle EXCEPT !.pc = "revoke", !.tok = r.tok] ELSE Idle)
       /\ UNCHANGED <<marker, hasRole, lock, Locals, firsts>>

\* A wrong current password ends the request without a commit.
WrongPassword(w) == At(w, "save") /\ IsSelf(w) /\ Refuse(w)

\* Changing one's own password revokes the token of the request.
RevokeOwn(w) ==
    /\ At(w, "revoke")
    /\ revoked' = revoked \cup {req[w].tok}
    /\ Step(w, Idle)
    /\ UNCHANGED <<db, lock, up, sub, sock, history>>

-----------------------------------------------------------------------------
(* delete-user *)

DeleteStart(w, t, i) ==
    /\ MayStart(w) /\ Authentic(t)
    /\ Step(w, [Idle EXCEPT !.pc = "find", !.me = users[sub[t]].role, !.id = i,
                            !.tok = IF sub[t] = i THEN t ELSE 0, !.seen = Admins])
    /\ UNCHANGED <<db, lock, Locals, history>>

DeleteFind(w) ==
    /\ At(w, "find")
    /\ Step(w, IF req[w].id \in DOMAIN users /\ ByAdmin(w) /\ ~IsSelf(w)
               THEN [req[w] EXCEPT !.pc = "remove"] ELSE Idle)
    /\ UNCHANGED <<db, lock, Locals, history>>

\* A row that is already gone is a warning, not an error.
Remove(w) ==
    /\ At(w, "remove")
    /\ LET after == [j \in DOMAIN users \ {req[w].id} |-> users[j]]
       IN users' = after /\ excused' = Overtaken(w, after)
    /\ Step(w, Idle)
    /\ UNCHANGED <<marker, hasRole, lock, Locals, firsts>>

-----------------------------------------------------------------------------
(* The debug socket *)

SetSock(s, r) ==
    sock' = [sock EXCEPT ![s] = r] /\ UNCHANGED <<db, up, lock, req, auth, history>>

\* connect and reauth verify in full, then keep the token for the session.
Connect(s, t) ==
    /\ Serving /\ sock[s].step = "closed" /\ Cardinality(Busy) < MaxBusy /\ Authentic(t)
    /\ SetSock(s, [Closed EXCEPT !.step = "idle", !.tok = t])

Reauth(s, t) ==
    /\ Serving /\ sock[s].step # "closed" /\ Authentic(t)
    /\ SetSock(s, [sock[s] EXCEPT !.tok = t])

Disconnect(s) ==
    /\ sock[s].step # "closed"
    /\ SetSock(s, Closed)

\* A command arrives; "void" remembers which tokens were revoked by then.
Receive(s) ==
    /\ Serving /\ sock[s].step = "idle"
    /\ SetSock(s, [sock[s] EXCEPT !.step = "received", !.void = revoked])

\* Seeded fault: the session inherits the verdict of the handshake.
ReverifiedAtHandshake(t) == t \in Tokens

\* _reverify_session_token: revocation and identity, not the lifetime.
Reverified(t) == Known(t)

Verify(s) ==
    /\ Serving /\ sock[s].step = "received"
    /\ SetSock(s, IF Reverified(sock[s].tok)
                  THEN [sock[s] EXCEPT !.step = "verified",
                                       !.void = @ \cap {sock[s].tok}]
                  ELSE [sock[s] EXCEPT !.step = "idle", !.void = {}])

\* The command is served: forwarded to the runtime or answered here.
Respond(s) ==
    /\ Serving /\ sock[s].step = "verified"
    /\ SetSock(s, [sock[s] EXCEPT !.step = "idle", !.void = {}])

-----------------------------------------------------------------------------
Process == Boot \/ Migrate \/ Repair \/ BootError \/ Die

Request(w) ==
    \/ CreateFirst(w) \/ TakeLock(w) \/ Recheck(w) \/ InsertFirst(w)
    \/ \E t \in Tokens, r \in Roles : CreateStart(w, t, r)
    \/ CheckName(w) \/ Insert(w) \/ CommitError(w)
    \/ \E t \in Tokens, i \in Ids : UpdateStart(w, t, i) \/ DeleteStart(w, t, i)
    \/ LoadTarget(w) \/ KeepRole(w) \/ KeepName(w)
    \/ \E r \in Roles : SetRole(w, r)
    \/ \E n \in Names : SetName(w, n)
    \/ \E p \in BOOLEAN : Save(w, p)
    \/ WrongPassword(w) \/ RevokeOwn(w) \/ DeleteFind(w) \/ Remove(w)

Token == (\E i \in Ids : Login(i)) \/ (\E t \in Tokens : Logout(t))

Socket(s) ==
    \/ \E t \in Tokens : Connect(s, t) \/ Reauth(s, t)
    \/ Disconnect(s) \/ Receive(s) \/ Verify(s) \/ Respond(s)

Next == Process \/ Token \/ (\E w \in Workers : Request(w)) \/ (\E s \in Sockets : Socket(s))

Spec == Init /\ [][Next]_vars

-----------------------------------------------------------------------------
(* Properties *)

\* However many requests race on an empty database, and whatever is deleted
\* later, the unauthenticated branch makes one account in the life of a
\* database: the lock, the check inside it and the marker together.
OneFirstAdmin == firsts <= 1

\* The checks of create-user and update-user are separated from their commits;
\* no interleaving leaves two accounts with one name.
UniqueNames == \A i, j \in DOMAIN users : users[i].name = users[j].name => i = j

\* A serving device with accounts is without an admin only if its boot left it so
\* (several accounts, or a failed repair) or if the request that took the last one had
\* been overtaken by another one after its own check: the last-admin guards and the
\* rule against deleting oneself have no other gap.
AdminRemains ==
    Serving /\ Admins = {} /\ users # <<>> => excused

\* A command that arrives after its session's token was revoked is never served,
\* whatever reauth and logout do on other threads meanwhile.
RevokedRefused == \A s \in Sockets : sock[s].step = "verified" => sock[s].void = {}

Privileged(w) == ByAdmin(w) \/ req[w].pc \in {"recheck", "first"}

\* repair_missing_admin calls a device with accounts and no admin a dead end: once
\* the requests that an admin had begun are over, no request produces an admin.
DeadEnd ==
    [][Serving /\ users # <<>> /\ Admins = {} /\ (\A w \in Workers : ~Privileged(w))
         => Admins' = {}]_vars

(* ---- what the run checks ------------------------------------------------ *)

\* The table is sound: names are unique, the unauthenticated branch of create_user made
\* one administrator at most, and one remains unless the last went in a request that
\* another one overtook.
TableSound == TypeOK /\ UniqueNames /\ OneFirstAdmin /\ AdminRemains
=============================================================================
