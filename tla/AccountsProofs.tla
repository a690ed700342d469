--------------------------- MODULE AccountsProofs ---------------------------
(***************************************************************************)
(* Proofs about Accounts, for any number of user names, request threads,   *)
(* debug sockets, rows and tokens: what no interleaving of the handlers    *)
(* does to the table of the users, which commands of a debug session are   *)
(* refused, and that a device without an administrator gets none.          *)
(***************************************************************************)
EXTENDS Accounts, FiniteSetTheorems, TLAPS

\* What every action relies on: the groups of variables, and a worker's step.
USE DEF vars, db, auth, history, Locals, Tokens

-----------------------------------------------------------------------------
(* The inductive invariant *)

\* What a request may hold, whatever its step.
ReqRec == [pc: {"idle", "lockwait", "recheck", "first", "name", "insert", "load", "role",
                "rename", "save", "revoke", "find", "remove"},
           tok: 0 .. MaxTokens, me: Roles \cup {"none"}, id: 0 .. MaxId,
           was: LoadedRow, new: LoadedRow, seen: SUBSET Ids]

\* Someone other than the target was an admin when the request made its check.
OtherAdmin(r) == \E j \in r.seen : j # r.id

\* What a request has established at its step, with T the tokens issued so far: its
\* token; for create-user that an admin makes a complete row; for update-user whose row
\* was loaded, that only an admin changes a role, and that a demotion leaves an admin
\* that the check has seen; for delete-user that it leaves its caller.
Sane(r, T) ==
  /\ r.tok \in T \cup {0}
  /\ r.pc = "revoke" => r.tok # 0
  /\ r.pc \in {"name", "insert"} =>
       r.me = "admin" /\ r.new.name \in Names /\ r.new.role \in Roles
  /\ r.pc = "load" /\ r.tok # 0 => r.was.role \in Roles
  /\ r.pc = "role" => r.was.role \in Roles
  /\ r.pc \in {"load", "role"} => r.new.role = "none"
  /\ r.pc \in {"rename", "save"} =>
       /\ r.new.role # "none" => r.me = "admin"
       /\ r.new.role = "user" => OtherAdmin(r)
  /\ r.pc = "find" /\ r.me = "admin" /\ r.tok = 0 => OtherAdmin(r)
  /\ r.pc = "remove" => OtherAdmin(r)

RequestsSane == req \in [Workers -> ReqRec] /\ \A w \in Workers : Sane(req[w], Tokens)

\* The table is a function from ids to rows, whose roles are known once it has a
\* column for them.
TableKept ==
  /\ users \in [DOMAIN users -> Row] /\ DOMAIN users \subseteq Ids
  /\ hasRole \in BOOLEAN /\ marker \in BOOLEAN
  /\ hasRole => \A i \in DOMAIN users : users[i].role \in Roles

\* The marker row is written with the first account and stays.
FirstMarked == firsts \in 0 .. 1 /\ (firsts = 1 => marker)

\* Without an excuse there is an admin, or no account and nobody making one for an admin.
AdminOrNobody ==
  Serving /\ Admins = {} /\ ~excused =>
    users = <<>> /\ \A w \in Workers : req[w].pc \notin {"name", "insert"}

\* Tokens are numbered in the order of their issue.
TokensKept ==
  /\ Cardinality(Tokens) \in 0 .. MaxTokens
  /\ sub \in [1 .. Cardinality(Tokens) -> Ids]
  /\ revoked \subseteq Tokens

\* What a session has found void stays revoked.
SocketsKept ==
  /\ sock \in [Sockets -> [step: {"closed", "idle", "received", "verified"},
                           tok: 0 .. MaxTokens, void: SUBSET Tokens]]
  /\ \A s \in Sockets : sock[s].step = "received" => sock[s].void \subseteq revoked
  /\ RevokedRefused

\* No request is served before the boot is over.
ProcessKept ==
  /\ up # "serving" => \A w \in Workers : req[w].pc = "idle"
  /\ up \in {"down", "migrate", "repair", "serving"}
  /\ lock \in Workers \cup {NoOne} /\ excused \in BOOLEAN

AccountsInv ==
  /\ RequestsSane /\ TableKept /\ UniqueNames /\ FirstMarked /\ AdminOrNobody
  /\ TokensKept /\ SocketsKept /\ ProcessKept

-----------------------------------------------------------------------------
(* The proofs *)

\* A finite set of ids that is not empty has a largest one: of the sets of the ids from
\* one of its members on, the smallest belongs to it.
LEMMA LargestId ==
  ASSUME NEW S \in SUBSET Ids, S # {}
  PROVE  \E m \in S : \A j \in S : j <= m
<1> DEFINE From(i) == {j \in S : i <= j}
<1> DEFINE F == {From(i) : i \in S}
<1>0. \A i \in S : i \in Nat
  BY DEF Ids
<1>1. IsFiniteSet(S)
  <2>1. IsFiniteSet(Ids)
    BY AccountsAssumption, FS_Interval DEF Ids
  <2> QED
    BY <2>1, FS_Subset
<1>2. IsWellFoundedOn(StrictSubsetOrdering(S), SUBSET S)
  BY <1>1, FS_StrictSubsetOrderingWellFounded, FS_FiniteSubsetsOfFinite
<1>3. F \subseteq SUBSET S /\ F # {}
  OBVIOUS
<1>4. PICK X \in F : \A Y \in F : ~(<<Y, X>> \in StrictSubsetOrdering(S))
  <2> HIDE DEF F
  <2> QED
    BY <1>2, <1>3, WFMin
<1>5. PICK m \in S : X = From(m)
  BY <1>4
<1>6. ASSUME NEW j \in S PROVE j <= m
  <2>1. ~(From(j) \subseteq From(m) /\ From(j) # From(m))
    <3>1. From(j) \in F /\ From(j) \in SUBSET S /\ From(m) \in SUBSET S
      OBVIOUS
    <3>2. <<From(j), From(m)>> \notin StrictSubsetOrdering(S)
      BY <1>4, <1>5, <3>1
    <3> HIDE DEF From
    <3> QED
      BY <3>1, <3>2 DEF StrictSubsetOrdering
  <2>2. CASE m < j
    <3>1. From(j) \subseteq From(m) /\ m \in From(m) /\ m \notin From(j)
      BY <1>0, <2>2
    <3> QED
      BY <2>1, <3>1
  <2> QED
    BY <1>0, <2>2
<1> QED
  BY <1>6

\* A table without ids is the empty table.
LEMMA EmptyTable == TableKept => (users = <<>> <=> DOMAIN users = {})
  BY DEF TableKept

\* A new row overwrites no other.
LEMMA NewIdNew == TableKept => NewId \notin DOMAIN users
<1> SUFFICES ASSUME TableKept PROVE NewId \notin DOMAIN users
  OBVIOUS
<1>1. DOMAIN users \in SUBSET Ids /\ \A i \in DOMAIN users : i \in Nat
  BY DEF TableKept, Ids
<1>2. CASE users = <<>>
  BY <1>2, EmptyTable
<1>3. CASE users # <<>>
  <2> DEFINE Last(i) == \A j \in DOMAIN users : j <= i
  <2>1. \E i \in DOMAIN users : Last(i)
    BY <1>1, <1>3, EmptyTable, LargestId
  <2>2. NewId = 1 + (CHOOSE i \in DOMAIN users : Last(i))
    BY <1>3 DEF NewId
  <2> HIDE DEF Last
  <2>3. PICK i \in DOMAIN users : Last(i) /\ NewId = 1 + i
    BY <2>1, <2>2
  <2> QED
    BY <1>1, <2>3 DEF Last
<1> QED
  BY <1>2, <1>3

\* What the invariant says is what TypeOK says, and more.
LEMMA InvTypes == AccountsInv => TypeOK
<1> SUFFICES ASSUME AccountsInv PROVE TypeOK
  OBVIOUS
<1>1. req \in [Workers -> ReqRec] /\ firsts \in 0 .. 2
  BY DEF AccountsInv, RequestsSane, FirstMarked
<1> QED
  BY <1>1, AccountsAssumption
     DEF AccountsInv, TypeOK, ReqRec, TableKept, TokensKept, SocketsKept, ProcessKept

\* The server starts without requests, tokens and sockets.
LEMMA InvInit == Init => AccountsInv
<1> SUFFICES ASSUME Init PROVE AccountsInv
  OBVIOUS
<1>1. RequestsSane
  <2>1. Idle \in ReqRec /\ Sane(Idle, Tokens)
    BY AccountsAssumption DEF Idle, ReqRec, Sane, NoRow, LoadedRow
  <2> QED
    BY <2>1 DEF Init, RequestsSane
<1>2. TableKept
  <2>1. PICK S \in {{}, {1}, {1, 2}} :
          users \in [S -> [name: Names, role: IF hasRole THEN Roles ELSE {"none"}]]
    BY DEF Init
  <2>2. DOMAIN users = S /\ S \subseteq Ids
    BY <2>1, AccountsAssumption DEF Ids
  <2>3. \A i \in S : users[i] \in Row /\ (hasRole => users[i].role \in Roles)
    BY <2>1 DEF Row
  <2> QED
    BY <2>1, <2>2, <2>3 DEF Init, TableKept
<1>3. TokensKept
  <2>1. Tokens = {} /\ sub = <<>>
    BY DEF Init
  <2>2. Cardinality(Tokens) = 0
    BY <2>1, FS_EmptySet
  <2>3. <<>> \in [1 .. 0 -> Ids]
    OBVIOUS
  <2> QED
    BY <2>1, <2>2, <2>3, AccountsAssumption DEF Init, TokensKept
<1>4. SocketsKept
  BY AccountsAssumption DEF Init, SocketsKept, RevokedRefused, Closed
<1>5. UniqueNames /\ FirstMarked
  BY DEF Init, UniqueNames, FirstMarked
<1>6. AdminOrNobody
  BY DEF Init, AdminOrNobody, Serving
<1>7. ProcessKept
  BY DEF Init, ProcessKept, Idle
<1> QED
  BY <1>1, <1>2, <1>3, <1>4, <1>5, <1>6, <1>7 DEF AccountsInv

\* An idle worker holds nothing.
LEMMA IdleSane == Idle \in ReqRec /\ Sane(Idle, Tokens)
  BY AccountsAssumption DEF Idle, ReqRec, Sane, NoRow, LoadedRow

\* A worker that goes on with a sane record keeps the requests sane.
LEMMA StepSane ==
  ASSUME RequestsSane, NEW w \in Workers, NEW r \in ReqRec, Sane(r, Tokens), Step(w, r),
         UNCHANGED sub
  PROVE  RequestsSane'
  BY DEF RequestsSane, Step

\* The check of create-user, update-user and delete-user: the caller is in the table.
LEMMA CallerKnown ==
  ASSUME TableKept, TokensKept, hasRole, NEW t \in Tokens, Authentic(t)
  PROVE  /\ sub[t] \in DOMAIN users /\ users[sub[t]] \in Row
         /\ users[sub[t]].role \in Roles /\ users[sub[t]].name \in Names
         /\ t \in 1 .. MaxTokens
<1>1. sub[t] \in DOMAIN users
  BY DEF Authentic, Known
<1>2. Cardinality(Tokens) \in 0 .. MaxTokens /\ Tokens = 1 .. Cardinality(Tokens)
  BY DEF TokensKept
<1>3. t \in 1 .. MaxTokens
  BY <1>2, AccountsAssumption
<1> QED
  BY <1>1, <1>3 DEF TableKept, Row

\* No step of a request leaves it with something it has not established.
LEMMA RequestKeepsSane ==
  ASSUME AccountsInv, NEW w \in Workers, Request(w)
  PROVE  RequestsSane'
<1> DEFINE r0 == req[w]
<1>1. /\ RequestsSane /\ TableKept /\ TokensKept
      /\ r0 \in ReqRec /\ Sane(r0, Tokens) /\ Idle \in ReqRec /\ Sane(Idle, Tokens)
  BY IdleSane DEF AccountsInv, RequestsSane
<1>2. CASE CreateFirst(w)
  <2>1. [Idle EXCEPT !.pc = "lockwait"] \in ReqRec
    BY <1>1 DEF ReqRec, Idle
  <2>2. Sane([Idle EXCEPT !.pc = "lockwait"], Tokens)
    BY DEF Sane, Idle, NoRow
  <2> QED
    BY <1>1, <1>2, <2>1, <2>2, StepSane DEF CreateFirst
<1>3. CASE TakeLock(w)
  <2>1. [r0 EXCEPT !.pc = "recheck"] \in ReqRec /\ Sane([r0 EXCEPT !.pc = "recheck"], Tokens)
    BY <1>1 DEF ReqRec, Sane
  <2> QED
    BY <1>1, <1>3, <2>1, StepSane DEF TakeLock
<1>4. CASE Recheck(w)
  <2>1. [r0 EXCEPT !.pc = "first"] \in ReqRec /\ Sane([r0 EXCEPT !.pc = "first"], Tokens)
    BY <1>1 DEF ReqRec, Sane
  <2> QED
    BY <1>1, <1>4, <2>1, StepSane DEF Recheck
<1>5. CASE InsertFirst(w) \/ Insert(w) \/ CommitError(w) \/ WrongPassword(w) \/ Remove(w)
  <2>1. Step(w, Idle) /\ UNCHANGED sub
    BY <1>5 DEF InsertFirst, Insert, CommitError, WrongPassword, Remove, Refuse
  <2> QED
    BY <1>1, <2>1, StepSane
<1>6. ASSUME NEW t \in Tokens, NEW r \in Roles, CreateStart(w, t, r) PROVE RequestsSane'
  <2>1. PICK n \in Names :
          Step(w, [Idle EXCEPT !.pc = "name", !.me = users[sub[t]].role,
                               !.new = [name |-> n, role |-> r]])
    BY <1>6 DEF CreateStart
  <2> DEFINE new == [Idle EXCEPT !.pc = "name", !.me = users[sub[t]].role,
                                 !.new = [name |-> n, role |-> r]]
  <2>2. users[sub[t]].role = "admin"
    BY <1>6 DEF CreateStart, MayCreate
  <2>3. new \in ReqRec /\ Sane(new, Tokens)
    <3> DEFINE row == [name |-> n, role |-> r]
    <3>1. row \in LoadedRow /\ row.name \in Names /\ row.role \in Roles
      BY DEF LoadedRow
    <3>2. "admin" \in Roles
      BY DEF Roles
    <3> HIDE DEF row
    <3>3. [Idle EXCEPT !.pc = "name", !.me = "admin", !.new = row] \in ReqRec
      BY <1>1, <3>1, <3>2 DEF ReqRec, Idle
    <3>4. Sane([Idle EXCEPT !.pc = "name", !.me = "admin", !.new = row], Tokens)
      BY <3>1 DEF Sane, Idle
    <3> QED
      BY <2>2, <3>3, <3>4 DEF row
  <2> QED
    BY <1>1, <1>6, <2>1, <2>3, StepSane DEF CreateStart
<1>7. CASE CheckName(w)
  <2>1. r0.pc = "name"
    BY <1>7 DEF CheckName, At
  <2>2. [r0 EXCEPT !.pc = "insert"] \in ReqRec /\ Sane([r0 EXCEPT !.pc = "insert"], Tokens)
    BY <1>1, <2>1 DEF ReqRec, Sane
  <2> QED
    BY <1>1, <1>7, <2>2, StepSane DEF CheckName
<1>8. ASSUME NEW t \in Tokens, NEW i \in Ids, UpdateStart(w, t, i) PROVE RequestsSane'
  <2> DEFINE was == IF sub[t] = i THEN users[i] ELSE NoRow
  <2> DEFINE tok == IF sub[t] = i THEN t ELSE 0
  <2> DEFINE new == [Idle EXCEPT !.pc = "load", !.id = i, !.me = users[sub[t]].role,
                                 !.was = was, !.tok = tok]
  <2>1. hasRole /\ Authentic(t) /\ Step(w, new) /\ UNCHANGED sub
    BY <1>8 DEF UpdateStart, MayStart, At, Serving
  <2>2. users[sub[t]] \in Row /\ users[sub[t]].role \in Roles /\ t \in 1 .. MaxTokens
    BY <1>1, <2>1, CallerKnown
  <2>3. was \in LoadedRow /\ (tok # 0 => was.role \in Roles) /\ tok \in 0 .. MaxTokens
        /\ tok \in Tokens \cup {0} /\ i \in 0 .. MaxId
    BY <2>2, AccountsAssumption DEF LoadedRow, Row, NoRow, Ids
  <2> HIDE DEF was, tok
  <2>4. new \in ReqRec
    BY <1>1, <2>2, <2>3 DEF ReqRec, Idle
  <2>5. Sane(new, Tokens)
    BY <2>3 DEF Sane, Idle, NoRow
  <2> QED
    BY <1>1, <2>1, <2>4, <2>5, StepSane
<1>9. ASSUME NEW t \in Tokens, NEW i \in Ids, DeleteStart(w, t, i) PROVE RequestsSane'
  <2> DEFINE tok == IF sub[t] = i THEN t ELSE 0
  <2> DEFINE new == [Idle EXCEPT !.pc = "find", !.me = users[sub[t]].role, !.id = i,
                                 !.tok = tok, !.seen = Admins]
  <2>1. hasRole /\ Authentic(t) /\ Step(w, new) /\ UNCHANGED sub
    BY <1>9 DEF DeleteStart, MayStart, At, Serving
  <2>2. sub[t] \in DOMAIN users /\ users[sub[t]].role \in Roles /\ t \in 1 .. MaxTokens
    BY <1>1, <2>1, CallerKnown
  <2>3. tok \in 0 .. MaxTokens /\ tok \in Tokens \cup {0} /\ i \in 0 .. MaxId
    BY <2>2, AccountsAssumption DEF Ids
  <2>4. Admins \in SUBSET Ids
    BY <1>1 DEF Admins, TableKept
  <2>5. users[sub[t]].role = "admin" /\ tok = 0 => \E j \in Admins : j # i
    BY <2>2 DEF Admins
  <2> HIDE DEF tok
  <2>6. new \in ReqRec
    BY <1>1, <2>2, <2>3, <2>4 DEF ReqRec, Idle
  <2>7. Sane(new, Tokens)
    BY <2>3, <2>5 DEF Sane, Idle, NoRow, OtherAdmin
  <2> QED
    BY <1>1, <2>1, <2>6, <2>7, StepSane
<1>10. CASE LoadTarget(w)
  <2> DEFINE row == IF IsSelf(w) THEN r0.was
                    ELSE IF r0.id \in DOMAIN users THEN users[r0.id] ELSE NoRow
  <2> DEFINE new == [r0 EXCEPT !.pc = "role", !.was = row]
  <2>1. r0.pc = "load" /\ hasRole /\ UNCHANGED sub
    BY <1>10 DEF LoadTarget, At, Serving
  <2>2. Step(w, Idle) \/ (row # NoRow /\ Step(w, new))
    BY <1>10 DEF LoadTarget
  <2>3. ASSUME row # NoRow PROVE row \in LoadedRow /\ row.role \in Roles
    <3>1. CASE IsSelf(w)
      BY <1>1, <2>1, <3>1 DEF IsSelf, Sane, ReqRec
    <3>2. CASE ~IsSelf(w) /\ r0.id \in DOMAIN users
      BY <1>1, <2>1, <3>2 DEF TableKept, Row, LoadedRow
    <3> QED
      BY <2>3, <3>1, <3>2
  <2> HIDE DEF row
  <2>4. row # NoRow => new \in ReqRec
    BY <1>1, <2>3 DEF ReqRec
  <2>5. new.pc = "role" /\ new.tok = r0.tok /\ new.was = row /\ new.new = r0.new
    BY <1>1 DEF ReqRec
  <2>6. row # NoRow => Sane(new, Tokens)
    BY <1>1, <2>1, <2>3, <2>5 DEF Sane
  <2> QED
    BY <1>1, <2>1, <2>2, <2>4, <2>6, StepSane
<1>11. ASSUME NEW r \in Roles, SetRole(w, r) PROVE RequestsSane'
  <2> DEFINE role == IF r = r0.was.role THEN "none" ELSE r
  <2> DEFINE seen == IF r = "user" THEN Admins ELSE {}
  <2> DEFINE new == [r0 EXCEPT !.pc = "rename", !.was.role = "none", !.new.role = role,
                               !.seen = seen]
  <2>1. r0.pc = "role" /\ UNCHANGED sub
    BY <1>11 DEF SetRole, At
  <2>2. Step(w, Idle) \/ (r0.me = "admin" /\ MaySetRole(r0.was, r) /\ Step(w, new))
    BY <1>11 DEF SetRole, ByAdmin
  <2>3. Admins \in SUBSET Ids
    BY <1>1 DEF Admins, TableKept
  <2>4. ASSUME MaySetRole(r0.was, r), role = "user" PROVE \E j \in seen : j # r0.id
    <3>1. r = "user" /\ r0.was.role = "admin"
      BY <1>1, <2>1, <2>4 DEF Sane, Roles
    <3>2. Cardinality(Admins) > 1 /\ seen = Admins
      BY <2>4, <3>1 DEF MaySetRole
    <3>3. IsFiniteSet({r0.id}) /\ Cardinality({r0.id}) = 1
      BY FS_Singleton
    <3>4. ~(Admins \subseteq {r0.id})
      <4> SUFFICES ASSUME Admins \in SUBSET {r0.id} PROVE FALSE
        OBVIOUS
      <4>1. Cardinality(Admins) <= 1
        BY <3>3, FS_Subset
      <4>2. Cardinality(Admins) \in Nat
        BY <3>3, FS_Subset, FS_CardinalityType
      <4> QED
        BY <3>2, <4>1, <4>2
    <3> QED
      BY <3>2, <3>4
  <2>5. role \in Roles \cup {"none"} /\ seen \in SUBSET Ids
    BY <2>3
  <2> HIDE DEF role, seen
  <2>6. r0.was \in LoadedRow /\ r0.new \in LoadedRow
    BY <1>1 DEF ReqRec
  <2>7. [r0.was EXCEPT !.role = "none"] \in LoadedRow /\ [r0.new EXCEPT !.role = role] \in LoadedRow
    BY <2>5, <2>6 DEF LoadedRow
  <2>8. new = [r0 EXCEPT !.pc = "rename", !.was = [r0.was EXCEPT !.role = "none"],
                         !.new = [r0.new EXCEPT !.role = role], !.seen = seen]
    BY <1>1 DEF ReqRec
  <2>9. new \in ReqRec
    BY <1>1, <2>5, <2>7, <2>8 DEF ReqRec
  <2>10. new.pc = "rename" /\ new.tok = r0.tok /\ new.me = r0.me /\ new.id = r0.id
         /\ new.seen = seen /\ new.new.role = role
    BY <1>1, <2>6, <2>8 DEF ReqRec, LoadedRow
  <2>11. r0.me = "admin" /\ MaySetRole(r0.was, r) => Sane(new, Tokens)
    BY <1>1, <2>4, <2>10 DEF Sane, OtherAdmin
  <2> QED
    BY <1>1, <2>1, <2>2, <2>9, <2>11, StepSane
<1>12. CASE KeepRole(w)
  <2> DEFINE new == [r0 EXCEPT !.pc = "rename", !.was.role = "none"]
  <2>1. r0.pc = "role" /\ Step(w, new) /\ UNCHANGED sub
    BY <1>12 DEF KeepRole, At
  <2>2. r0.was \in LoadedRow
    BY <1>1 DEF ReqRec
  <2>3. [r0.was EXCEPT !.role = "none"] \in LoadedRow
    BY <2>2 DEF LoadedRow
  <2>4. new = [r0 EXCEPT !.pc = "rename", !.was = [r0.was EXCEPT !.role = "none"]]
    BY <1>1 DEF ReqRec
  <2>5. new \in ReqRec
    BY <1>1, <2>3, <2>4 DEF ReqRec
  <2>6. new.pc = "rename" /\ new.tok = r0.tok /\ new.new.role = "none"
    BY <1>1, <2>1 DEF Sane, ReqRec
  <2>7. Sane(new, Tokens)
    BY <1>1, <2>1, <2>6 DEF Sane
  <2> QED
    BY <1>1, <2>1, <2>5, <2>7, StepSane
<1>13. ASSUME NEW n \in Names, SetName(w, n) PROVE RequestsSane'
  <2> DEFINE name == IF n = r0.was.name THEN "none" ELSE n
  <2> DEFINE new == [r0 EXCEPT !.pc = "save", !.was = NoRow, !.new.name = name]
  <2>1. r0.pc = "rename" /\ UNCHANGED sub
    BY <1>13 DEF SetName, At
  <2>2. Step(w, Idle) \/ Step(w, new)
    BY <1>13 DEF SetName
  <2>3. name \in Names \cup {"none"}
    OBVIOUS
  <2> HIDE DEF name
  <2>4. r0.new \in LoadedRow /\ NoRow \in LoadedRow
    BY <1>1 DEF ReqRec, LoadedRow, NoRow
  <2>5. [r0.new EXCEPT !.name = name] \in LoadedRow
    BY <2>3, <2>4 DEF LoadedRow
  <2>6. new = [r0 EXCEPT !.pc = "save", !.was = NoRow,
                         !.new = [r0.new EXCEPT !.name = name]]
    BY <1>1 DEF ReqRec
  <2>7. new \in ReqRec
    BY <1>1, <2>4, <2>5, <2>6 DEF ReqRec
  <2>8. new.pc = "save" /\ new.tok = r0.tok /\ new.me = r0.me /\ new.id = r0.id
        /\ new.seen = r0.seen /\ new.new.role = r0.new.role
    BY <1>1, <2>4, <2>6 DEF ReqRec, LoadedRow
  <2>9. Sane(new, Tokens)
    BY <1>1, <2>1, <2>8 DEF Sane, OtherAdmin
  <2> QED
    BY <1>1, <2>1, <2>2, <2>7, <2>9, StepSane
<1>14. CASE KeepName(w)
  <2> DEFINE new == [r0 EXCEPT !.pc = "save", !.was = NoRow]
  <2>1. r0.pc = "rename" /\ Step(w, new) /\ UNCHANGED sub
    BY <1>14 DEF KeepName, At
  <2>2. new \in ReqRec
    BY <1>1 DEF ReqRec, LoadedRow, NoRow
  <2>3. new.pc = "save" /\ new.tok = r0.tok /\ new.me = r0.me /\ new.id = r0.id
        /\ new.seen = r0.seen /\ new.new = r0.new
    BY <1>1 DEF ReqRec
  <2>4. Sane(new, Tokens)
    BY <1>1, <2>1, <2>3 DEF Sane, OtherAdmin
  <2> QED
    BY <1>1, <2>1, <2>2, <2>4, StepSane
<1>15. ASSUME NEW p \in BOOLEAN, Save(w, p) PROVE RequestsSane'
  <2> DEFINE new == [Idle EXCEPT !.pc = "revoke", !.tok = r0.tok]
  <2>1. UNCHANGED sub /\ (Step(w, Idle) \/ (r0.tok # 0 /\ Step(w, new)))
    BY <1>15 DEF Save, IsSelf
  <2>2. r0.tok # 0 => new \in ReqRec /\ Sane(new, Tokens)
    BY <1>1 DEF ReqRec, Sane, Idle, NoRow
  <2> QED
    BY <1>1, <2>1, <2>2, StepSane
<1>16. CASE RevokeOwn(w)
  BY <1>1, <1>16, StepSane DEF RevokeOwn
<1>17. CASE DeleteFind(w)
  <2> DEFINE new == [r0 EXCEPT !.pc = "remove"]
  <2>1. r0.pc = "find" /\ UNCHANGED sub
    BY <1>17 DEF DeleteFind, At
  <2>2. Step(w, Idle) \/ (r0.me = "admin" /\ r0.tok = 0 /\ Step(w, new))
    BY <1>17 DEF DeleteFind, ByAdmin, IsSelf
  <2>3. r0.me = "admin" /\ r0.tok = 0 => new \in ReqRec /\ Sane(new, Tokens)
    BY <1>1, <2>1 DEF ReqRec, Sane, OtherAdmin
  <2> QED
    BY <1>1, <2>1, <2>2, <2>3, StepSane
<1> QED
  BY <1>2, <1>3, <1>4, <1>5, <1>6, <1>7, <1>8, <1>9, <1>10, <1>11, <1>12, <1>13, <1>14,
     <1>15, <1>16, <1>17 DEF Request

\* What changes the table, its marker and the count of first accounts.
LEMMA TableFootprint ==
  ASSUME [Next]_vars
  PROVE  \/ Migrate \/ Repair
         \/ \E w \in Workers :
              InsertFirst(w) \/ Insert(w) \/ Remove(w) \/ \E p \in BOOLEAN : Save(w, p)
         \/ UNCHANGED <<users, marker, hasRole, firsts>>
<1>1. CASE Process
  BY <1>1 DEF Process, Boot, BootError, Die
<1>2. CASE Token
  BY <1>2 DEF Token, Login, Logout
<1>3. ASSUME NEW w \in Workers, Request(w)
      PROVE  \/ InsertFirst(w) \/ Insert(w) \/ Remove(w) \/ \E p \in BOOLEAN : Save(w, p)
             \/ UNCHANGED <<users, marker, hasRole, firsts>>
  BY <1>3, ZenonT(30)
     DEF Request, CreateFirst, TakeLock, Recheck, CreateStart, CheckName, CommitError,
         UpdateStart, DeleteStart, LoadTarget, KeepRole, KeepName, SetRole, SetName,
         WrongPassword, RevokeOwn, DeleteFind, Refuse
<1>4. ASSUME NEW s \in Sockets, Socket(s) PROVE UNCHANGED <<users, marker, hasRole, firsts>>
  BY <1>4 DEF Socket, Connect, Reauth, Disconnect, Receive, Verify, Respond, SetSock
<1> QED
  BY <1>1, <1>2, <1>3, <1>4 DEF Next

\* What changes the tokens and the sessions of the debug socket.
LEMMA TokenFootprint ==
  ASSUME [Next]_vars
  PROVE  \/ Die
         \/ \E i \in Ids : Login(i)
         \/ \E t \in Tokens : Logout(t)
         \/ \E w \in Workers : RevokeOwn(w)
         \/ \E s \in Sockets : Socket(s)
         \/ UNCHANGED <<sub, revoked, sock>>
<1>1. CASE Process
  BY <1>1 DEF Process, Boot, BootError, Migrate, Repair
<1>2. ASSUME NEW w \in Workers, Request(w)
      PROVE  RevokeOwn(w) \/ UNCHANGED <<sub, revoked, sock>>
  BY <1>2, ZenonT(30)
     DEF Request, CreateFirst, TakeLock, Recheck, InsertFirst, CreateStart, CheckName, Insert,
         CommitError, UpdateStart, DeleteStart, LoadTarget, KeepRole, KeepName, SetRole,
         SetName, Save, WrongPassword, DeleteFind, Remove, Refuse
<1> QED
  BY <1>1, <1>2 DEF Next, Token

\* A row that is put into the table: where it goes, and what is there then.
LEMMA PutRow ==
  ASSUME TableKept, NEW i \in Ids, NEW row \in Row, users' = Put(i, row)
  PROVE  /\ DOMAIN users' = DOMAIN users \cup {i} /\ DOMAIN users' \subseteq Ids
         /\ users' \in [DOMAIN users' -> Row] /\ users'[i] = row
         /\ \A j \in DOMAIN users \ {i} : users'[j] = users[j]
  BY DEF Put, TableKept

\* A complete row under a name that no other row has keeps the table sound.
LEMMA PutSound ==
  ASSUME TableKept, UniqueNames, NEW i \in Ids, NEW row \in Row, row.role \in Roles,
         \A j \in DOMAIN users \ {i} : users[j].name # row.name,
         users' = Put(i, row), hasRole' = hasRole, marker' \in BOOLEAN
  PROVE  TableKept' /\ UniqueNames'
<1>1. /\ DOMAIN users' = DOMAIN users \cup {i} /\ DOMAIN users' \subseteq Ids
      /\ users' \in [DOMAIN users' -> Row] /\ users'[i] = row
      /\ \A j \in DOMAIN users \ {i} : users'[j] = users[j]
  BY PutRow
<1>2. TableKept'
  BY <1>1 DEF TableKept
<1>3. UniqueNames'
  BY <1>1 DEF UniqueNames
<1> QED
  BY <1>2, <1>3

\* No step spoils the table: its rows, its names and the one first account.
LEMMA TableNext ==
  ASSUME AccountsInv, [Next]_vars
  PROVE  TableKept' /\ UniqueNames' /\ FirstMarked'
<1>1. TableKept /\ UniqueNames /\ FirstMarked /\ RequestsSane
  BY DEF AccountsInv
<1>2. CASE Migrate
  <2>1. TableKept'
    <3>1. DOMAIN users' = DOMAIN users /\ hasRole' = TRUE /\ marker' = marker
      BY <1>2 DEF Migrate
    <3>2. ASSUME NEW i \in DOMAIN users PROVE users'[i] \in Row /\ users'[i].role \in Roles
      BY <1>1, <1>2 DEF Migrate, TableKept, Row, Roles
    <3>3. users' \in [DOMAIN users -> Row]
      BY <1>2, <3>2 DEF Migrate
    <3> QED
      BY <1>1, <3>1, <3>2, <3>3 DEF TableKept
  <2>2. UniqueNames'
    <3>1. DOMAIN users' = DOMAIN users
      BY <1>2 DEF Migrate
    <3>2. ASSUME NEW i \in DOMAIN users PROVE users'[i].name = users[i].name
      BY <1>1, <1>2 DEF Migrate, TableKept, Row
    <3> QED
      BY <1>1, <3>1, <3>2 DEF UniqueNames
  <2> QED
    BY <1>1, <1>2, <2>1, <2>2 DEF Migrate, FirstMarked
<1>3. CASE Repair
  <2>1. CASE users' = [i \in DOMAIN users |-> [users[i] EXCEPT !.role = "admin"]]
    <3>1. DOMAIN users' = DOMAIN users /\ hasRole' = hasRole /\ marker' = marker
      BY <1>3, <2>1 DEF Repair
    <3>2. ASSUME NEW i \in DOMAIN users
          PROVE  users'[i] \in Row /\ users'[i].role \in Roles /\ users'[i].name = users[i].name
      BY <1>1, <2>1 DEF TableKept, Row, Roles
    <3>3. users' \in [DOMAIN users -> Row]
      BY <2>1, <3>2
    <3>4. TableKept'
      BY <1>1, <3>1, <3>2, <3>3 DEF TableKept
    <3>5. UniqueNames'
      BY <1>1, <3>1, <3>2 DEF UniqueNames
    <3> QED
      BY <1>1, <1>3, <3>4, <3>5 DEF Repair, FirstMarked
  <2>2. CASE users' = users
    BY <1>1, <1>3, <2>2 DEF Repair, TableKept, UniqueNames, FirstMarked
  <2> QED
    BY <1>3, <2>1, <2>2 DEF Repair
<1>4. ASSUME NEW w \in Workers, InsertFirst(w) PROVE TableKept' /\ UniqueNames' /\ FirstMarked'
  <2>1. CASE UNCHANGED <<users, marker, firsts>>
    BY <1>1, <1>4, <2>1 DEF InsertFirst, TableKept, UniqueNames, FirstMarked
  <2>2. ASSUME NEW n \in Names, ~marker, ~NameTaken(n), NewId \in Ids,
               users' = Put(NewId, [name |-> n, role |-> "admin"]), marker' = TRUE,
               firsts' = firsts + 1
        PROVE  TableKept' /\ UniqueNames' /\ FirstMarked'
    <3> DEFINE row == [name |-> n, role |-> "admin"]
    <3>1. row \in Row /\ row.role \in Roles
      BY DEF Row, Roles
    <3>2. \A j \in DOMAIN users : users[j].name # row.name
      BY <2>2 DEF NameTaken
    <3>3. TableKept' /\ UniqueNames'
      BY <1>1, <1>4, <2>2, <3>1, <3>2, PutSound DEF InsertFirst
    <3> QED
      BY <1>1, <2>2, <3>3 DEF FirstMarked
  <2> QED
    BY <1>4, <2>1, <2>2 DEF InsertFirst
<1>5. ASSUME NEW w \in Workers, Insert(w) PROVE TableKept' /\ UniqueNames' /\ FirstMarked'
  <2> DEFINE row == req[w].new
  <2>1. row \in LoadedRow /\ row.name \in Names /\ row.role \in Roles
    BY <1>1, <1>5 DEF Insert, At, RequestsSane, Sane, ReqRec
  <2>2. row \in Row
    BY <2>1 DEF LoadedRow, Row
  <2>3. \A j \in DOMAIN users : users[j].name # row.name
    BY <1>5 DEF Insert, Insertable, NameTaken
  <2>4. TableKept' /\ UniqueNames'
    BY <1>1, <1>5, <2>1, <2>2, <2>3, PutSound DEF Insert, Insertable, TableKept
  <2> QED
    BY <1>1, <1>5, <2>4 DEF Insert, FirstMarked
<1>6. ASSUME NEW w \in Workers, NEW p \in BOOLEAN, Save(w, p)
      PROVE  TableKept' /\ UniqueNames' /\ FirstMarked'
  <2> DEFINE i == req[w].id
  <2> DEFINE row == Flushed(users[i], req[w].new)
  <2>1. i \in DOMAIN users /\ hasRole /\ (\A j \in DOMAIN users \ {i} : users[j].name # row.name)
        /\ users' = Put(i, row) /\ UNCHANGED <<marker, hasRole, firsts>>
    BY <1>6 DEF Save, At, Serving
  <2>2. i \in Ids /\ users[i] \in Row /\ users[i].role \in Roles /\ req[w].new \in LoadedRow
    BY <1>1, <2>1 DEF TableKept, RequestsSane, ReqRec
  <2>3. row \in Row /\ row.role \in Roles
    BY <2>2 DEF Flushed, Row, LoadedRow
  <2> HIDE DEF row
  <2>4. TableKept' /\ UniqueNames'
    BY <1>1, <2>1, <2>2, <2>3, PutSound DEF TableKept
  <2> QED
    BY <1>1, <2>1, <2>4 DEF FirstMarked
<1>7. ASSUME NEW w \in Workers, Remove(w) PROVE TableKept' /\ UniqueNames' /\ FirstMarked'
  <2>1. /\ users' = [j \in DOMAIN users \ {req[w].id} |-> users[j]]
        /\ UNCHANGED <<marker, hasRole, firsts>>
    BY <1>7 DEF Remove
  <2> QED
    BY <1>1, <2>1 DEF TableKept, UniqueNames, FirstMarked
<1>8. CASE UNCHANGED <<users, marker, hasRole, firsts>>
  BY <1>1, <1>8 DEF TableKept, UniqueNames, FirstMarked
<1> QED
  BY <1>2, <1>3, <1>4, <1>5, <1>6, <1>7, <1>8, TableFootprint

\* A request makes a row for an admin only on a table that has one.
LEMMA RowsNeedTable ==
  ASSUME AccountsInv, NEW w \in Workers, Request(w)
  PROVE  /\ Serving /\ UNCHANGED up /\ req' \in [Workers -> ReqRec]
         /\ \A v \in Workers \ {w} : req'[v] = req[v]
         /\ req'[w].pc \in {"name", "insert"} => req[w].pc = "name" \/ users # <<>>
<1>1. req \in [Workers -> ReqRec]
  BY DEF AccountsInv, RequestsSane
<1>2. Serving /\ UNCHANGED up
  BY ZenonT(30)
     DEF Request, CreateFirst, TakeLock, Recheck, InsertFirst, CreateStart, CheckName, Insert,
         CommitError, UpdateStart, DeleteStart, LoadTarget, KeepRole, KeepName, SetRole,
         SetName, Save, WrongPassword, DeleteFind, Remove, RevokeOwn, Refuse, MayStart, At
<1>3. \E r : Step(w, r)
  BY ZenonT(30)
     DEF Request, CreateFirst, TakeLock, Recheck, InsertFirst, CreateStart, CheckName, Insert,
         CommitError, UpdateStart, DeleteStart, LoadTarget, KeepRole, KeepName, SetRole,
         SetName, Save, WrongPassword, DeleteFind, Remove, RevokeOwn, Refuse
<1>4. ASSUME req'[w].pc \in {"name", "insert"}, users = <<>> PROVE req[w].pc = "name"
  <2>1. Idle.pc = "idle"
    BY DEF Idle
  <2>2. CASE CreateFirst(w) \/ TakeLock(w) \/ Recheck(w) \/ InsertFirst(w)
    BY <1>1, <1>4, <2>1, <2>2
       DEF CreateFirst, TakeLock, Recheck, InsertFirst, Idle, ReqRec, Step
  <2>3. CASE Insert(w) \/ CommitError(w) \/ WrongPassword(w) \/ RevokeOwn(w) \/ Remove(w)
    BY <1>1, <1>4, <2>1, <2>3
       DEF Insert, CommitError, WrongPassword, RevokeOwn, Remove, Refuse, Step
  <2>4. CASE CheckName(w)
    BY <2>4 DEF CheckName, At
  <2>5. ASSUME NEW t \in Tokens, NEW i \in Ids, UpdateStart(w, t, i) \/ DeleteStart(w, t, i)
        PROVE  FALSE
    <3>1. req'[w].pc = "load" \/ req'[w].pc = "find"
      <4>1. CASE UpdateStart(w, t, i)
        BY <1>1, <4>1 DEF UpdateStart, Idle, Step
      <4>2. CASE DeleteStart(w, t, i)
        BY <1>1, <4>2 DEF DeleteStart, Idle, Step
      <4> QED
        BY <2>5, <4>1, <4>2
    <3> QED
      BY <1>4, <3>1
  <2>6. CASE LoadTarget(w)
    BY <1>1, <1>4, <2>1, <2>6 DEF LoadTarget, ReqRec, Step
  <2>7. CASE KeepRole(w) \/ KeepName(w)
    BY <1>1, <1>4, <2>7 DEF KeepRole, KeepName, ReqRec, Step
  <2>8. CASE DeleteFind(w)
    BY <1>1, <1>4, <2>1, <2>8 DEF DeleteFind, ReqRec, Step
  <2>9. ASSUME NEW r \in Roles, SetRole(w, r) PROVE FALSE
    <3> DEFINE role == IF r = req[w].was.role THEN "none" ELSE r
    <3> DEFINE seen == IF r = "user" THEN Admins ELSE {}
    <3> DEFINE new == [req[w] EXCEPT !.pc = "rename", !.was.role = "none",
                                     !.new.role = role, !.seen = seen]
    <3>1. Step(w, Idle) \/ Step(w, new)
      BY <2>9 DEF SetRole
    <3> HIDE DEF role, seen
    <3>2. new.pc = "rename"
      BY <1>1 DEF ReqRec
    <3> HIDE DEF new
    <3> QED
      BY <1>1, <1>4, <2>1, <3>1, <3>2 DEF Step
  <2>10. ASSUME NEW n \in Names, SetName(w, n) PROVE FALSE
    <3> DEFINE name == IF n = req[w].was.name THEN "none" ELSE n
    <3> DEFINE new == [req[w] EXCEPT !.pc = "save", !.was = NoRow, !.new.name = name]
    <3>1. Step(w, Idle) \/ Step(w, new)
      BY <2>10 DEF SetName
    <3> HIDE DEF name
    <3>2. new.pc = "save"
      BY <1>1 DEF ReqRec
    <3> HIDE DEF new
    <3> QED
      BY <1>1, <1>4, <2>1, <3>1, <3>2 DEF Step
  <2>11. ASSUME NEW p \in BOOLEAN, Save(w, p) PROVE FALSE
    BY <1>1, <1>4, <2>1, <2>11 DEF Save, Idle, Step
  <2>12. ASSUME NEW t \in Tokens, NEW r \in Roles, CreateStart(w, t, r) PROVE FALSE
    BY <1>4, <2>12 DEF CreateStart
  <2> QED
    BY <2>2, <2>3, <2>4, <2>5, <2>6, <2>7, <2>8, <2>9, <2>10, <2>11, <2>12 DEF Request
<1>5. req' \in [Workers -> ReqRec]
  BY RequestKeepsSane DEF RequestsSane
<1>6. \A v \in Workers \ {w} : req'[v] = req[v]
  BY <1>1, <1>3 DEF Step
<1> QED
  BY <1>2, <1>4, <1>5, <1>6

\* An admin remains, or its absence is excused: the request that took the last one had
\* seen another, which stayed if the table was still the one it saw.
LEMMA AdminNext == AccountsInv /\ [Next]_vars => AdminOrNobody'
<1> SUFFICES ASSUME AccountsInv, [Next]_vars, Serving', Admins' = {}, ~excused'
             PROVE  users' = <<>> /\ \A w \in Workers : req'[w].pc \notin {"name", "insert"}
  BY DEF AdminOrNobody
<1>1. RequestsSane /\ TableKept /\ AdminOrNobody /\ ProcessKept
  BY DEF AccountsInv
<1>2. TableKept'
  BY TableNext
<1>3. ASSUME NEW w \in Workers, Request(w), users = <<>>, Admins = {}, ~excused
      PROVE  \A v \in Workers : req'[v].pc \notin {"name", "insert"}
  <2>1. Serving /\ \A v \in Workers : req[v].pc \notin {"name", "insert"}
    BY <1>1, <1>3, RowsNeedTable DEF AdminOrNobody
  <2> QED
    BY <1>3, <2>1, RowsNeedTable
<1>4. CASE Migrate
  BY <1>4 DEF Migrate, Serving
<1>5. CASE Repair
  <2>1. \A w \in Workers : req'[w].pc = "idle"
    BY <1>1, <1>5 DEF Repair, ProcessKept
  <2>2. CASE Repairable /\ users' = [i \in DOMAIN users |-> [users[i] EXCEPT !.role = "admin"]]
    <3>1. PICK i : i \in DOMAIN users
      BY <2>2, FS_EmptySet DEF Repairable
    <3>2. users'[i].role = "admin" /\ i \in DOMAIN users'
      BY <1>1, <2>2, <3>1 DEF TableKept, Row
    <3> QED
      BY <3>2 DEF Admins
  <2>3. CASE ~Repairable /\ users' = users /\ excused' = (Admins = {} /\ users # <<>>)
    BY <2>1, <2>3 DEF Admins
  <2> QED
    BY <1>5, <2>2, <2>3 DEF Repair
<1>6. ASSUME NEW w \in Workers, InsertFirst(w)
      PROVE  users' = <<>> /\ \A v \in Workers : req'[v].pc \notin {"name", "insert"}
  <2>1. CASE users' = users
    <3>1. Serving /\ Admins = {} /\ ~excused /\ Request(w)
      BY <1>6, <2>1 DEF InsertFirst, At, Admins, Request
    <3> QED
      BY <1>1, <1>3, <2>1, <3>1 DEF AdminOrNobody
  <2>2. ASSUME NEW n \in Names, NewId \in Ids,
               users' = Put(NewId, [name |-> n, role |-> "admin"])
        PROVE  FALSE
    <3> DEFINE row == [name |-> n, role |-> "admin"]
    <3>1. row \in Row /\ row.role = "admin" /\ users' = Put(NewId, row)
      BY <2>2 DEF Row, Roles
    <3> HIDE DEF row
    <3>2. NewId \in DOMAIN users' /\ users'[NewId].role = "admin"
      BY <1>1, <2>2, <3>1, PutRow
    <3> QED
      BY <3>2 DEF Admins
  <2> QED
    BY <1>6, <2>1, <2>2 DEF InsertFirst
<1>7. ASSUME NEW w \in Workers, Insert(w) PROVE FALSE
  <2> DEFINE row == req[w].new
  <2>1. /\ req[w].pc = "insert" /\ Serving /\ NewId \in Ids /\ users' = Put(NewId, row)
        /\ excused' = excused
    BY <1>7 DEF Insert, Insertable, At
  <2>2. row \in Row
    BY <1>1, <2>1 DEF RequestsSane, Sane, ReqRec, LoadedRow, Row, Roles
  <2>3. \A j \in DOMAIN users : j \in DOMAIN users' /\ users'[j] = users[j]
    BY <1>1, <2>1, <2>2, PutRow, NewIdNew
  <2>4. Admins = {}
    BY <2>3 DEF Admins
  <2> QED
    BY <1>1, <2>1, <2>4 DEF AdminOrNobody
<1>8. ASSUME NEW w \in Workers, NEW p \in BOOLEAN, Save(w, p) PROVE FALSE
  <2> DEFINE i == req[w].id
  <2> DEFINE row == Flushed(users[i], req[w].new)
  <2>1. /\ req[w].pc = "save" /\ Serving /\ i \in DOMAIN users /\ users' = Put(i, row)
        /\ excused' = Overtaken(w, Put(i, row))
    BY <1>8 DEF Save, At
  <2>2. i \in Ids /\ users[i] \in Row /\ req[w].new \in LoadedRow
    BY <1>1, <2>1 DEF TableKept, RequestsSane, ReqRec
  <2>3. row \in Row
    BY <2>2 DEF Flushed, Row, LoadedRow
  <2>4. row.role = IF req[w].new.role = "none" THEN users[i].role ELSE req[w].new.role
    BY DEF Flushed
  <2> HIDE DEF row
  <2>5. /\ DOMAIN users' = DOMAIN users /\ users'[i] = row
        /\ \A j \in DOMAIN users \ {i} : users'[j] = users[j]
    BY <1>1, <2>1, <2>2, <2>3, PutRow
  <2>6. \A j \in DOMAIN users' : users'[j].role # "admin"
    BY DEF Admins
  <2>7. Admins # {} /\ Admins = req[w].seen
    <3>1. IF Admins = {} THEN ~excused ELSE Admins = req[w].seen
      BY <2>1, <2>6 DEF Overtaken
    <3>2. users # <<>>
      BY <1>1, <2>1, EmptyTable
    <3> QED
      BY <1>1, <2>1, <3>1, <3>2 DEF AdminOrNobody
  <2>8. i \in Admins /\ row.role # "admin" /\ Admins = {i}
    BY <2>5, <2>6, <2>7 DEF Admins
  <2>9. req[w].new.role = "user"
    BY <2>2, <2>4, <2>8 DEF Admins, LoadedRow, Roles
  <2>10. OtherAdmin(req[w])
    BY <1>1, <2>1, <2>9 DEF RequestsSane, Sane
  <2> QED
    BY <2>7, <2>8, <2>10 DEF OtherAdmin
<1>9. ASSUME NEW w \in Workers, Remove(w)
      PROVE  users' = <<>> /\ \A v \in Workers : req'[v].pc \notin {"name", "insert"}
  <2> DEFINE i == req[w].id
  <2> DEFINE after == [j \in DOMAIN users \ {i} |-> users[j]]
  <2>1. /\ req[w].pc = "remove" /\ Serving /\ users' = after
        /\ excused' = Overtaken(w, after) /\ Request(w)
    BY <1>9 DEF Remove, At, Request
  <2>2. \A j \in DOMAIN users' : users'[j].role # "admin"
    BY DEF Admins
  <2>3. IF Admins = {} THEN ~excused ELSE Admins = req[w].seen
    BY <2>1, <2>2 DEF Overtaken
  <2>4. OtherAdmin(req[w])
    BY <1>1, <2>1 DEF RequestsSane, Sane
  <2>5. Admins = {} /\ ~excused
    <3>1. ASSUME Admins = req[w].seen PROVE FALSE
      <4>1. PICK j \in Admins : j # i
        BY <2>4, <3>1 DEF OtherAdmin
      <4>2. j \in DOMAIN users' /\ users'[j].role = "admin"
        BY <2>1, <4>1 DEF Admins
      <4> QED
        BY <2>2, <4>2
    <3> QED
      BY <2>3, <3>1
  <2>6. users = <<>>
    BY <1>1, <2>1, <2>5 DEF AdminOrNobody
  <2>7. DOMAIN users' = {}
    BY <1>1, <2>1, <2>6, EmptyTable
  <2>8. users' = <<>>
    BY <1>2, <2>7 DEF TableKept
  <2> QED
    BY <1>3, <2>1, <2>5, <2>6, <2>8
<1>10. ASSUME UNCHANGED <<users, marker, hasRole, firsts>>, ~Repair, ~Migrate,
              \A w \in Workers : ~Remove(w) /\ \A p \in BOOLEAN : ~Save(w, p)
       PROVE  users' = <<>> /\ \A w \in Workers : req'[w].pc \notin {"name", "insert"}
  <2>1. Admins = {}
    BY <1>10 DEF Admins
  <2>2. ASSUME NEW w \in Workers, Request(w), UNCHANGED excused
        PROVE  users' = <<>> /\ \A v \in Workers : req'[v].pc \notin {"name", "insert"}
    <3>1. Serving
      BY <2>2, RowsNeedTable
    <3>2. users = <<>>
      BY <1>1, <2>1, <2>2, <3>1 DEF AdminOrNobody
    <3> QED
      BY <1>3, <1>10, <2>1, <2>2, <3>2
  <2>3. CASE Process
    BY <1>10, <2>3, Zenon DEF Process, Boot, BootError, Die, Serving
  <2>4. CASE UNCHANGED <<up, req, excused>>
    BY <1>1, <1>10, <2>1, <2>4 DEF AdminOrNobody, Serving
  <2>5. ASSUME NEW w \in Workers, Request(w) PROVE UNCHANGED excused
    BY <1>10, <2>5, ZenonT(30)
       DEF Request, CreateFirst, TakeLock, Recheck, InsertFirst, CreateStart, CheckName,
           Insert, CommitError, UpdateStart, DeleteStart, LoadTarget, KeepRole, KeepName,
           SetRole, SetName, WrongPassword, DeleteFind, RevokeOwn, Refuse
  <2>6. CASE Token \/ \E s \in Sockets : Socket(s)
    <3>1. UNCHANGED <<up, req, excused>>
      BY <2>6, ZenonT(30)
         DEF Token, Login, Logout, Socket, Connect, Reauth, Disconnect, Receive, Verify,
             Respond, SetSock
    <3> QED
      BY <2>4, <3>1
  <2> QED
    BY <2>2, <2>3, <2>4, <2>5, <2>6 DEF Next
<1> QED
  BY <1>4, <1>5, <1>6, <1>7, <1>8, <1>9, <1>10, TableFootprint

\* Tokens are issued in order, and a revoked one stays revoked while the process lives.
LEMMA TokensNext == AccountsInv /\ [Next]_vars => TokensKept' /\ SocketsKept'
<1> SUFFICES ASSUME AccountsInv, [Next]_vars PROVE TokensKept' /\ SocketsKept'
  OBVIOUS
<1>1. TokensKept /\ SocketsKept /\ RequestsSane
  BY DEF AccountsInv
<1>2. CASE Die
  BY <1>1, <1>2, AccountsAssumption DEF Die, TokensKept, SocketsKept, RevokedRefused, Closed
<1>3. ASSUME NEW i \in Ids, Login(i) PROVE TokensKept' /\ SocketsKept'
  <2> DEFINE n == Cardinality(Tokens)
  <2>1. n \in 0 .. MaxTokens /\ n < MaxTokens /\ Tokens = 1 .. n /\ n + 1 \in 0 .. MaxTokens
    BY <1>1, <1>3, AccountsAssumption DEF Login, TokensKept
  <2>2. sub' = [t \in 1 .. n + 1 |-> IF t \in Tokens THEN sub[t] ELSE i]
    BY <1>3 DEF Login
  <2>3. revoked' = revoked /\ sock' = sock
    BY <1>3 DEF Login
  <2> HIDE DEF n
  <2>4. Tokens' = 1 .. n + 1 /\ Cardinality(Tokens') = n + 1 /\ Tokens \subseteq Tokens'
    <3>1. Tokens' = 1 .. n + 1
      BY <2>2
    <3>2. Cardinality(1 .. n + 1) = n + 1
      BY <2>1, AccountsAssumption, FS_Interval
    <3> QED
      BY <2>1, <3>1, <3>2, AccountsAssumption
  <2>5. sub' \in [1 .. n + 1 -> Ids]
    BY <1>1, <2>1, <2>2 DEF TokensKept
  <2>6. TokensKept'
    BY <1>1, <2>1, <2>3, <2>4, <2>5 DEF TokensKept
  <2> QED
    BY <1>1, <2>3, <2>4, <2>6 DEF SocketsKept, RevokedRefused
<1>4. ASSUME NEW t \in Tokens, Logout(t) PROVE TokensKept' /\ SocketsKept'
  BY <1>1, <1>4 DEF Logout, TokensKept, SocketsKept, RevokedRefused
<1>5. ASSUME NEW w \in Workers, RevokeOwn(w) PROVE TokensKept' /\ SocketsKept'
  <2>1. req[w].tok \in Tokens
    BY <1>1, <1>5 DEF RevokeOwn, At, RequestsSane, Sane
  <2> QED
    BY <1>1, <1>5, <2>1 DEF RevokeOwn, TokensKept, SocketsKept, RevokedRefused
<1>6. ASSUME NEW s \in Sockets, Socket(s) PROVE TokensKept' /\ SocketsKept'
  <2>1. UNCHANGED <<sub, revoked>>
    BY <1>6 DEF Socket, Connect, Reauth, Disconnect, Receive, Verify, Respond, SetSock
  <2>2. TokensKept'
    BY <1>1, <2>1 DEF TokensKept
  <2>3. SocketsKept'
    <3>1. CASE Disconnect(s)
      BY <1>1, <2>1, <3>1, AccountsAssumption
         DEF Disconnect, SetSock, SocketsKept, RevokedRefused, Closed
    <3>2. ASSUME NEW t \in Tokens, Connect(s, t) \/ Reauth(s, t) PROVE SocketsKept'
      <4>1. t \in 0 .. MaxTokens
        BY <1>1, AccountsAssumption DEF TokensKept
      <4>2. CASE Connect(s, t)
        BY <1>1, <2>1, <4>1, <4>2 DEF Connect, SetSock, SocketsKept, RevokedRefused, Closed
      <4>3. CASE Reauth(s, t)
        <5> DEFINE r == [sock[s] EXCEPT !.tok = t]
        <5>1. /\ r.step = sock[s].step /\ r.void = sock[s].void
              /\ r \in [step: {"closed", "idle", "received", "verified"},
                        tok: 0 .. MaxTokens, void: SUBSET Tokens]
          BY <1>1, <4>1 DEF SocketsKept
        <5>2. sock' = [sock EXCEPT ![s] = r]
          BY <4>3 DEF Reauth, SetSock
        <5> HIDE DEF r
        <5> QED
          BY <1>1, <2>1, <5>1, <5>2 DEF SocketsKept, RevokedRefused
      <4> QED
        BY <3>2, <4>2, <4>3
    <3>3. CASE Receive(s)
      BY <1>1, <2>1, <3>3 DEF Receive, SetSock, SocketsKept, TokensKept, RevokedRefused
    <3>4. CASE Verify(s)
      <4>1. sock[s].step = "received" /\ sock[s].void \subseteq revoked
        BY <1>1, <3>4 DEF Verify, SocketsKept
      <4>2. CASE Reverified(sock[s].tok)
        <5> DEFINE r == [sock[s] EXCEPT !.step = "verified", !.void = @ \cap {sock[s].tok}]
        <5>1. sock[s].void \cap {sock[s].tok} = {}
          BY <4>1, <4>2 DEF Reverified, Known
        <5>2. r = [sock[s] EXCEPT !.step = "verified", !.void = {}]
          BY <5>1
        <5>3. sock' = [sock EXCEPT ![s] = r]
          BY <3>4, <4>2 DEF Verify, SetSock
        <5> HIDE DEF r
        <5> QED
          BY <1>1, <2>1, <5>2, <5>3 DEF SocketsKept, RevokedRefused
      <4>3. CASE ~Reverified(sock[s].tok)
        BY <1>1, <2>1, <3>4, <4>3 DEF Verify, SetSock, SocketsKept, RevokedRefused
      <4> QED
        BY <4>2, <4>3
    <3>5. CASE Respond(s)
      BY <1>1, <2>1, <3>5 DEF Respond, SetSock, SocketsKept, RevokedRefused
    <3> QED
      BY <1>6, <3>1, <3>2, <3>3, <3>4, <3>5 DEF Socket
  <2> QED
    BY <2>2, <2>3
<1>7. CASE UNCHANGED <<sub, revoked, sock>>
  BY <1>1, <1>7 DEF TokensKept, SocketsKept, RevokedRefused
<1> QED
  BY <1>2, <1>3, <1>4, <1>5, <1>6, <1>7, TokenFootprint

\* Requests stay sane when a token is issued and when the process dies, too.
LEMMA RequestsNext == AccountsInv /\ [Next]_vars => RequestsSane' /\ ProcessKept'
<1> SUFFICES ASSUME AccountsInv, [Next]_vars PROVE RequestsSane' /\ ProcessKept'
  OBVIOUS
<1>1. RequestsSane /\ ProcessKept /\ TableKept /\ TokensKept
  BY DEF AccountsInv
<1>2. CASE Process
  <2>1. ProcessKept'
    <3>1. excused' \in BOOLEAN
      <4>1. CASE Repair
        BY <1>1, <4>1, Zenon DEF Repair, ProcessKept
      <4> QED
        BY <1>1, <1>2, <4>1 DEF Process, Boot, Migrate, BootError, Die, ProcessKept
    <3> QED
      BY <1>1, <1>2, <3>1
         DEF Process, Boot, Migrate, Repair, BootError, Die, ProcessKept, Idle
  <2>2. RequestsSane'
    <3>1. CASE Die
      BY <1>1, <3>1, IdleSane DEF Die, RequestsSane
    <3>2. CASE UNCHANGED <<req, sub>>
      BY <1>1, <3>2 DEF RequestsSane
    <3> QED
      BY <1>2, <3>1, <3>2 DEF Process, Boot, Migrate, Repair, BootError
  <2> QED
    BY <2>1, <2>2
<1>3. ASSUME NEW i \in Ids, Login(i) PROVE RequestsSane' /\ ProcessKept'
  <2>1. Cardinality(Tokens) \in Nat /\ Tokens = 1 .. Cardinality(Tokens)
    BY <1>1, AccountsAssumption DEF TokensKept
  <2>2. Tokens \subseteq Tokens'
    BY <1>3, <2>1 DEF Login
  <2>3. UNCHANGED <<req, up, lock, excused>>
    BY <1>3 DEF Login
  <2> HIDE DEF Tokens
  <2> QED
    BY <1>1, <2>2, <2>3 DEF RequestsSane, Sane, ProcessKept
<1>4. ASSUME NEW w \in Workers, Request(w) PROVE RequestsSane' /\ ProcessKept'
  <2>1. up' = "serving"
    BY <1>4, RowsNeedTable DEF Serving
  <2>2. lock' \in Workers \cup {NoOne} /\ excused' \in BOOLEAN
    <3>1. lock' \in {lock, w, NoOne}
      BY <1>4, ZenonT(30)
         DEF Request, CreateFirst, TakeLock, Recheck, InsertFirst, CreateStart, CheckName,
             Insert, CommitError, UpdateStart, DeleteStart, LoadTarget, KeepRole, KeepName,
             SetRole, SetName, Save, WrongPassword, DeleteFind, Remove, RevokeOwn, Refuse
    <3>2. excused' \in BOOLEAN
      <4>1. CASE UNCHANGED excused
        BY <1>1, <4>1 DEF ProcessKept
      <4>2. \A after : Overtaken(w, after) \in BOOLEAN
        BY <1>1 DEF Overtaken, ProcessKept
      <4> QED
        BY <1>4, <4>1, <4>2, ZenonT(30)
           DEF Request, CreateFirst, TakeLock, Recheck, InsertFirst, CreateStart, CheckName,
             Insert, CommitError, UpdateStart, DeleteStart, LoadTarget, KeepRole, KeepName,
             SetRole, SetName, Save, WrongPassword, DeleteFind, Remove, RevokeOwn, Refuse
    <3> QED
      BY <1>1, <3>1, <3>2 DEF ProcessKept
  <2>3. RequestsSane'
    BY <1>4, RequestKeepsSane
  <2> QED
    BY <2>1, <2>2, <2>3 DEF ProcessKept
<1>5. CASE UNCHANGED <<req, sub, up, lock, excused>>
  BY <1>1, <1>5 DEF RequestsSane, ProcessKept
<1>6. ASSUME NEW t \in Tokens, Logout(t) PROVE UNCHANGED <<req, sub, up, lock, excused>>
  BY <1>6 DEF Logout
<1>7. ASSUME NEW s \in Sockets, Socket(s) PROVE UNCHANGED <<req, sub, up, lock, excused>>
  BY <1>7 DEF Socket, Connect, Reauth, Disconnect, Receive, Verify, Respond, SetSock
<1> QED
  BY <1>2, <1>3, <1>4, <1>5, <1>6, <1>7 DEF Next, Token

\* The invariant holds in every reachable state.
LEMMA InvAlways == Spec => []AccountsInv
<1>1. AccountsInv /\ [Next]_vars => AccountsInv'
  BY RequestsNext, TableNext, AdminNext, TokensNext DEF AccountsInv
<1> QED
  BY <1>1, InvInit, PTL DEF Spec

-----------------------------------------------------------------------------
(* The theorems *)

\* The table is sound in every run: names are unique, the unauthenticated branch of
\* create_user made one account at most, and an admin remains unless the boot left the
\* accounts without one or another request overtook the one that took the last.
THEOREM TableSoundHolds == Spec => []TableSound
<1>1. AccountsInv => TableSound
  <2> SUFFICES ASSUME AccountsInv PROVE TableSound
    OBVIOUS
  <2>1. OneFirstAdmin
    BY DEF AccountsInv, FirstMarked, OneFirstAdmin
  <2>2. AdminRemains
    BY DEF AccountsInv, AdminOrNobody, ProcessKept, AdminRemains
  <2> QED
    BY <2>1, <2>2, InvTypes DEF AccountsInv, TableSound
<1> QED
  BY <1>1, InvAlways, PTL

\* No command of a debug session is served that came after its token was revoked.
THEOREM RevokedRefusedHolds == Spec => []RevokedRefused
<1>1. AccountsInv => RevokedRefused
  BY DEF AccountsInv, SocketsKept
<1> QED
  BY <1>1, InvAlways, PTL

\* On a device with accounts and no admin, when no request of an admin is under way, no
\* step makes one: the dead end that repair_missing_admin speaks of.
THEOREM DeadEndHolds == Spec => DeadEnd
<1>1. ASSUME AccountsInv, [Next]_vars, Serving, users # <<>>, Admins = {},
             \A w \in Workers : ~Privileged(w)
      PROVE  Admins' = {}
  <2>1. RequestsSane /\ TableKept
    BY <1>1 DEF AccountsInv
  <2>2. \A j \in DOMAIN users : users[j].role # "admin"
    BY <1>1 DEF Admins
  <2>3. CASE Migrate \/ Repair
    BY <1>1, <2>3 DEF Migrate, Repair, Serving
  <2>4. ASSUME NEW w \in Workers, InsertFirst(w) \/ Insert(w) PROVE FALSE
    BY <1>1, <2>1, <2>4
       DEF InsertFirst, Insert, At, RequestsSane, Sane, Privileged, ByAdmin
  <2>5. ASSUME NEW w \in Workers, NEW p \in BOOLEAN, Save(w, p) PROVE Admins' = {}
    <3> DEFINE i == req[w].id
    <3> DEFINE row == Flushed(users[i], req[w].new)
    <3>1. req[w].pc = "save" /\ i \in DOMAIN users /\ users' = Put(i, row)
      BY <2>5 DEF Save, At
    <3>2. req[w].new.role = "none"
      BY <1>1, <2>1, <3>1 DEF RequestsSane, Sane, Privileged, ByAdmin
    <3>3. i \in Ids /\ users[i] \in Row /\ req[w].new \in LoadedRow
      BY <2>1, <3>1 DEF TableKept, RequestsSane, ReqRec
    <3>4. row \in Row /\ row.role = users[i].role
      BY <3>2, <3>3 DEF Flushed, Row, LoadedRow
    <3> HIDE DEF row
    <3>5. /\ DOMAIN users' = DOMAIN users \cup {i} /\ users'[i] = row
          /\ \A j \in DOMAIN users \ {i} : users'[j] = users[j]
      BY <2>1, <3>1, <3>3, <3>4, PutRow
    <3>6. \A j \in DOMAIN users' : j \in DOMAIN users /\ users'[j].role = users[j].role
      BY <3>1, <3>4, <3>5
    <3> QED
      BY <2>2, <3>6 DEF Admins
  <2>6. ASSUME NEW w \in Workers, Remove(w) PROVE Admins' = {}
    BY <2>2, <2>6 DEF Remove, Admins
  <2>7. CASE UNCHANGED <<users, marker, hasRole, firsts>>
    BY <1>1, <2>7 DEF Admins
  <2> QED
    BY <1>1, <2>3, <2>4, <2>5, <2>6, <2>7, TableFootprint
<1> QED
  BY <1>1, InvAlways, PTL DEF Spec, DeadEnd
=============================================================================
