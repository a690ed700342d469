----------------------------- MODULE OpcUaAccess -----------------------------
(***************************************************************************)
(* What the OPC UA plugin makes of its configuration                       *)
(* (opcua_config_model.py, address_space.py), of a client's credentials    *)
(* and role (user_manager.py, callbacks.py) and of a value                 *)
(* (opcua_utils.py), as operators without state.                           *)
(*                                                                         *)
(* A configuration is a record: its format version; "leaves", the nodes    *)
(* with a value in the order they are created (the variables, the leaves   *)
(* of the structures, the arrays); "profiles", the security profiles; and  *)
(* "users", from names to [type, hashed, role].  A leaf covers "length"    *)
(* consecutive addresses (length 0: one value, not an array); its          *)
(* permissions give each role a set of letters.  An array has an element.   *)
(***************************************************************************)
EXTENDS Integers, Sequences, FiniteSets, FiniteSetsExt

CONSTANTS
    Width,        \* values of an integer variable: 0 .. Width - 1
    MaxAttempts, Window, Lockout    \* of the rate limiter: 5, 60 s and 300 s in the code

ASSUME AccessAssumption ==
    /\ Width \in Nat \ {0}
    /\ MaxAttempts \in Nat \ {0} /\ Window \in Nat /\ Lockout \in Nat
    /\ Window < Lockout

Roles == {"viewer", "operator", "engineer"}

\* What a file calls the role of a user: "admin" stands for every name the callbacks take
\* for engineer, "user" for viewer, "other" for the names that are no role.
RoleNames == Roles \cup {"admin", "user", "other"}
MinFormat == 2

(* ---- the configuration ------------------------------------------------- *)

Leaves(c) == DOMAIN c.leaves
Count(leaf) == IF leaf.length > 0 THEN leaf.length ELSE 1
AddrsOf(leaf) == leaf.addr .. leaf.addr + Count(leaf) - 1

\* A configuration, as the parser leaves it.
IsConfig(c) ==
    /\ Leaves(c) \subseteq Nat \ {0} /\ IsFiniteSet(Leaves(c))
    /\ \A i \in Leaves(c) :
        /\ c.leaves[i].addr \in Int /\ c.leaves[i].length \in Nat
        /\ c.leaves[i].permissions \in [Roles -> SUBSET {"r", "w"}]
    /\ DOMAIN c.profiles \subseteq Nat /\ IsFiniteSet(DOMAIN c.profiles)
    /\ \A n \in DOMAIN c.users : c.users[n].role \in RoleNames

\* The contract gate and the fields a leaf must have.
Parses(c) ==
    /\ c.version >= MinFormat
    /\ \A i \in Leaves(c) : c.leaves[i].sized
    /\ \A p \in DOMAIN c.profiles : c.profiles[p].anonymous \in Roles

\* validate: no address twice, the elements of an array included.
UniqueAddresses(c) ==
    \A i, j \in Leaves(c) :
        i # j => AddrsOf(c.leaves[i]) \cap AddrsOf(c.leaves[j]) = {}

\* validate: no node_id twice, those of structures' fields excepted.
UniqueIds(c) ==
    \A i, j \in Leaves(c) :
        i # j /\ c.leaves[i].top /\ c.leaves[j].top => c.leaves[i].id # c.leaves[j].id

\* Seeded fault: the addresses are not checked.
AcceptsAnyAddress(c) == Parses(c) /\ UniqueIds(c)

\* load_config: a configuration the server is started with.
Accepts(c) == Parses(c) /\ UniqueIds(c) /\ UniqueAddresses(c)

(* ---- the address space -------------------------------------------------- *)

\* variable_nodes: the last node created for an address is the one that stays.
Registered(c) ==
    {i \in Leaves(c) : \A j \in Leaves(c) : c.leaves[j].addr = c.leaves[i].addr => j <= i}

\* Any role may write: the node is "readwrite".
Writable(c, i) == \E r \in Roles : "w" \in c.leaves[i].permissions[r]

\* Seeded fault: a write setter on the nodes a client may write only.
HasSetterWritable(c, i) == i \in Registered(c) /\ Writable(c, i)

\* The nodes that get a read callback get a write setter.
HasSetter(c, i) == i \in Registered(c)

\* node_permissions is keyed by the configured id, also where a node was renamed because
\* its id was taken: the last leaf with the id decides.
Permissions(c, i) ==
    c.leaves[Max({j \in Leaves(c) : c.leaves[j].id = c.leaves[i].id})].permissions

(* ---- roles and credentials ----------------------------------------------- *)

\* The names of asyncua's roles are mapped, any other is left, role or not.
Normal(role) ==
    CASE role = "admin" -> "engineer" [] role = "user" -> "viewer" [] OTHER -> role

\* ROLE_MAPPING takes the name as it is; an Admin of asyncua's may write any node.
Admin(role) == role = "engineer"

\* Seeded fault: a node some role may write is writable for every role.
AllowsAnyRole(c, i, role) == Writable(c, i)

\* _on_pre_write
Allows(c, i, role) ==
    Normal(role) \in Roles /\ "w" \in Permissions(c, i)[Normal(role)]

Nobody == "nobody"

\* The first enabled profile that offers the method.
Profiles(c, method) == {p \in DOMAIN c.profiles : method \in c.profiles[p].methods}

\* The users a method knows; a password user without a hash is refused.
Credentialled(c, method) ==
    {n \in DOMAIN c.users :
        \/ method = "Username" /\ c.users[n].type = "password" /\ c.users[n].hashed
        \/ method = "Certificate" /\ c.users[n].type = "certificate"}

\* A credential is [method, name, valid].  The role of the session it gives, or Nobody.
RoleFor(c, cred) ==
    IF Profiles(c, cred.method) = {} \/ ~cred.valid THEN Nobody
    ELSE IF cred.method = "Anonymous" THEN c.profiles[Min(Profiles(c, cred.method))].anonymous
    ELSE IF cred.name \in Credentialled(c, cred.method) THEN c.users[cred.name].role
    ELSE Nobody

(* ---- the rate limiter ----------------------------------------------------- *)

\* A tracker: how many attempts failed, how long ago the first did (capped past the
\* window), how long the lockout still lasts.
NoTracker == [attempts |-> 0, age |-> 0, lockout |-> 0]
LockedOut(t) == t.lockout > 0

\* is_locked_out forgets a tracker whose lockout is over.
Examined(t) ==
    IF t.attempts >= MaxAttempts /\ ~LockedOut(t) THEN NoTracker ELSE t

\* record_attempt starts to count when there is no tracker, or its window is over.
Restarts(t) == t.attempts = 0 \/ t.age > Window

\* Seeded fault: the lockout is for attempts past the limit.
ReachesLimitLate(n) == n > MaxAttempts

ReachesLimit(n) == n >= MaxAttempts

\* record_attempt
Recorded(t, success) ==
    IF success THEN NoTracker
    ELSE LET n == IF Restarts(t) THEN 1 ELSE t.attempts + 1
         IN  [attempts |-> n,
              age |-> IF Restarts(t) THEN 0 ELSE t.age,
              lockout |-> IF ReachesLimit(n) THEN Lockout ELSE t.lockout]

\* A second passes.
Older(t) ==
    IF t.attempts = 0 THEN t
    ELSE [t EXCEPT !.age = Min({@ + 1, Window + 1}), !.lockout = Max({@ - 1, 0})]

(* ---- values ---------------------------------------------------------------- *)

\* A value out of range becomes the nearest one.
Nearest(v) == IF v < 0 THEN 0 ELSE IF v >= Width THEN Width - 1 ELSE v

\* Seeded fault: a value out of range is passed on.
ToPlcAsIs(v) == v

\* convert_value_for_plc, for integers.
ToPlc(v) == Nearest(v)

\* convert_value_for_opcua, for integers.
ToOpcua(v) == Nearest(v)
=============================================================================
