------------------------------ MODULE MCOpcUa ------------------------------
(* A variable an engineer may write, and an array of two that no one may.  One   *)
(* configuration is good, one has the array at the address of the variable.    *)
EXTENDS OpcUa

Perms(engineer) ==
    [viewer |-> {"r"}, operator |-> {"r"}, engineer |-> engineer]

Leaf(id, addr, length, engineer) ==
    [id |-> id, addr |-> addr, length |-> length, sized |-> TRUE, top |-> TRUE,
     permissions |-> Perms(engineer)]

Config(arrayAt) ==
    [version |-> 2,
     leaves |-> <<Leaf("speed", 1, 0, {"r", "w"}), Leaf("table", arrayAt, 2, {"r"})>>,
     profiles |-> <<[methods |-> {"Username", "Anonymous"}, anonymous |-> "viewer"]>>,
     users |-> [anna |-> [type |-> "password", hashed |-> TRUE, role |-> "engineer"]]]

MCConfigs == <<Config(2), Config(1)>>
MCPrograms == {{1, 2, 3}, {2}}
MCCredentials ==
    {[method |-> "Anonymous", name |-> "", valid |-> TRUE],
     [method |-> "Username", name |-> "anna", valid |-> TRUE],
     [method |-> "Username", name |-> "anna", valid |-> FALSE]}
=============================================================================
