------------------------------ MODULE MCGateway ------------------------------
(***************************************************************************)
(* Gateway with two processes and two requests at a time, which may        *)
(* belong to the same process.                                             *)
(***************************************************************************)
EXTENDS Gateway, TLC

CONSTANTS s1, s2, p1, p2, c1

MCSlots == {s1, s2}
MCProcesses == {p1, p2}
MCClients == {c1}

\* The first POST route of the application is admin_edit; the first GET
\* route carries no decorator.
MCRouteTable ==
    << [path |-> "users", method |-> "GET", tier |-> "public", config |-> None, metered |-> TRUE],
       [path |-> "admin_edit", method |-> "POST", tier |-> "admin",
        config |-> [times |-> 2, seconds |-> 3], metered |-> FALSE] >>
MCTierLimit == [t \in {"public", "sensitive", "admin"} |-> 2]
MCQuantities == {1}

Symmetry == Permutations(MCSlots) \cup Permutations(MCProcesses)

=============================================================================
