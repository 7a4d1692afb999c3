------------------------------- MODULE MCInbox -------------------------------
(***************************************************************************)
(* A small instance of Inbox: one page of one row, three rows of one of    *)
(* two users, the second of them already deleted.                          *)
(***************************************************************************)
EXTENDS Inbox, TLC

CONSTANTS u1, u2

MCUsers == {u1, u2}

MCInit ==
    /\ rows = [i \in Ids |-> IF i = 2 THEN [Fresh(u1) EXCEPT !.deleted_at = 0]
                             ELSE IF i <= 3 THEN Fresh(u1) ELSE NoRow]
    /\ reader = 1..3
    /\ announced = {}
    /\ lastId = 3
    /\ pref = [u \in Users |-> None]
    /\ sess = [w \in Workers |-> Idle]
    /\ cache = NoCount
    /\ walk = NoWalk
    /\ now = 0
    /\ served = 0

MCSpec == MCInit /\ [][Next]_vars

Symmetry == Permutations(Workers)

=============================================================================
