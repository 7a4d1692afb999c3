----------------------------- MODULE MCAccounts -----------------------------
(***************************************************************************)
(* Accounts on a small instance: two API processes, two e-mail addresses.  *)
(***************************************************************************)
EXTENDS Accounts, TLC

CONSTANTS e1, e2, n1, n2, c1, w1, w2

MCEmails == {e1, e2}
MCUsernames == {n1, n2}
MCCodes == {c1}
MCWorkers == {w1, w2}

\* Processes, addresses and names are interchangeable.
Symmetry ==
    Permutations(MCWorkers) \cup Permutations(MCEmails)
        \cup Permutations(MCUsernames)

=============================================================================
