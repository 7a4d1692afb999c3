--------------------------- MODULE MCTokenRegistry ---------------------------
(***************************************************************************)
(* TokenRegistry with one user (nothing is shared between users), two API  *)
(* processes and lifetimes ordered as the defaults are: access token <     *)
(* blacklist TTL < refresh token.                                          *)
(***************************************************************************)
EXTENDS TokenRegistry, TLC

CONSTANTS u1, w1, w2

MCUsers == {u1}
MCProcesses == {w1, w2}
Symmetry == Permutations(MCProcesses)

=============================================================================
