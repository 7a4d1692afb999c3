------------------------------ MODULE MCBackups ------------------------------
(***************************************************************************)
(* A small instance of Backups: one image.                                 *)
(***************************************************************************)
EXTENDS Backups, TLC

MCThumb == "img" :> "img_small"

Symmetry == Permutations(Workers) \cup Permutations(Tasks) \cup Permutations(Contents)

=============================================================================
