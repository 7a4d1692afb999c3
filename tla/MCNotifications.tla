-------------------------- MODULE MCNotifications --------------------------
(***************************************************************************)
(* Instances of Notifications for TLC.                                     *)
(***************************************************************************)
EXTENDS Notifications, TLC

\* An event of a user and one without.
MCKinds == {[type |-> "post.created", user |-> "ann"], [type |-> "system", user |-> NoUser]}

MCSubscribed == [h \in Hooks |-> {"post.created", "system"}]

Perms == Permutations(Procs)
=============================================================================
