---------------------------- MODULE MCInvoicing ----------------------------
(***************************************************************************)
(* Instances of Invoicing for TLC.                                         *)
(***************************************************************************)
EXTENDS Invoicing

\* A request may name a period that starts with the current one and is longer.
MCRequested == {<<0, 2>>}
NoRequested == {}
=============================================================================
