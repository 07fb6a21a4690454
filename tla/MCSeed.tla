------------------------------- MODULE MCSeed -------------------------------
(***************************************************************************)
(* Small instances of Seed for TLC: its constants need no definitions.     *)
(***************************************************************************)
EXTENDS Seed, TLC
=============================================================================
