------------------------------ MODULE MCMoney -------------------------------
(***************************************************************************)
(* Money with prices of three digits and floats of twelve bits, the        *)
(* smallest that keep such prices apart.                                   *)
(***************************************************************************)
EXTENDS Money
=============================================================================
