---------------------------- MODULE MCRadioManager ----------------------------
(* A small instance of RadioManager for TLC. *)
EXTENDS RadioManager, TLC
=============================================================================
