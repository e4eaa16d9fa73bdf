------------------------------ MODULE MCCydInput ------------------------------
(* A queue of one event, short holds and one calibration, for TLC. *)
EXTENDS CydInput, TLC
=============================================================================
