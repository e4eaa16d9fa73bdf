------------------------------ MODULE MCTimeSync ------------------------------
(* The instances of TimeSync that TLC checks; see the MCTimeSync*.cfg files. *)
EXTENDS TimeSync
=============================================================================
