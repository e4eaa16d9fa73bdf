----------------------------- MODULE MCSdCardStatus -----------------------------
(* A small instance of SdCardStatus for TLC. *)
EXTENDS SdCardStatus, TLC
=============================================================================
