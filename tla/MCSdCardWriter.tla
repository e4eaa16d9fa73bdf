---------------------------- MODULE MCSdCardWriter ----------------------------
(* Two producers and small records, for TLC. *)
EXTENDS SdCardWriter, TLC
=============================================================================
