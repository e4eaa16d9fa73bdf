-------------------------- MODULE MCWifiProfileStore --------------------------
(* The instances of WifiProfileStore that TLC checks. *)
EXTENDS WifiProfileStore, TLC

Symmetry == Permutations(Networks)
=============================================================================
