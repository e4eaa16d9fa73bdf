--------------------------- MODULE MCWifiConnection ---------------------------
(* A small instance of WifiConnection for TLC. *)
EXTENDS WifiConnection, TLC

(* Everything flash may hold: the saved profiles have distinct places from 1. *)
AnySaved ==
    { saved \in [Networks -> 0 .. MaxProfiles] :
        \A p \in 1 .. MaxProfiles :
            LET at(k) == {n \in Networks : saved[n] = k}
            IN  /\ Cardinality(at(p)) <= 1
                /\ p > 1 /\ at(p) # {} => at(p - 1) # {} }

Symmetry == Permutations(Networks)
=============================================================================
