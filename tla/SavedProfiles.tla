---------------------------- MODULE SavedProfiles ----------------------------
(***************************************************************************)
(* What the store of Wi-Fi profiles means to those who use it: the order   *)
(* in which the saved networks last succeeded.  `saved` gives each network *)
(* its place, 1 for the newest; a network with place 0 is not saved.       *)
(***************************************************************************)
EXTENDS Naturals

(* `net` connected, or is preferred: it is the newest now, and the oldest makes *)
(* room for it when the store is full.                                        *)
AsNewest(saved, net, max) ==
    [n \in DOMAIN saved |->
        IF n = net THEN 1
        ELSE IF saved[n] = 0 \/ (saved[net] # 0 /\ saved[n] > saved[net]) THEN saved[n]
        ELSE IF saved[n] = max THEN 0 ELSE saved[n] + 1]

Without(saved, net) ==
    [n \in DOMAIN saved |->
        IF n = net THEN 0
        ELSE IF saved[n] > saved[net] THEN saved[n] - 1 ELSE saved[n]]

(* One operation on the store, or one that failed. *)
SavedNext(saved, next, max) ==
    \/ next = saved
    \/ \E net \in DOMAIN saved : next = AsNewest(saved, net, max)
    \/ \E net \in DOMAIN saved : saved[net] # 0 /\ next = Without(saved, net)
=============================================================================
