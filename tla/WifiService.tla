----------------------------- MODULE WifiService -----------------------------
(***************************************************************************)
(* What wifi_connection promises to the tasks that use it (the contracts   *)
(* of wifi_connection.h and docs/wifi_connection.md), without its queue,   *)
(* its driver or its attempts: WifiConnection is shown to implement it,    *)
(* and RadioManager is built on it.                                        *)
(***************************************************************************)
CONSTANTS
    Users           \* the tasks that may hold Wi-Fi (wifi_connection_user_t)

VARIABLES
    state,          \* wifi_connection_state_t, as the getters publish it
    users           \* who has acquired and not yet released (active_users)

serviceVars == <<state, users>>

-----------------------------------------------------------------------------
Trying == {"CONNECTING", "RECONNECTING"}
Setup  == {"SETUP_REQUIRED", "SETUP_RUNNING"}
States == {"STOPPED", "OFF", "CONNECTED", "FAILED"} \cup Trying \cup Setup

ServiceInit ==
    /\ state = "STOPPED"
    /\ users = {}

(* wifi_connection_start(): off when a profile is saved, else setup. *)
Start ==
    /\ state = "STOPPED"
    /\ state' \in {"OFF", "SETUP_REQUIRED"}
    /\ UNCHANGED users

(* Acquiring turns Wi-Fi on unless it is on, being tried, or held by setup. *)
Acquire(u) ==
    /\ state # "STOPPED"
    /\ users' = users \cup {u}
    /\ state' = IF state \in {"OFF", "FAILED"} THEN "CONNECTING" ELSE state

Release(u) ==
    /\ u \in users
    /\ users' = users \ {u}
    /\ UNCHANGED state

Retry ==
    /\ state \in {"OFF", "FAILED"}
    /\ state' = "CONNECTING"
    /\ UNCHANGED users

(* An attempt ends. *)
Resolve ==
    /\ state \in Trying
    /\ state' \in {"CONNECTED", "FAILED"}
    /\ UNCHANGED users

LinkLost ==
    /\ state = "CONNECTED"
    /\ state' = "RECONNECTING"
    /\ UNCHANGED users

(* Only an unused Wi-Fi is turned off, and never under setup. *)
TurnOff ==
    /\ state \in {"CONNECTED", "FAILED"}
    /\ users = {}
    /\ state' = "OFF"
    /\ UNCHANGED users

BeginSetup ==
    /\ state # "STOPPED"
    /\ state' = "SETUP_RUNNING"
    /\ UNCHANGED users

(* Setup ends connected, or gives its users another attempt, or leaves Wi-Fi off. *)
EndSetup ==
    /\ state = "SETUP_RUNNING"
    /\ state' \in {"CONNECTED", IF users = {} THEN "OFF" ELSE "CONNECTING"}
    /\ UNCHANGED users

ServiceNext ==
    \/ Start \/ Retry \/ Resolve \/ LinkLost \/ TurnOff \/ BeginSetup \/ EndSetup
    \/ \E u \in Users : Acquire(u) \/ Release(u)

(* Every attempt is bounded: nothing else in the service has to happen. *)
ServiceFairness == WF_serviceVars(Resolve)

ServiceSpec == ServiceInit /\ [][ServiceNext]_serviceVars /\ ServiceFairness
=============================================================================
