---------------------------- MODULE MCAppScheduler ----------------------------
(* The instances of AppScheduler that TLC checks. *)
EXTENDS AppScheduler, TLC

CONSTANTS alarm, pump

(* A schedule of each kind: an alarm goes off once; a pump runs in a window, every *)
(* day; a wake-up goes off once and goes on until it is stopped.                 *)
Alarm(enabled) ==
    [ mode |-> "INSTANT", latched |-> FALSE, enabled |-> enabled, repeat |-> FALSE,
      days |-> Days, at |-> 1, to |-> 1, scope |-> "APP" ]

Pump(enabled) ==
    [ mode |-> "WINDOW", latched |-> FALSE, enabled |-> enabled, repeat |-> TRUE,
      days |-> Days, at |-> 0, to |-> 1, scope |-> "FEATURE" ]

Wake(enabled) ==
    [ mode |-> "INSTANT", latched |-> TRUE, enabled |-> enabled, repeat |-> FALSE,
      days |-> Days, at |-> 1, to |-> 1, scope |-> "FEATURE" ]

(* The alarm, and a service that has its schedule in either shape. *)
OneOfEach ==
    [ k \in Keys |->
        IF k \in Alarms THEN {Alarm(enabled) : enabled \in BOOLEAN}
        ELSE UNION {{Pump(enabled), Wake(enabled)} : enabled \in BOOLEAN} ]

DefaultAlarm == [k \in Alarms |-> Alarm(FALSE)]
=============================================================================
