------------------------------- MODULE SystemBoot -------------------------------
(* The start-up (system_boot.c): a finger that is on the panel while the device   *)
(* starts opens the settings, and must not reach the first app as a tap. The boot  *)
(* looks at the panel itself before the input task exists, asks that task         *)
(* afterwards, and waits for the release before it goes on.                        *)
(*                                                                                 *)
(* Of the input task only this is kept: it follows the finger, first in the state  *)
(* that it shows and then in the events that it queues, and is never more than     *)
(* Lag polls of the boot behind.                                                    *)
EXTENDS Naturals, Sequences

CONSTANTS
    StablePolls,    \* SYSTEM_BOOT_TOUCH_SETUP_RELEASE_STABLE_POLLS
    Lag,            \* bound: polls of the boot (10 ms) that the input task needs
    MaxTouches,     \* bound: touches
    MaxEvents       \* CONFIG_CYD_INPUT_QUEUE_LENGTH

(* The release counts only when the input task cannot be behind for all of it: the boot waits for *)
(* five polls, so the input task may be up to two behind, 20 ms, its own poll being 10 ms.        *)
ASSUME BootAssumption ==
    /\ StablePolls \in Nat /\ Lag \in Nat /\ 2 * Lag < StablePolls
    /\ MaxEvents \in Nat \ {0}
    /\ MaxTouches \in Nat \ {0}

VARIABLES
    boot,           \* where system_boot_start() is, the polls of its wait (counted to Lag + 1), ...
    down,           \* the finger is on the panel
    touch,          \* number of touches so far
    seen,           \* the touch state of cyd_input
    edge,           \* the touch whose change the input task has shown and not queued yet, or 0
    events,         \* the event queue: the touch that each event belongs to, and whether it is a PRESS
    behind,         \* polls since the input task was up to date
    calibrated      \* cyd_input_has_saved_touch_calibration()

bootVars == <<boot, down, touch, seen, edge, events, behind, calibrated>>

FirstBoot == [at |-> "early", requested |-> FALSE, stable |-> 0, polls |-> 0, held |-> 0,
              overdue |-> FALSE, aborted |-> FALSE]

BootInit ==
    /\ boot = FirstBoot
    /\ down \in BOOLEAN
    /\ touch = IF down THEN 1 ELSE 0
    /\ seen = FALSE
    /\ edge = 0
    /\ events = <<>>
    /\ behind = 0
    /\ calibrated \in BOOLEAN

InputRuns == boot.at \notin {"early", "init", "failed", "calibrate"}
Requested == [boot EXCEPT !.requested = TRUE, !.held = touch]
Behind == edge # 0 \/ seen # down

-----------------------------------------------------------------------------
(* The finger and the input task. *)

FingerDown ==
    /\ ~down
    /\ touch < MaxTouches
    /\ down' = TRUE
    /\ touch' = touch + 1
    /\ UNCHANGED <<boot, seen, edge, events, behind, calibrated>>

FingerUp ==
    /\ down
    /\ down' = FALSE
    /\ UNCHANGED <<boot, touch, seen, edge, events, behind, calibrated>>

(* The input task shows the finger's state, and then queues the press or release. *)
InputSees ==
    /\ InputRuns
    /\ edge = 0
    /\ seen # down
    /\ seen' = down
    /\ edge' = touch
    /\ UNCHANGED <<boot, down, touch, events, behind, calibrated>>

Push(queue, e) == Append(IF Len(queue) = MaxEvents THEN Tail(queue) ELSE queue, e)

InputQueues ==
    /\ edge # 0
    /\ events' = Push(events, [of |-> edge, press |-> seen])
    /\ edge' = 0
    /\ behind' = 0
    /\ UNCHANGED <<boot, down, touch, seen, calibrated>>

(* Hold events come for as long as the finger stays. *)
InputHolds ==
    /\ InputRuns
    /\ seen /\ edge = 0
    /\ events' = Push(events, [of |-> touch, press |-> FALSE])
    /\ UNCHANGED <<boot, down, touch, seen, edge, behind, calibrated>>

-----------------------------------------------------------------------------
(* system_boot_touch_early_setup_requested: a poll that reads a press over SPI decides; the      *)
(* window ends without one, or at once when the transport cannot be set up.                      *)
EarlyCheck ==
    /\ boot.at = "early"
    /\ \E transport \in BOOLEAN :
        boot' = IF transport /\ down THEN [Requested EXCEPT !.at = "init"] ELSE [boot EXCEPT !.at = "init"]
    /\ UNCHANGED <<down, touch, seen, edge, events, behind, calibrated>>

(* NVS, the LED, the speaker, the display and the input: a step that fails ends the boot, except *)
(* that flash without free pages, or of another version, is erased and tried again.              *)
InitDevices ==
    /\ boot.at = "init"
    /\ \E outcome \in {"ok", "erased", "failed"} :
        /\ boot' = [boot EXCEPT !.at = IF outcome = "failed" THEN "failed"
                                       ELSE IF boot.requested THEN "wait" ELSE "window"]
        /\ calibrated' = (calibrated /\ outcome # "erased")
    /\ UNCHANGED <<down, touch, seen, edge, events, behind>>

(* ESP_ERROR_CHECK in app_main: a boot that failed restarts the device. *)
BootAgain ==
    /\ boot.at = "failed"
    /\ boot' = FirstBoot
    /\ UNCHANGED <<down, touch, seen, edge, events, behind, calibrated>>

(* system_boot_touch_state_setup_requested: now the input task is asked. *)
WindowCheck ==
    /\ boot.at = "window"
    /\ boot' = IF seen THEN [Requested EXCEPT !.at = "wait"] ELSE [boot EXCEPT !.at = "calibration"]
    /\ UNCHANGED <<down, touch, seen, edge, events, behind, calibrated>>

(* Mistaken: one poll without a press is a release. *)
LeftAtOnce(stable) == stable >= 1

Left(stable) == stable >= StablePolls

(* A poll of system_boot_wait_for_touch_release: the touch state, the line, which may read high  *)
(* under a finger while the controller converts, and the queue, which is emptied every time.    *)
WaitPoll ==
    /\ boot.at = "wait"
    /\ Behind => behind < Lag
    /\ \E line \in IF down THEN BOOLEAN ELSE {FALSE} :
        LET stable == IF seen \/ line THEN 0 ELSE boot.stable + 1 IN
        boot' = [boot EXCEPT !.stable = stable, !.at = IF Left(stable) THEN "calibration" ELSE @,
                             !.polls = IF @ > Lag THEN @ ELSE @ + 1]
    /\ events' = <<>>
    /\ behind' = IF Behind THEN behind + 1 ELSE 0
    /\ UNCHANGED <<down, touch, seen, edge, calibrated>>

(* SYSTEM_BOOT_TOUCH_SETUP_RELEASE_WAIT_MS, 10 s, which is more polls than the input task can be  *)
(* behind: the wait ends whatever the finger does, also when it was lifted a moment ago.          *)
WaitOverdue ==
    /\ boot.at = "wait"
    /\ boot.polls > Lag
    /\ boot' = [boot EXCEPT !.at = "calibration", !.overdue = TRUE]
    /\ UNCHANGED <<down, touch, seen, edge, events, behind, calibrated>>

(* system_boot_run_touch_calibration_if_needed: the calibration parks the input task, which must *)
(* be between two samples, ...                                                                   *)
BeginCalibration ==
    /\ boot.at = "calibration"
    /\ IF calibrated
       THEN boot' = [boot EXCEPT !.at = "discard"]
       ELSE edge = 0 /\ boot' = [boot EXCEPT !.at = "calibrate"]
    /\ UNCHANGED <<down, touch, seen, edge, events, behind, calibrated>>

(* ... and lets it go with its touch state reset. It asks for four points, and waits for the     *)
(* release after each; a read or a drawing that fails breaks it off. What was queued is dropped  *)
(* when the points were saved; a calibration that fails does not stop the boot.                  *)
EndCalibration ==
    /\ boot.at = "calibrate"
    /\ \E outcome \in {"saved", "unsaved", "aborted"} :
        /\ outcome # "aborted" => ~down \/ touch > boot.held
        /\ calibrated' = (outcome = "saved")
        /\ events' = IF outcome = "saved" THEN <<>> ELSE events
        /\ boot' = [boot EXCEPT !.at = "discard", !.aborted = (outcome = "aborted")]
    /\ seen' = FALSE
    /\ behind' = 0
    /\ UNCHANGED <<down, touch, edge>>

(* Events of a boot that opens the settings are dropped once more before the first app. *)
HandOver ==
    /\ boot.at = "discard"
    /\ events' = IF boot.requested THEN <<>> ELSE events
    /\ boot' = [boot EXCEPT !.at = "done"]
    /\ UNCHANGED <<down, touch, seen, edge, behind, calibrated>>

-----------------------------------------------------------------------------
BootNext ==
    \/ FingerDown \/ FingerUp \/ InputSees \/ InputQueues \/ InputHolds
    \/ EarlyCheck \/ InitDevices \/ BootAgain \/ WindowCheck
    \/ WaitPoll \/ WaitOverdue \/ BeginCalibration \/ EndCalibration \/ HandOver

-----------------------------------------------------------------------------
BootPlaces ==
    {"early", "init", "failed", "window", "wait", "calibration", "calibrate", "discard", "done"}

Boots == [at : BootPlaces, requested : BOOLEAN, stable : 0..StablePolls, polls : 0..(Lag + 1),
          held : 0..MaxTouches, overdue : BOOLEAN, aborted : BOOLEAN]
FingerEvents == [of : 0..MaxTouches, press : BOOLEAN]

BootTypeOK ==
    /\ boot \in Boots
    /\ down \in BOOLEAN /\ touch \in 0..MaxTouches
    /\ seen \in BOOLEAN /\ edge \in 0..MaxTouches
    /\ events \in Seq(FingerEvents) /\ Len(events) <= MaxEvents
    /\ behind \in 0..Lag
    /\ calibrated \in BOOLEAN

(* The hold that opens the settings is not a tap of the first app (system_boot.c:194-231). When   *)
(* the wait saw the finger leave, nothing of that touch is in the queue, or on its way to it,     *)
(* when the first app starts. When the wait ran out, the finger down or lifted a moment before,   *)
(* its RELEASE may still come, but no PRESS, without which no app takes a RELEASE for a tap.      *)
(* (Unless a calibration broke off under that finger: it makes the input task begin again.)       *)
NothingOfTheHold ==
    /\ \A i \in 1..Len(events) : events[i].of > boot.held
    /\ edge # 0 => edge > boot.held
    /\ seen => touch > boot.held

NoPressOfTheHold ==
    /\ \A i \in 1..Len(events) : events[i].press => events[i].of > boot.held
    /\ seen /\ edge # 0 => edge > boot.held
    /\ down /\ ~seen => touch > boot.held

HoldIsNoTap ==
    boot.at = "done" /\ boot.requested =>
        /\ ~boot.overdue => NothingOfTheHold
        /\ ~(boot.overdue /\ boot.aborted) => NoPressOfTheHold
=============================================================================
