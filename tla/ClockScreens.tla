------------------------------- MODULE ClockScreens -------------------------------
(* The clock on the screen (cyd_clock_app.c) and its settings                       *)
(* (cyd_clock_settings_app.c): what is drawn, what a touch does, and when the clock *)
(* gives way to the screens of a Wi-Fi that failed. The alarms are the scheduler's, *)
(* which disables the second one when it has gone off. Wi-Fi and the time's          *)
(* synchronisation go on beside the app's task: it may find them in any state.      *)
EXTENDS Naturals

CONSTANT Times      \* the times of an alarm are 0 .. Times - 1, and wrap around

ASSUME ClockAssumption == Times \in Nat \ {0}

VARIABLES
    clock,      \* where the app is: [at, needs, redraw]: s_clock_needs_redraw, and the step's redraw
    face,       \* s_clock_use_24_hour
    alarms,     \* the schedules: alarm -> [on, time]
    glass,      \* what is on the screen: [screen, says], says being what that screen shows
    aimed,      \* the trackers' buttons: [face, failed, page], and whether a tap on the time may follow
    pressed,    \* the finger is down
    page,       \* s_clock_settings_page, forgotten when it is left
    guarded,    \* s_clock_settings_info_pin: the info screen is behind the PIN
    ticked,     \* a tick waits in s_clock_tick_queue
    changed     \* history: the scheduler changed an alarm, or a write failed, since the last drawing

clockVars == <<clock, face, alarms, glass, aimed, pressed, page, guarded, ticked, changed>>

Alarms == {1, 2}
FaceButtons == {"settings", "info", "alarm"}
FailedButtons == {"retry", "setup"}
Pages == <<"alarm 1", "alarm 2", "info", "schedules">>
NoAim == [face |-> "none", failed |-> "none", page |-> "none", tap |-> FALSE]

(* What the screens show: cyd_clock_app_show_clock, cyd_clock_settings_show *)
Face(f, a) == [screen |-> "face", says |-> <<f, a[1].on, a[2].on>>]
PageOf(p, a, g) ==
    [screen |-> Pages[p],
     says |-> CASE Pages[p] = "alarm 1" -> <<a[1].time>>
                [] Pages[p] = "alarm 2" -> <<a[2].time>>
                [] Pages[p] = "info"    -> <<g>>
                [] OTHER                -> <<>>]
Plain(screen) == [screen |-> screen, says |-> <<>>]

ClockInit ==
    /\ clock = [at |-> "input", needs |-> TRUE, redraw |-> FALSE]
    /\ face = TRUE
    /\ alarms = [a \in Alarms |-> [on |-> FALSE, time |-> 0]]
    /\ glass = Plain("boot")
    /\ aimed = NoAim
    /\ pressed \in BOOLEAN
    /\ page = 1
    /\ guarded \in BOOLEAN
    /\ ticked = FALSE
    /\ changed = FALSE

-----------------------------------------------------------------------------
(* The other tasks. *)

Tick ==
    /\ ~ticked
    /\ ticked' = TRUE
    /\ UNCHANGED <<clock, face, alarms, glass, aimed, pressed, page, guarded, changed>>

AlarmGoesOff ==
    /\ alarms[2].on
    /\ alarms' = [alarms EXCEPT ![2].on = FALSE]
    /\ changed' = TRUE
    /\ UNCHANGED <<clock, face, glass, aimed, pressed, page, guarded, ticked>>

-----------------------------------------------------------------------------
(* Touches, as the app reads them; b is the button they are on, "time" or "none". *)
Follow(b) == IF b \in FaceButtons \cup FailedButtons THEN b ELSE "none"

(* cyd_clock_app_cycle_alarm_mode: the first alarm is switched, then the second. *)
NextMode(a) ==
    CASE ~a[1].on /\ ~a[2].on -> <<TRUE, FALSE>>
      [] a[1].on /\ ~a[2].on  -> <<FALSE, TRUE>>
      [] ~a[1].on /\ a[2].on  -> <<TRUE, TRUE>>
      [] OTHER                -> <<FALSE, FALSE>>

(* A write that fails leaves the change in RAM, and the second alarm as it was. *)
CycleAlarms ==
    LET m == NextMode(alarms) IN
    \/ alarms' = [a \in Alarms |-> [alarms[a] EXCEPT !.on = m[a]]]
    \/ alarms' = [alarms EXCEPT ![1].on = m[1]]

(* cyd_clock_app_process_input. The app that a button asks for comes after the step. *)
PressFace(b) ==
    /\ clock.at = "input" /\ ~pressed
    /\ pressed' = TRUE
    /\ aimed' = [aimed EXCEPT !.face = Follow(b), !.tap = b = "time"]
    /\ UNCHANGED <<clock, face, alarms, glass, page, guarded, ticked, changed>>

HoldFace ==
    /\ clock.at = "input" /\ pressed
    /\ aimed' = [aimed EXCEPT !.face = "none", !.tap = FALSE]
    /\ UNCHANGED <<clock, face, alarms, glass, pressed, page, guarded, ticked, changed>>

ReleaseFace(b) ==
    /\ clock.at = "input" /\ pressed
    /\ pressed' = FALSE
    /\ \/ /\ b = aimed.face /\ b = "alarm"
          /\ CycleAlarms
          /\ clock' = [clock EXCEPT !.redraw = TRUE]
          /\ aimed' = [aimed EXCEPT !.face = "none"]
          /\ UNCHANGED face
       \/ /\ b = aimed.face /\ b \in {"settings", "info"}
          /\ clock' = [clock EXCEPT !.at = "leaving"]
          /\ aimed' = [aimed EXCEPT !.face = "none"]
          /\ UNCHANGED <<face, alarms>>
       \/ /\ b # aimed.face \/ b \notin FaceButtons
          /\ face' = IF aimed.tap /\ b = "time" THEN ~face ELSE face
          /\ clock' = [clock EXCEPT !.redraw = @ \/ face' # face]
          /\ aimed' = [aimed EXCEPT !.face = "none", !.tap = FALSE]
          /\ UNCHANGED alarms
    /\ UNCHANGED <<glass, page, guarded, ticked, changed>>

-----------------------------------------------------------------------------
(* The rest of a step on the face: cyd_clock_app_step. *)
TakeTicks ==
    /\ clock.at = "input"
    /\ clock' = [clock EXCEPT !.at = "setup?", !.redraw = @ \/ clock.needs \/ ticked]
    /\ ticked' = FALSE
    /\ UNCHANGED <<face, alarms, glass, aimed, pressed, page, guarded, changed>>

(* cyd_clock_app_should_enter_wifi_setup: a required setup is entered when it was asked for, or as *)
(* long as no sync succeeded.                                                                     *)
LookForSetup ==
    /\ clock.at = "setup?"
    /\ \/ /\ clock' = [clock EXCEPT !.at = "away", !.redraw = FALSE]
          /\ glass' = Plain("other")
       \/ /\ clock' = [clock EXCEPT !.at = "failed?"]
          /\ UNCHANGED glass
    /\ UNCHANGED <<face, alarms, aimed, pressed, page, guarded, ticked, changed>>

(* cyd_clock_app_should_show_wifi_failed *)
LookForFailure ==
    /\ clock.at = "failed?"
    /\ \/ clock' = [clock EXCEPT !.at = "failed", !.redraw = FALSE]
       \/ clock' = [clock EXCEPT !.at = "draw"]
    /\ UNCHANGED <<face, alarms, glass, aimed, pressed, page, guarded, ticked, changed>>

Draw ==
    /\ clock.at = "draw"
    /\ clock' = [at |-> "input", needs |-> clock.needs /\ ~clock.redraw, redraw |-> FALSE]
    /\ glass' = IF clock.redraw THEN Face(face, alarms) ELSE glass
    /\ changed' = (changed /\ ~clock.redraw)
    /\ UNCHANGED <<face, alarms, aimed, pressed, page, guarded, ticked>>

(* The step ends, with the face drawn if need be, and the shell changes apps. *)
LeaveFace ==
    /\ clock.at = "leaving"
    /\ clock' = [clock EXCEPT !.at = "away", !.redraw = FALSE]
    /\ glass' = Plain("other")
    /\ UNCHANGED <<face, alarms, aimed, pressed, page, guarded, ticked, changed>>

(* cyd_clock_app_enter; the trackers stay as they were left. *)
EnterClock ==
    /\ clock.at = "away"
    /\ clock' = [at |-> "input", needs |-> TRUE, redraw |-> FALSE]
    /\ pressed' \in BOOLEAN
    /\ UNCHANGED <<face, alarms, glass, aimed, page, guarded, ticked, changed>>

-----------------------------------------------------------------------------
(* The screen of a Wi-Fi that failed, and the one of the retry, each a loop in a step. *)

(* Mistaken: nobody notes that the face has to be drawn again. *)
NotNoted == clock.needs

(* s_clock_needs_redraw after either of them *)
RedrawAfter == TRUE

ShowFailed ==
    /\ clock.at = "failed"
    /\ clock' = [clock EXCEPT !.at = "asking"]
    /\ glass' = Plain("failed")
    /\ aimed' = [aimed EXCEPT !.failed = "none"]
    /\ UNCHANGED <<face, alarms, pressed, page, guarded, ticked, changed>>

BackToFace == clock' = [at |-> "input", needs |-> RedrawAfter, redraw |-> FALSE]

PressFailed(b) ==
    /\ clock.at = "asking" /\ ~pressed
    /\ pressed' = TRUE
    /\ aimed' = [aimed EXCEPT !.failed = Follow(b), !.tap = b = "time"]
    /\ UNCHANGED <<clock, face, alarms, glass, page, guarded, ticked, changed>>

(* The retry may be refused; the screen is then shown again. *)
ReleaseFailed(b) ==
    /\ clock.at = "asking" /\ pressed
    /\ pressed' = FALSE
    /\ aimed' = [aimed EXCEPT !.failed = "none", !.tap = @ /\ b = aimed.failed]
    /\ \/ /\ b = aimed.failed /\ b = "retry"
          /\ clock' = [clock EXCEPT !.at = "retrying"]
          /\ UNCHANGED glass
       \/ /\ b = aimed.failed /\ b = "retry"
          /\ clock' = [clock EXCEPT !.at = "failed", !.needs = RedrawAfter]
          /\ UNCHANGED glass
       \/ /\ b = aimed.failed /\ b = "setup"
          /\ clock' = [clock EXCEPT !.at = "away"]
          /\ glass' = Plain("other")
       \/ /\ b # aimed.failed \/ b \notin FailedButtons
          /\ UNCHANGED <<clock, glass>>
    /\ UNCHANGED <<face, alarms, page, guarded, ticked, changed>>

(* Nobody touches the screen for as long as the shell waits. *)
FailedGivesUp ==
    /\ clock.at = "asking" /\ ~pressed
    /\ BackToFace
    /\ UNCHANGED <<face, alarms, glass, aimed, pressed, page, guarded, ticked, changed>>

(* cyd_clock_app_run_wifi_retrying: touches are read and dropped, but for the tap's tracker. *)
RetryTouch(b) ==
    /\ clock.at = "retrying"
    /\ pressed' = ~pressed
    /\ aimed' = [aimed EXCEPT !.tap = ~pressed /\ b = "time"]
    /\ UNCHANGED <<clock, face, alarms, glass, page, guarded, ticked, changed>>

(* It connected, it failed or was switched off, or it goes on. *)
Retrying ==
    /\ clock.at = "retrying"
    /\ glass' = Plain("retrying")
    /\ \/ BackToFace
       \/ clock' = [clock EXCEPT !.at = "failed"]
       \/ UNCHANGED clock
    /\ UNCHANGED <<face, alarms, aimed, pressed, page, guarded, ticked, changed>>

-----------------------------------------------------------------------------
(* The clock's settings. *)
Arrows == {"up", "down"}

PageButtons(p) ==
    {"back", "prev", "next"} \cup (IF Pages[p] \in {"alarm 1", "alarm 2"} THEN Arrows
                                   ELSE IF Pages[p] = "info" THEN {"pin"} ELSE {})

ShowPage(p, a, g) == glass' = PageOf(p, a, g) /\ page' = p /\ changed' = FALSE

EnterPages ==
    /\ clock.at = "away"
    /\ clock' = [clock EXCEPT !.at = "pages"]
    /\ ShowPage(1, alarms, guarded)
    /\ aimed' = [aimed EXCEPT !.page = "none"]
    /\ pressed' \in BOOLEAN
    /\ UNCHANGED <<face, alarms, guarded, ticked>>

Stepped(t, b) == IF b = "up" THEN (IF t >= Times - 1 THEN 0 ELSE t + 1) ELSE (IF t = 0 THEN Times - 1 ELSE t - 1)

(* cyd_clock_settings_handle_alarm_action: the change is in RAM also when it cannot be saved, and  *)
(* then the page is not shown again.                                                              *)
StepAlarm(b) ==
    /\ alarms' = [alarms EXCEPT ![page].time = Stepped(@, b)]
    /\ \/ ShowPage(page, alarms', guarded)
       \/ changed' = TRUE /\ UNCHANGED <<glass, page>>
    /\ UNCHANGED <<clock, guarded>>

(* The choice is saved first; a write that fails leaves it as it was. *)
ChoosePin ==
    /\ UNCHANGED <<clock, alarms>>
    /\ \/ guarded' = ~guarded /\ ShowPage(page, alarms, guarded')
       \/ UNCHANGED <<guarded, glass, page, changed>>

(* A stepper acts on PRESS and REPEAT, and its press goes by the tracker. *)
PressPage(b) ==
    /\ clock.at = "pages" /\ ~pressed
    /\ pressed' = TRUE
    /\ IF b \in Arrows
       THEN StepAlarm(b) /\ UNCHANGED aimed
       ELSE aimed' = [aimed EXCEPT !.page = b] /\ UNCHANGED <<clock, alarms, glass, page, guarded, changed>>
    /\ UNCHANGED <<face, ticked>>

HoldPage(b) ==
    /\ clock.at = "pages" /\ pressed
    /\ IF b \in Arrows
       THEN StepAlarm(b) /\ UNCHANGED aimed
       ELSE aimed' = [aimed EXCEPT !.page = "none"] /\ UNCHANGED <<clock, alarms, glass, page, guarded, changed>>
    /\ UNCHANGED <<face, pressed, ticked>>

TurnTo(p) == ShowPage(p, alarms, guarded) /\ UNCHANGED <<clock, alarms, guarded>>

PageButton(b) ==
    CASE b = "prev" /\ page > 1 -> TurnTo(page - 1)
      [] b = "next" /\ page < 4 -> TurnTo(page + 1)
      [] b = "pin"              -> ChoosePin
      [] b = "back"             -> /\ clock' = [clock EXCEPT !.at = "away"]
                                   /\ glass' = Plain("other")
                                   /\ page' = 1
                                   /\ UNCHANGED <<alarms, guarded, changed>>
      [] OTHER                  -> UNCHANGED <<clock, alarms, guarded, glass, page, changed>>

ReleasePage(b) ==
    /\ clock.at = "pages" /\ pressed
    /\ pressed' = FALSE
    /\ aimed' = [aimed EXCEPT !.page = "none"]
    /\ IF b # "none" /\ b = aimed.page THEN PageButton(b)
       ELSE UNCHANGED <<clock, alarms, glass, page, guarded, changed>>
    /\ UNCHANGED <<face, ticked>>

-----------------------------------------------------------------------------
ClockNext ==
    \/ Tick \/ AlarmGoesOff
    \/ \E b \in FaceButtons \cup {"time", "none"} : PressFace(b) \/ ReleaseFace(b)
    \/ HoldFace \/ TakeTicks \/ LookForSetup \/ LookForFailure \/ Draw \/ LeaveFace \/ EnterClock
    \/ ShowFailed \/ FailedGivesUp \/ Retrying \/ RetryTouch("time") \/ RetryTouch("none")
    \/ \E b \in FailedButtons \cup {"time", "none"} : PressFailed(b) \/ ReleaseFailed(b)
    \/ EnterPages
    \/ \E b \in PageButtons(page) \cup {"none"} : PressPage(b) \/ HoldPage(b) \/ ReleasePage(b)

-----------------------------------------------------------------------------
ClockTypeOK ==
    /\ clock.at \in {"input", "setup?", "failed?", "draw", "leaving", "away", "failed", "asking", "retrying", "pages"}
    /\ {clock.needs, clock.redraw, face, pressed, ticked, changed, aimed.tap} \subseteq BOOLEAN
    /\ alarms \in [Alarms -> [on : BOOLEAN, time : 0 .. Times - 1]]
    /\ aimed.face \in FaceButtons \cup {"none"} /\ aimed.failed \in FailedButtons \cup {"none"}
    /\ page \in 1 .. 4

(* What is on the screen is what is so: when the clock has nothing left to draw for, its face shows  *)
(* the format and the alarms, whatever screens of a failed Wi-Fi, of the settings or of the setup     *)
(* came in between; and so does a page of its settings. Only what the scheduler changed waits for    *)
(* the next tick (cyd_clock_app.c:566-598), and a page for the next touch after a write that failed. *)
ShownIsTrue ==
    ~changed =>
        /\ clock.at = "input" /\ ~clock.needs /\ ~clock.redraw /\ ~ticked => glass = Face(face, alarms)
        /\ clock.at = "pages" => glass = PageOf(page, alarms, guarded)
=============================================================================
