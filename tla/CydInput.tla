------------------------------ MODULE CydInput ------------------------------
(***************************************************************************)
(* The touch panel and the BOOT button, components/platform/cyd_input.     *)
(*                                                                         *)
(* The input task samples both, again and again, and queues what it makes  *)
(* of the samples as events; a full queue gives up its oldest.  The shell's*)
(* task reads the events, and calibrates: it asks the input task to park,  *)
(* drives the touch controller itself, and lets the task go again.         *)
(*                                                                         *)
(* One round of the task after the frame it reads from the controller is   *)
(* one step.  The interrupt only ends a wait early that ends anyway, so it *)
(* is left out.  The button is pressed or not at each sample; coordinates, *)
(* the calibration in use and the other fields of an event are left out;   *)
(* the published touch state is pressed exactly when touch.stable is.      *)
(***************************************************************************)
EXTENDS Naturals, Integers, Sequences

CONSTANTS
    QueueLength,    \* CONFIG_CYD_INPUT_EVENT_QUEUE_LENGTH
    StableCount,    \* CONFIG_CYD_INPUT_BINARY_STABLE_COUNT
    MaxSeconds,     \* CONFIG_CYD_BOOT_BUTTON_LONG_PRESS_MAX_SECONDS
    LongEvery,      \* CONFIG_CYD_INPUT_LONG_PRESS_REPEAT_MS / CONFIG_CYD_INPUT_TOUCH_REPEAT_MS
    MaxStage,       \* 15, the last long press
    MaxHeld,        \* bound: the repeats of one touch
    MaxCalls        \* bound: the calibrations, and clears

ASSUME InputAssumption ==
    /\ {QueueLength, StableCount, MaxSeconds, LongEvery, MaxStage} \subseteq Nat \ {0}
    /\ {MaxHeld, MaxCalls} \subseteq Nat

VARIABLES
    finger,         \* whether there is one on the panel
    task,           \* the input task, and its guard for a line that was low at boot
    pause,          \* pause_requested, pause_ack, the task's notification
    touch,          \* the touch filter: stable, last sample, long press and repeat stages
    boot,           \* the BOOT button filter: samples, seconds held, the click that waits
    queue,          \* event_queue
    calibrator,     \* the task that calibrates; whether its pause was answered
    store,          \* touch_calibration_saved, and the calibration in NVS
    told,           \* history: the last PRESS or RELEASE of a touch that was queued
    owed,           \* history: short presses of BOOT that were not reported yet
    lifts,          \* history: the PRESSes of touches that were told, less the RELEASEs
    forgotten,      \* history: touches that a calibration forgot
    calls           \* the calibrations, and clears, so far

vars == <<finger, task, pause, touch, boot, queue, calibrator, store, told, owed, lifts, forgotten, calls>>

(* A collected set of points is good or degenerate. *)
Sets == {"good", "bad"}
Edges == {"PRESS", "RELEASE"}

(* An event as it is in the queue: the other ones need not be told apart. *)
Entry(event) == IF event \in Edges THEN event ELSE "other"

Untouched == [stable |-> FALSE, last |-> FALSE, stage |-> 0, repeats |-> 0]
Unpressed == [stable |-> FALSE, last |-> FALSE, count |-> 0, seconds |-> 0,
              pending |-> FALSE, due |-> FALSE]
Idle == [at |-> "idle", answered |-> FALSE, set |-> "good", ok |-> FALSE]

(* touch_calibration_params_valid() and a matrix that is not singular. *)
Usable(set) == set = "good"

(* cyd_input_init() with what NVS holds: a set that cannot be used, or read,  *)
(* is left alone and reported; without one there is the default.              *)
Loaded(nvs, readable) ==
    [saved |-> readable /\ nvs # "none" /\ Usable(nvs), nvs |-> nvs]

Init ==
    /\ finger \in BOOLEAN
    /\ \E stuck \in BOOLEAN : task = [at |-> "top", guard |-> finger \/ stuck]
    /\ pause = [requested |-> FALSE, ack |-> FALSE, notified |-> FALSE]
    /\ touch = Untouched /\ boot = Unpressed /\ queue = <<>>
    /\ calibrator = Idle
    /\ store \in {Loaded(nvs, readable) : nvs \in {"none", "good"}, readable \in BOOLEAN}
    /\ told = "RELEASE" /\ owed = 0 /\ lifts = 0 /\ forgotten = 0 /\ calls = 0

-----------------------------------------------------------------------------
(* The filters: what one sample makes of them, and the events of it. *)

(* Mistaken: any two equal samples are a change. *)
TouchRepeats(sample) == sample = touch.last

(* A state changes with two equal samples that differ from it. *)
TouchChanges(sample) == sample = touch.last /\ sample # touch.stable

Stage(held) ==
    IF held = 0 THEN 0
    ELSE LET stage == 1 + (held - 1) \div LongEvery IN IF stage > MaxStage THEN MaxStage ELSE stage

(* touch as the sample leaves it, held for so many repeats by now. *)
TouchAfter(sample, held) ==
    LET stable == IF TouchChanges(sample) THEN sample ELSE touch.stable
        repeats == IF stable THEN held ELSE 0
    IN  [stable |-> stable, last |-> sample, stage |-> Stage(repeats), repeats |-> repeats]

(* A touch that was held on has long presses and repeats; one that begins now *)
(* has been held for no time.                                                 *)
MayBeHeld(sample, held) ==
    /\ held >= touch.repeats
    /\ (~touch.stable \/ TouchChanges(sample)) => held = touch.repeats

TouchEvents(sample, after) ==
    (IF ~TouchChanges(sample) THEN <<>> ELSE IF sample THEN <<"PRESS">> ELSE <<"RELEASE">>)
    \o (IF after.stable /\ after.stage > touch.stage THEN <<"LONG_PRESS">> ELSE <<>>)
    \o (IF after.stable /\ after.repeats > touch.repeats THEN <<"REPEAT">> ELSE <<>>)

Sampled(b, pressed) ==
    IF pressed # b.last THEN [b EXCEPT !.last = pressed, !.count = 1]
    ELSE IF b.count < StableCount THEN [b EXCEPT !.count = @ + 1]
    ELSE b

(* A short release is the second of a double click, or a click in waiting. *)
ShortRelease(b) ==
    IF b.pending THEN [boot |-> [b EXCEPT !.pending = FALSE, !.due = FALSE],
                       events |-> <<"BOOT_RELEASE", "DOUBLE_CLICK">>]
    ELSE [boot |-> [b EXCEPT !.pending = TRUE, !.due = FALSE], events |-> <<"BOOT_RELEASE">>]

Released(b) ==
    IF b.seconds = 0 THEN ShortRelease([b EXCEPT !.stable = FALSE])
    ELSE [boot |-> [b EXCEPT !.stable = FALSE, !.pending = FALSE, !.due = FALSE, !.seconds = 0],
          events |-> <<"BOOT_RELEASE">>]

(* A press that becomes long ends the wait of the click before it. *)
HeldOn(b, seconds) ==
    IF seconds <= b.seconds THEN [boot |-> b, events |-> <<>>]
    ELSE [boot |-> [b EXCEPT !.seconds = seconds, !.pending = FALSE, !.due = FALSE],
          events |-> IF b.pending THEN <<"CLICK", "BOOT_LONG_PRESS">> ELSE <<"BOOT_LONG_PRESS">>]

(* handle_boot_button_sample(), the button held for so many seconds by now. *)
BootAfter(pressed, seconds) ==
    LET b == Sampled(boot, pressed)
    IN  IF b.count >= StableCount /\ pressed # b.stable
        THEN IF pressed
             THEN [boot |-> [b EXCEPT !.stable = TRUE, !.seconds = 0], events |-> <<"BOOT_PRESS">>]
             ELSE Released(b)
        ELSE IF b.stable THEN HeldOn(b, seconds)
        ELSE [boot |-> b, events |-> <<>>]

(* finalize_boot_button_click(): nothing came of the double click in time. *)
Finalized(b) ==
    IF b.pending /\ b.due
    THEN [boot |-> [b EXCEPT !.pending = FALSE, !.due = FALSE], events |-> <<"CLICK">>]
    ELSE [boot |-> b, events |-> <<>>]

(* cyd_input_queue_event(), of one event after the other: a full queue gives  *)
(* up its oldest.                                                             *)
Queued(entries) ==
    IF Len(entries) <= QueueLength THEN entries
    ELSE SubSeq(entries, Len(entries) - QueueLength + 1, Len(entries))

Among(event, events) == IF \E i \in DOMAIN events : events[i] = event THEN 1 ELSE 0

(* Queues the events, which are of one round, and keeps the histories of them. *)
Emit(events) ==
    /\ queue' = Queued(queue \o [i \in DOMAIN events |-> Entry(events[i])])
    /\ told' = IF Among("PRESS", events) = 1 THEN "PRESS"
               ELSE IF Among("RELEASE", events) = 1 THEN "RELEASE" ELSE told
    /\ owed' = owed + (IF boot.seconds = 0 THEN Among("BOOT_RELEASE", events) ELSE 0)
                    - Among("CLICK", events) - 2 * Among("DOUBLE_CLICK", events)
    /\ lifts' = lifts + Among("PRESS", events) - Among("RELEASE", events)

-----------------------------------------------------------------------------
(* The input task. *)

At(place) == task.at = place
Goto(place) == task' = [task EXCEPT !.at = place]

NotSampled == UNCHANGED <<touch, boot, queue, told, owed, lifts>>
NotTask == UNCHANGED <<finger, calibrator, store, forgotten, calls>>

(* The top of the loop is where it parks; it holds nothing there. *)
Park ==
    /\ At("top") /\ pause.requested
    /\ pause' = [pause EXCEPT !.ack = TRUE] /\ Goto("parking")
    /\ NotSampled /\ NotTask

(* Mistaken: any notification ends it, and the round goes on. *)
StayParkedOnce ==
    /\ At("parking") /\ Goto(IF pause.requested /\ ~pause.notified THEN "parked" ELSE "frame")
    /\ UNCHANGED pause /\ NotSampled /\ NotTask

(* It looks at the request before every wait. *)
StayParked ==
    /\ At("parking") /\ Goto(IF pause.requested THEN "parked" ELSE "top")
    /\ UNCHANGED pause /\ NotSampled /\ NotTask

Notified ==
    /\ At("parked") /\ pause.notified
    /\ pause' = [pause EXCEPT !.notified = FALSE] /\ Goto("parking")
    /\ NotSampled /\ NotTask

(* The guard, up since the interrupt line was low at boot, goes when the line *)
(* is high; without a finger something else may still hold it low.            *)
LineIsHigh ==
    /\ At("top") /\ ~pause.requested /\ task.guard /\ ~finger
    /\ task' = [task EXCEPT !.guard = FALSE]
    /\ UNCHANGED pause /\ NotSampled /\ NotTask

(* It waits for the interrupt, or the end of the wait, unless it samples      *)
(* already or the guard is up; the wait leaves no notification.               *)
BeginFrame ==
    /\ At("top") /\ ~pause.requested
    /\ Goto("frame")
    /\ pause' = [pause EXCEPT !.notified = @ /\ (task.guard \/ touch.last \/ touch.stable)]
    /\ NotSampled /\ NotTask

(* Mistaken: a line that is low is not looked into. *)
GuardedRoundByLine ==
    /\ At("frame") /\ task.guard /\ Goto("top")
    /\ \E pressed \in BOOLEAN, seconds \in boot.seconds .. MaxSeconds :
        LET b == BootAfter(pressed, seconds) IN boot' = b.boot /\ Emit(b.events)
    /\ UNCHANGED <<pause, touch>> /\ NotTask

(* With the guard up only a touch that the controller confirms counts, which  *)
(* takes the guard down; otherwise the button alone is sampled.               *)
GuardedRound ==
    /\ At("frame") /\ task.guard
    /\ \/ /\ finger
          /\ task' = [at |-> "top", guard |-> FALSE]
          /\ NotSampled
       \/ /\ ~finger /\ Goto("top")
          /\ \E pressed \in BOOLEAN, seconds \in boot.seconds .. MaxSeconds :
                LET b == BootAfter(pressed, seconds) IN boot' = b.boot /\ Emit(b.events)
          /\ UNCHANGED touch
    /\ UNCHANGED pause /\ NotTask

(* A round: the touch sample, the button sample, the click that waited. *)
Round ==
    /\ At("frame") /\ ~task.guard /\ Goto("top")
    /\ \E held \in 0 .. MaxHeld, pressed \in BOOLEAN, seconds \in boot.seconds .. MaxSeconds :
        LET after == TouchAfter(finger, held)
            b == BootAfter(pressed, seconds)
            click == Finalized(b.boot)
        IN  /\ MayBeHeld(finger, held)
            /\ boot' = click.boot /\ touch' = after
            /\ Emit(TouchEvents(finger, after) \o b.events \o click.events)
    /\ UNCHANGED pause /\ NotTask

InputTask ==
    Park \/ StayParked \/ Notified \/ LineIsHigh \/ BeginFrame \/ GuardedRound \/ Round

-----------------------------------------------------------------------------
(* The task that calibrates and reads. *)

Calibrating(place) == calibrator.at = place
Then(place) == calibrator' = [calibrator EXCEPT !.at = place]

NotCalibrator == UNCHANGED <<finger, task, boot, queue, told, owed, lifts>>
Called == calls < MaxCalls /\ calls' = calls + 1

PauseTask ==
    /\ Calibrating("idle") /\ Called /\ Then("pausing")
    /\ pause' = [requested |-> TRUE, ack |-> FALSE, notified |-> TRUE]
    /\ UNCHANGED <<touch, forgotten, store>> /\ NotCalibrator

(* Without an answer it goes on after CYD_INPUT_PAUSE_ACK_TIMEOUT_MS. *)
PauseEnds ==
    /\ Calibrating("pausing")
    /\ calibrator' = [calibrator EXCEPT !.at = "collect", !.answered = pause.ack]
    /\ pause' = [pause EXCEPT !.ack = FALSE]
    /\ UNCHANGED <<touch, forgotten, store>> /\ NotCalibrator /\ UNCHANGED calls

(* A set that cannot be used is asked for again. *)
Collect(set) ==
    /\ Calibrating("collect")
    /\ IF Usable(set)
       THEN calibrator' = [calibrator EXCEPT !.at = "reset", !.set = set, !.ok = TRUE]
       ELSE UNCHANGED calibrator
    /\ UNCHANGED <<pause, touch, forgotten, store>> /\ NotCalibrator /\ UNCHANGED calls

CollectFails ==
    /\ Calibrating("collect")
    /\ calibrator' = [calibrator EXCEPT !.at = "reset", !.ok = FALSE]
    /\ UNCHANGED <<pause, touch, forgotten, store>> /\ NotCalibrator /\ UNCHANGED calls

(* The touch of before is forgotten, without an event. *)
ResetTouch ==
    /\ Calibrating("reset") /\ Then("resume")
    /\ touch' = Untouched
    /\ forgotten' = IF touch.stable THEN forgotten + 1 ELSE forgotten
    /\ UNCHANGED <<pause, store>> /\ NotCalibrator /\ UNCHANGED calls

ResumeTask ==
    /\ Calibrating("resume") /\ Then("wake")
    /\ pause' = [pause EXCEPT !.requested = FALSE]
    /\ UNCHANGED <<touch, forgotten, store>> /\ NotCalibrator /\ UNCHANGED calls

WakeTask ==
    /\ Calibrating("wake")
    /\ IF calibrator.ok THEN Then("save") ELSE calibrator' = Idle
    /\ pause' = [pause EXCEPT !.notified = TRUE]
    /\ UNCHANGED <<touch, forgotten, store>> /\ NotCalibrator /\ UNCHANGED calls

(* A save that fails may have been written all the same. *)
Save(result) ==
    /\ Calibrating("save") /\ calibrator' = Idle
    /\ \/ /\ result = "ok"
          /\ store' = [store EXCEPT !.nvs = calibrator.set, !.saved = TRUE]
       \/ /\ result = "failed"
          /\ \E nvs \in {store.nvs, calibrator.set} : store' = [store EXCEPT !.nvs = nvs]
    /\ UNCHANGED <<pause, touch, forgotten>> /\ NotCalibrator /\ UNCHANGED calls

(* cyd_input_clear_touch_calibration(). *)
Clear(result) ==
    /\ Calibrating("idle") /\ Called
    /\ \/ /\ result = "ok"
          /\ store' = [store EXCEPT !.nvs = "none", !.saved = FALSE]
       \/ /\ result = "failed"
          /\ \E nvs \in {store.nvs, "none"} : store' = [store EXCEPT !.nvs = nvs]
    /\ UNCHANGED <<pause, touch, forgotten, calibrator>> /\ NotCalibrator

ReadEvent ==
    /\ Calibrating("idle") /\ queue # <<>>
    /\ queue' = Tail(queue)
    /\ UNCHANGED <<finger, task, pause, touch, boot, calibrator, store, told, owed, lifts, forgotten, calls>>

DiscardEvents ==
    /\ Calibrating("idle") /\ queue # <<>>
    /\ queue' = <<>>
    /\ UNCHANGED <<finger, task, pause, touch, boot, calibrator, store, told, owed, lifts, forgotten, calls>>

Calibrator ==
    \/ PauseTask \/ PauseEnds \/ CollectFails \/ ResetTouch \/ ResumeTask \/ WakeTask
    \/ \E set \in Sets : Collect(set)
    \/ \E result \in {"ok", "failed"} : Save(result) \/ Clear(result)
    \/ ReadEvent \/ DiscardEvents

-----------------------------------------------------------------------------
(* What happens around them. *)

FingerMoves ==
    /\ finger' = ~finger
    /\ UNCHANGED <<task, pause, touch, boot, queue, calibrator, store, told, owed, lifts, forgotten, calls>>

(* CONFIG_CYD_BOOT_BUTTON_DOUBLE_CLICK_TIMEOUT_MS is over. *)
ClickIsDue ==
    /\ boot.pending /\ ~boot.due
    /\ boot' = [boot EXCEPT !.due = TRUE]
    /\ UNCHANGED <<finger, task, pause, touch, queue, calibrator, store, told, owed, lifts, forgotten, calls>>

Next == InputTask \/ Calibrator \/ FingerMoves \/ ClickIsDue

Spec == Init /\ [][Next]_vars

(* The task and the clock run; a calibration ends when the user ends it, but  *)
(* what comes after the last point does not wait.                             *)
Fairness ==
    /\ WF_vars(InputTask) /\ WF_vars(ClickIsDue)
    /\ WF_vars(PauseEnds \/ ResetTouch \/ ResumeTask \/ WakeTask)

FairSpec == Spec /\ Fairness

-----------------------------------------------------------------------------
(* The values of the variables; the queue holds no more than its length. *)
TypeOK ==
    /\ finger \in BOOLEAN
    /\ task \in [at: {"top", "parking", "parked", "frame"}, guard: BOOLEAN]
    /\ pause \in [requested: BOOLEAN, ack: BOOLEAN, notified: BOOLEAN]
    /\ touch \in [stable: BOOLEAN, last: BOOLEAN, stage: 0 .. MaxStage, repeats: 0 .. MaxHeld]
    /\ boot \in [stable: BOOLEAN, last: BOOLEAN, count: 0 .. StableCount, seconds: 0 .. MaxSeconds,
                 pending: BOOLEAN, due: BOOLEAN]
    /\ queue \in Seq(Edges \cup {"other"}) /\ Len(queue) <= QueueLength
    /\ calibrator \in [at: {"idle", "pausing", "collect", "reset", "resume", "wake", "save"},
                       answered: BOOLEAN, set: Sets, ok: BOOLEAN]
    /\ store \in [saved: BOOLEAN, nvs: Sets \cup {"none"}]
    /\ told \in Edges /\ owed \in Int /\ lifts \in Int /\ forgotten \in Nat
    /\ calls \in 0 .. MaxCalls

(* The comment on pause_task(): the caller drives the touch controller while  *)
(* the task is parked, never halfway through a frame of the task's, whatever  *)
(* notifications are left over; unless the pause was not answered in time.    *)
TouchBusIsExclusive == Calibrating("collect") /\ calibrator.answered => ~At("frame")

(* Every short press of BOOT is reported once: as a click, or with the next   *)
(* one as a double click, or it still waits; whatever long presses come       *)
(* between.                                                                   *)
ClicksAddUp == owed = IF boot.pending THEN 1 ELSE 0

(* Every touch is told as one PRESS and then one RELEASE, in turn, whatever    *)
(* the samples are; but the RELEASE of a touch that a calibration forgets is   *)
(* never told, so that the same finger's PRESS may be told again after it.     *)
(* While a touch lasts the last edge told is its PRESS; after it, its RELEASE, *)
(* unless a calibration has ever forgotten one.                               *)
TouchesAddUp ==
    /\ lifts = forgotten + (IF touch.stable THEN 1 ELSE 0)
    /\ touch.stable => told = "PRESS"
    /\ told = "PRESS" => touch.stable \/ forgotten > 0

(* Kconfig, CYD_INPUT_EVENT_QUEUE_LENGTH: a full queue gives up its oldest and *)
(* keeps the recent intent: the last press or release of a touch in the queue  *)
(* is the last that was told.                                                  *)
LastEdge(i) == queue[i] \in Edges /\ \A j \in DOMAIN queue : j > i => queue[j] \notin Edges

NewestEdgeIsKept == \A i \in DOMAIN queue : LastEdge(i) => queue[i] = told

(* All three of the above (cyd_input.c:703-721, 793-859, 1609): the short      *)
(* presses of BOOT and the clicks add up, the edges of the finger add up but   *)
(* for what a calibration forgets, and the last edge in the queue is the last  *)
(* of them.  (Told is what was put into the queue; who reads too late finds    *)
(* the older edges gone.)                                                      *)
EdgesAddUp == ClicksAddUp /\ TouchesAddUp /\ NewestEdgeIsKept

(* The comment on the guard: a finger that stays on the panel is seen, also   *)
(* one that was there at boot or that comes while the line is stuck, and one  *)
(* that is lifted is seen to go; after a calibration too.                     *)
TouchIsSeen ==
    Calibrating("idle") /\ touch.stable # finger
        ~> ~Calibrating("idle") \/ touch.stable = finger

(* docs/cyd_input.md: a click is held back for the time of a double click,    *)
(* and then it is decided.  Not while the guard samples the panel instead of   *)
(* the line: as a property in MCCydInput.cfg TLC finds it violated.            *)
ClickIsDecided == boot.pending ~> ~boot.pending \/ ~Calibrating("idle")
=============================================================================
