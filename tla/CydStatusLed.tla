------------------------------ MODULE CydStatusLed ------------------------------
(* The status LED (cyd_status_led.c) and what it shows (status_indicator.c): the *)
(* Wi-Fi manager hands each change of its connection result to the LED's queue;   *)
(* a task renders the base pattern, or an overlay that ends after its time, every *)
(* 25 ms, and touches the pins only when the colour differs from the one it wrote *)
(* last. A blinking pattern is in either phase at any round.                      *)
EXTENDS Naturals, Sequences

CONSTANTS
    LedQueue,       \* CYD_STATUS_LED_QUEUE_LEN
    MaxOverlays,    \* bound: overlays that are ever triggered
    MaxPaints       \* bound: direct writes of the pins

ASSUME LedAssumption == {LedQueue, MaxOverlays, MaxPaints} \subseteq Nat

VARIABLES
    ledQueue,       \* s_led_queue
    led,            \* cyd_status_led_state_t: [base, overlay, overlayAt, current]
    pins,           \* the colour that the LED shows
    result,         \* what the Wi-Fi manager reported last
    refused,        \* history: that report did not get into the queue
    painted,        \* history: the pins were written directly since the task wrote them
    overlays, paints

ledVars == <<ledQueue, led, pins, result, refused, painted, overlays, paints>>

Pattern(color, effect, oneshot) == [color |-> color, effect |-> effect, oneshot |-> oneshot]
OffPattern == Pattern("off", "off", FALSE)

(* status_indicator_apply_wifi_status: no network saved, connected, or failed. *)
StatusPattern ==
    [none   |-> OffPattern,
     unset  |-> Pattern("red", "on", FALSE),
     ok     |-> Pattern("green", "on", FALSE),
     failed |-> Pattern("red", "blink", FALSE)]

(* A notice, and a trigger that is not a one-shot, which ends a running overlay. *)
OverlayPatterns == {Pattern("yellow", "flash", TRUE), Pattern("yellow", "on", FALSE)}

LedInit ==
    /\ ledQueue = <<>>
    /\ led = [base |-> OffPattern, overlay |-> OffPattern, overlayAt |-> "none", current |-> "off"]
    /\ pins = "off"
    /\ result = "none"
    /\ refused = FALSE
    /\ painted = FALSE
    /\ overlays = 0
    /\ paints = 0

-----------------------------------------------------------------------------
(* The callers. *)

LedSend(id, pattern) == ledQueue' = Append(ledQueue, [id |-> id, pattern |-> pattern])
HasRoom == Len(ledQueue) < LedQueue

(* The manager's connectivity callback; an update that finds the queue full for 100 ms is lost. *)
ShowResult(r) ==
    /\ r # result
    /\ result' = r
    /\ IF HasRoom THEN LedSend("base", StatusPattern[r]) ELSE UNCHANGED ledQueue
    /\ refused' = ~HasRoom
    /\ UNCHANGED <<led, pins, painted, overlays, paints>>

(* cyd_status_led_trigger_pattern *)
TriggerPattern ==
    /\ overlays < MaxOverlays
    /\ HasRoom
    /\ \E pattern \in OverlayPatterns : LedSend("trigger", pattern)
    /\ overlays' = overlays + 1
    /\ UNCHANGED <<led, pins, result, refused, painted, paints>>

(* cyd_status_led_set_rgb: the pins, without a word to the task. *)
SetRgb ==
    /\ paints < MaxPaints
    /\ pins' = "white"
    /\ painted' = TRUE
    /\ paints' = paints + 1
    /\ UNCHANGED <<ledQueue, led, result, refused, overlays>>

-----------------------------------------------------------------------------
(* The task. *)

(* cyd_status_led_render_pattern: a base pattern that flashes shows nothing. *)
BaseLooks(pattern) ==
    CASE pattern.effect = "on" -> {pattern.color}
      [] pattern.effect = "blink" -> {"off", pattern.color}
      [] OTHER -> {"off"}

(* cyd_status_led_render: an overlay may flash too. *)
OverlayLooks(pattern) ==
    IF pattern.effect = "flash" THEN {"off", pattern.color} ELSE BaseLooks(pattern)

TakeBase(state, pattern) == [state EXCEPT !.base = pattern]

(* A one-shot runs from now on; anything else ends the one that runs. *)
TakeTrigger(state, pattern) ==
    [state EXCEPT !.overlay = pattern, !.overlayAt = IF pattern.oneshot THEN "running" ELSE "none"]

Taken(state, cmd) ==
    IF cmd.id = "base" THEN TakeBase(state, cmd.pattern) ELSE TakeTrigger(state, cmd.pattern)

Rendered(state) == IF state.overlayAt = "over" THEN [state EXCEPT !.overlayAt = "none"] ELSE state
Looks(state) ==
    IF state.overlayAt = "running" THEN OverlayLooks(state.overlay) ELSE BaseLooks(state.base)

(* cyd_status_led_task: a round of the loop, with a command or after 25 ms without one. *)
LedRound ==
    /\ ledQueue' = IF ledQueue = <<>> THEN <<>> ELSE Tail(ledQueue)
    /\ LET state == Rendered(IF ledQueue = <<>> THEN led ELSE Taken(led, Head(ledQueue))) IN
        \E color \in Looks(state) :
            /\ led' = [state EXCEPT !.current = color]
            /\ IF color # led.current
               THEN pins' = color /\ painted' = FALSE
               ELSE UNCHANGED <<pins, painted>>
    /\ UNCHANGED <<result, refused, overlays, paints>>

(* The duration of the overlay has passed. *)
OverlayOver ==
    /\ led.overlayAt = "running"
    /\ led' = [led EXCEPT !.overlayAt = "over"]
    /\ UNCHANGED <<ledQueue, pins, result, refused, painted, overlays, paints>>

-----------------------------------------------------------------------------
LedNext ==
    \/ \E r \in {"unset", "ok", "failed"} : ShowResult(r)
    \/ TriggerPattern
    \/ SetRgb
    \/ LedRound
    \/ OverlayOver

-----------------------------------------------------------------------------
Colors == {"off", "red", "green", "yellow", "white"}
Patterns == [color : Colors, effect : {"off", "on", "blink", "flash"}, oneshot : BOOLEAN]

LedTypeOK ==
    /\ ledQueue \in Seq([id : {"base", "trigger"}, pattern : Patterns]) /\ Len(ledQueue) <= LedQueue
    /\ led \in [base : Patterns, overlay : Patterns, overlayAt : {"none", "running", "over"},
                current : Colors]
    /\ pins \in Colors
    /\ result \in DOMAIN StatusPattern
    /\ refused \in BOOLEAN /\ painted \in BOOLEAN
    /\ overlays \in 0..MaxOverlays /\ paints \in 0..MaxPaints

(* When the last report got into the queue, all of it has been served and no overlay runs, the   *)
(* LED shows the connection's result, whatever overlays ran before and whenever they ended        *)
(* (cyd_status_led.c:169, 245-262). Direct writes of the pins are exempt: the task does not know   *)
(* of them.                                                                                       *)
LedShowsResult ==
    ledQueue = <<>> /\ led.overlayAt = "none" /\ ~refused /\ ~painted =>
        pins \in BaseLooks(StatusPattern[result])
=============================================================================
