------------------------------- MODULE CydDisplay -------------------------------
(* The display (cyd_display.cpp, cyd_display_render.hpp): the app's task queues      *)
(* whole screens, a task of its own draws what differs from the screen before, strip *)
(* by strip. The log view and the calibration draw on the same panel, the second     *)
(* from the app's task and without the queue.                                        *)
(*                                                                                   *)
(* A widget is the strips that it covers and what it shows; a strip's picture is the  *)
(* widgets on it, in their order. A row of the log is as high as a strip.             *)
EXTENDS Naturals, Sequences, SequencesExt

CONSTANTS
    Strips,         \* strips of the panel
    Screens,        \* the screens that the app shows
    LogTexts,       \* lines that are logged
    ScreenQueue,    \* DISPLAY_QUEUE_LENGTH
    LogQueue,       \* DISPLAY_LOG_QUEUE_LENGTH
    LogLines,       \* CYD_DISPLAY_LOG_MAX_LINES
    MaxRects        \* MAX_DIRTY_RECTS

ASSUME DisplayAssumption ==
    /\ {Strips, ScreenQueue, LogQueue} \subseteq Nat \ {0}
    /\ {LogLines, MaxRects} \subseteq Nat

VARIABLES
    queued,         \* [screens, log]: s_display_queue and s_display_log_queue
    handles,        \* s_display_queue_set: which queue something was put into
    task,           \* the display task: [at, dirty: the strips that it has still to draw]
    current,        \* s_current_screen
    previous,       \* s_previous_screen
    hasPrevious,    \* s_has_previous_screen
    log,            \* s_log_state: [visible, lines, scroll]
    panel,          \* what each strip of the panel shows
    calibrating,    \* a calibration draws on the panel
    drawn,          \* history: the screen that was submitted last has come to be drawn
    beside          \* history: the calibration and the display task drew at the same time

displayVars ==
    <<queued, handles, task, current, previous, hasPrevious, log, panel, calibrating, drawn, beside>>

Widget(first, last, mark) == [first |-> first, last |-> last, mark |-> mark]
Marks == <<Widget(1, Strips, "calibration")>>
Covers(w, s) == w.first <= s /\ s <= w.last

(* cyd_display_render_screen_to_target, on one strip *)
Picture(screen, s) == RestrictValues(screen, LAMBDA w : Covers(w, s))

DisplayInit ==
    /\ queued = [screens |-> <<>>, log |-> <<>>]
    /\ handles = <<>>
    /\ task = [at |-> "select", dirty |-> {}]
    /\ current = <<>> /\ previous = <<>>
    /\ hasPrevious = FALSE
    /\ log = [visible |-> FALSE, lines |-> <<>>, scroll |-> 0]
    /\ panel = [s \in 1..Strips |-> <<>>]
    /\ calibrating = FALSE
    /\ drawn = TRUE
    /\ beside = FALSE

-----------------------------------------------------------------------------
(* The app's task, which owns the display. *)

(* The oldest entry makes room; it is received without its handle, which stays in the set. *)
MakeRoom(queue) == Tail(queue)

(* cyd_display_submit_screen, cyd_display_submit_log_cmd. The set has room for an entry of each   *)
(* queue: more entries dropped than that while one screen is drawn are beyond this model.         *)
Submit(which, length, item) ==
    LET queue == queued[which] IN
    /\ ~calibrating
    /\ Len(handles) < ScreenQueue + LogQueue
    /\ queued' = [queued EXCEPT ![which] = Append(IF Len(queue) < length THEN queue ELSE MakeRoom(queue), item)]
    /\ handles' = Append(handles, which)
    /\ UNCHANGED <<task, current, previous, hasPrevious, log, panel, calibrating, beside>>

SubmitScreen(screen) ==
    /\ Submit("screens", ScreenQueue, screen)
    /\ drawn' = FALSE

LogCommands ==
    [id : {"show", "hide", "clear", "scroll older", "scroll newer"}, text : {"none"}]
        \cup [id : {"push"}, text : LogTexts]

SubmitLog(cmd) == Submit("log", LogQueue, cmd) /\ UNCHANGED drawn

Busy == task.at # "select" \/ handles # <<>>

(* cyd_display_show_touch_calibration_screen, and the targets after it *)
DrawCalibration ==
    /\ panel' = [s \in 1..Strips |-> Marks]
    /\ calibrating' = TRUE
    /\ beside' = (beside \/ Busy)
    /\ UNCHANGED <<queued, handles, task, current, previous, hasPrevious, log, drawn>>

(* cyd_display_invalidate, at the end of a calibration *)
Invalidate ==
    /\ calibrating
    /\ hasPrevious' = FALSE
    /\ calibrating' = FALSE
    /\ beside' = (beside \/ Busy)
    /\ UNCHANGED <<queued, handles, task, current, previous, log, panel, drawn>>

-----------------------------------------------------------------------------
(* What differs between two screens. *)

(* The positions whose widget is not the same on both. *)
Changed(before, now) ==
    {i \in DOMAIN before \cup DOMAIN now : ~(i \in DOMAIN before \cap DOMAIN now /\ before[i] = now[i])}

(* Mistaken: the place that a widget leaves is not drawn again. *)
NowhereLeft(before, now) == {}

(* cyd_display_collect_dirty_rects: the old and the new place of each of them *)
PlacesLeft(before, now) == {before[i] : i \in Changed(before, now) \cap DOMAIN before}
PlacesTaken(before, now) == {now[i] : i \in Changed(before, now) \cap DOMAIN now}

(* cyd_display_append_dirty_rect: a list that is full becomes the whole panel. *)
Overflows(before, now) ==
    MaxRects < Cardinality(Changed(before, now) \cap DOMAIN before)
                 + Cardinality(Changed(before, now) \cap DOMAIN now)

(* cyd_display_mark_dirty_strips *)
DirtyStrips(before, now) ==
    IF ~hasPrevious \/ Overflows(before, now)
    THEN 1..Strips
    ELSE {s \in 1..Strips : \E w \in PlacesLeft(before, now) \cup PlacesTaken(before, now) : Covers(w, s)}

-----------------------------------------------------------------------------
(* The log view. *)

LogRows == Strips - 1
VisibleRows(lines) == IF Len(lines) > LogRows THEN LogRows ELSE Len(lines)
MaxScroll(lines) == Len(lines) - VisibleRows(lines)

(* cyd_display_render_log_screen: the title and the lines that the scroll leaves visible *)
LogScreen(l) ==
    LET rows == VisibleRows(l.lines)
        first == Len(l.lines) - rows - l.scroll IN
    <<Widget(1, 1, "title")>> \o [i \in 1..rows |-> Widget(i + 1, i + 1, l.lines[first + i])]

(* Mistaken: the oldest line stays. *)
EveryLine(lines) == lines

Newest(lines) == IF Len(lines) > LogLines THEN Tail(lines) ELSE lines

(* cyd_display_handle_log_cmd *)
LogAfter(cmd) ==
    CASE cmd.id = "show"  -> [log EXCEPT !.visible = TRUE, !.scroll = 0]
      [] cmd.id = "hide"  -> [log EXCEPT !.visible = FALSE]
      [] cmd.id = "clear" -> [log EXCEPT !.lines = <<>>, !.scroll = 0]
      [] cmd.id = "push"  -> [log EXCEPT !.lines = Newest(Append(@, cmd.text)), !.scroll = 0]
      [] cmd.id = "scroll older" ->
            [log EXCEPT !.scroll = IF @ < MaxScroll(log.lines) THEN @ + 1 ELSE MaxScroll(log.lines)]
      [] cmd.id = "scroll newer" -> [log EXCEPT !.scroll = IF @ = 0 THEN 0 ELSE @ - 1]

-----------------------------------------------------------------------------
(* The display task. *)

Select ==
    /\ task.at = "select"
    /\ handles # <<>>
    /\ task' = [task EXCEPT !.at = Head(handles)]
    /\ handles' = Tail(handles)
    /\ UNCHANGED <<queued, current, previous, hasPrevious, log, panel, calibrating, drawn, beside>>

(* cyd_display_apply_screen, up to the drawing *)
Apply(screen) ==
    /\ current' = screen
    /\ task' = [at |-> "draw", dirty |-> DirtyStrips(previous, screen)]
    /\ beside' = (calibrating \/ (beside /\ hasPrevious))

(* A handle whose entry made room for another finds an entry that is announced later, or none. *)
ReceiveNothing ==
    /\ task.at \in {"screens", "log"}
    /\ queued[task.at] = <<>>
    /\ task' = [task EXCEPT !.at = "select"]
    /\ UNCHANGED <<queued, handles, current, previous, hasPrevious, log, panel, calibrating, drawn, beside>>

ReceiveScreen ==
    /\ task.at = "screens"
    /\ queued.screens # <<>>
    /\ Apply(Head(queued.screens))
    /\ queued' = [queued EXCEPT !.screens = Tail(@)]
    /\ drawn' = (Len(queued.screens) = 1)
    /\ UNCHANGED <<handles, previous, hasPrevious, log, panel, calibrating>>

(* Lines are kept while the view is hidden; hiding it leaves the panel empty. *)
ReceiveLog ==
    /\ task.at = "log"
    /\ queued.log # <<>>
    /\ LET cmd == Head(queued.log) IN
        /\ log' = LogAfter(cmd)
        /\ IF log'.visible \/ cmd.id = "hide"
           THEN Apply(IF log'.visible THEN LogScreen(log') ELSE <<>>)
           ELSE task' = [task EXCEPT !.at = "select"] /\ UNCHANGED <<current, beside>>
    /\ queued' = [queued EXCEPT !.log = Tail(@)]
    /\ UNCHANGED <<handles, previous, hasPrevious, panel, calibrating, drawn>>

FirstOf(strips) == CHOOSE s \in strips : \A t \in strips : s <= t

(* cyd_display_flush_strip *)
FlushStrip ==
    /\ task.at = "draw"
    /\ task.dirty # {}
    /\ panel' = [panel EXCEPT ![FirstOf(task.dirty)] = Picture(current, FirstOf(task.dirty))]
    /\ task' = [task EXCEPT !.dirty = @ \ {FirstOf(@)}]
    /\ beside' = (beside \/ calibrating)
    /\ UNCHANGED <<queued, handles, current, previous, hasPrevious, log, calibrating, drawn>>

Drawn ==
    /\ task.at = "draw"
    /\ task.dirty = {}
    /\ previous' = current
    /\ hasPrevious' = TRUE
    /\ task' = [task EXCEPT !.at = "select"]
    /\ UNCHANGED <<queued, handles, current, log, panel, calibrating, drawn, beside>>

-----------------------------------------------------------------------------
DisplayTask == Select \/ ReceiveNothing \/ ReceiveScreen \/ ReceiveLog \/ FlushStrip \/ Drawn

DisplayNext ==
    \/ DisplayTask
    \/ \E screen \in Screens : SubmitScreen(screen)
    \/ \E cmd \in LogCommands : SubmitLog(cmd)
    \/ DrawCalibration \/ Invalidate

-----------------------------------------------------------------------------
DisplayTypeOK ==
    /\ Len(queued.screens) <= ScreenQueue /\ Len(queued.log) <= LogQueue
    /\ Len(handles) <= ScreenQueue + LogQueue
    /\ task.at \in {"select", "screens", "log", "draw"} /\ task.dirty \subseteq 1..Strips
    /\ hasPrevious \in BOOLEAN /\ calibrating \in BOOLEAN /\ beside \in BOOLEAN
    /\ Len(log.lines) <= LogLines /\ log.scroll <= MaxScroll(log.lines)

AtRest == ~Busy /\ ~calibrating

(* Whatever was queued, dropped for newer screens and announced by handles that outlive their      *)
(* screens: a display at rest has drawn the newest screen, and each strip of the panel shows what  *)
(* it would show had the last screen been drawn as a whole - only what a calibration drew while     *)
(* the task was drawing too may remain (cyd_display.cpp:441-500, 897-930,                           *)
(* cyd_display_render.hpp:744-858).                                                                 *)
PanelShowsNewest ==
    AtRest =>
        /\ drawn /\ queued.screens = <<>> /\ queued.log = <<>>
        /\ hasPrevious /\ ~beside => \A s \in 1..Strips : panel[s] = Picture(previous, s)

(* docs/cyd_display.md:419 of cyd_display_invalidate(): the next screen is drawn as a whole. It is *)
(* not when the task finishes a screen after the call, which then counts as drawn.                 *)
InvalidateHolds ==
    AtRest /\ hasPrevious => \A s \in 1..Strips : panel[s] = Picture(previous, s)
=============================================================================
