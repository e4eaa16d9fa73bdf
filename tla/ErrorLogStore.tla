----------------------------- MODULE ErrorLogStore -----------------------------
(***************************************************************************)
(* The error log on the SD card, components/services/error_log_store.      *)
(*                                                                         *)
(* Any task may log.  A repeat of a line is only counted; any other line   *)
(* is written to the card writer's stream when the log is open, and held   *)
(* in RAM when it is not.  Whoever finds that the log can be opened opens  *)
(* it: the card is ready, and whether the clock is right has been          *)
(* answered.  The lines held are written first, one by one, outside the    *)
(* lock.  Meanwhile the card may go: stop() closes the log under the feet  *)
(* of the tasks that are writing.                                          *)
(*                                                                         *)
(* Each critical section of s_lock is one action, and so is each call of   *)
(* the card writer; of the writer only the stream's fate matters here.     *)
(* SdCardStatus, which extends this module, is the task that calls start() *)
(* and stop().                                                             *)
(***************************************************************************)
EXTENDS Naturals, Sequences, FiniteSets, SequencesExt

CONSTANTS
    Loggers,        \* the tasks that log, but for the monitor
    Monitor,        \* the SD card monitor's task, which logs as well
    Keys,           \* what is logged: error_log_dedupe_key()
    NoteKey,        \* the key of the monitor's own lines
    Slots,          \* ERROR_LOG_DEDUPE_SLOTS
    Batch,          \* the counts that error_log_store_flush_repeats() takes at a time
    HoldLines       \* the lines that the hold has room for

Tasks == Loggers \cup {Monitor}

(* A line that is held, in place of the task that has it. *)
Held == "held"

ASSUME LogAssumption ==
    /\ Monitor \notin Loggers /\ Loggers # {} /\ Held \notin Tasks
    /\ NoteKey \notin Keys
    /\ Slots \in Nat \ {0} /\ Batch \in Nat \ {0} /\ HoldLines \in Nat

VARIABLES
    log,            \* s_stream # NULL, s_open, s_releasing, s_card_ready, s_decided
    stream,         \* the card writer's stream that s_stream names or named last
    lines,          \* the lines logged and not yet handed to the writer, oldest first: held in
                    \* RAM, or on their way in a task
    dropped,        \* error_log_hold: lines were lost since the last notice
    repeats,        \* s_dedupe: the events seen, least recently seen first
    repeatTimer,    \* s_repeat_timer is active
    doing,          \* each task: its place, the lines it has still to log, and where it goes then
    refused         \* history: a release gave up because no stream could be opened, and none
                    \* came this far since (or the log was stopped)

logVars == <<log, stream, lines, dropped, repeats, repeatTimer, doing, refused>>

Places == {"idle", "emit", "direct", "release", "open", "publish", "closeOwn", "drops",
           "pop", "held", "collect", "collectAll", "arm", "setTimer"}
Afters == {"idle", "collect", "collectAll", "arm"}
Doings == [at: Places, todo: 0 .. Batch + 1, after: Afters]

HeldCount == Cardinality({i \in DOMAIN lines : lines[i] = Held})

Event(key) == [key |-> key, again |-> FALSE, recent |-> TRUE]
Events == [key: Keys \cup {NoteKey}, again: BOOLEAN, recent: BOOLEAN]

LogTypeOK ==
    /\ log \in [has: BOOLEAN, open: BOOLEAN, releasing: BOOLEAN, ready: BOOLEAN, decided: BOOLEAN]
    /\ stream \in {"none", "ok", "failed"}
    /\ lines \in Seq(Tasks \cup {Held}) /\ HeldCount <= HoldLines
    /\ repeats \in Seq(Events) /\ Len(repeats) <= Slots
    /\ doing \in [Tasks -> Doings]
    /\ dropped \in BOOLEAN /\ repeatTimer \in BOOLEAN /\ refused \in BOOLEAN

Idle == [at |-> "idle", todo |-> 0, after |-> "idle"]

LogInit ==
    /\ log = [has |-> FALSE, open |-> FALSE, releasing |-> FALSE, ready |-> FALSE, decided |-> FALSE]
    /\ stream = "none"
    /\ lines = <<>> /\ dropped = FALSE
    /\ repeats = <<>> /\ repeatTimer = FALSE
    /\ doing = [t \in Tasks |-> Idle]
    /\ refused = FALSE

-----------------------------------------------------------------------------
(* Where a task goes: to a place, or on with the lines it has still to log    *)
(* and then to a place.                                                       *)
Goes(t, place) == doing' = [doing EXCEPT ![t].at = place]

Has(t, n, after) ==
    doing' = [doing EXCEPT ![t] = IF n > 0 THEN [at |-> "emit", todo |-> n, after |-> after]
                                           ELSE [at |-> after, todo |-> 0, after |-> "idle"]]

GoesOn(t) == Has(t, doing[t].todo, doing[t].after)

At(t, place) == doing[t].at = place

-----------------------------------------------------------------------------
(* error_log_dedupe_check(): an event seen within the window is only counted. *)
(* After it, the count is reported before the event.  A new event takes the   *)
(* place of the one least recently seen, of those with nothing to report if   *)
(* there is one, and what was counted for that one is reported.               *)
Seen(key) == \E i \in DOMAIN repeats : repeats[i].key = key
PlaceOf(key) == CHOOSE i \in DOMAIN repeats : repeats[i].key = key

Quiet == {i \in DOMAIN repeats : ~repeats[i].again}
Victim == IF Quiet = {} THEN 1 ELSE CHOOSE i \in Quiet : \A j \in Quiet : i <= j

Count(event) == IF event.again THEN 1 ELSE 0

(* The slots after the event, and the lines to log: none when it is a repeat. *)
Checked(key) ==
    IF Seen(key)
    THEN LET i == PlaceOf(key)
         IN  IF repeats[i].recent
             THEN [slots |-> Append(RemoveAt(repeats, i), [repeats[i] EXCEPT !.again = TRUE]), lines |-> 0]
             ELSE [slots |-> Append(RemoveAt(repeats, i), Event(key)), lines |-> Count(repeats[i]) + 1]
    ELSE IF Len(repeats) < Slots
    THEN [slots |-> Append(repeats, Event(key)), lines |-> 1]
    ELSE [slots |-> Append(RemoveAt(repeats, Victim), Event(key)), lines |-> Count(repeats[Victim]) + 1]

(* error_log_store_record(): for what is counted, the timer is looked at.     *)
Record(t, key) ==
    /\ At(t, "idle")
    /\ repeats' = Checked(key).slots
    /\ Has(t, Checked(key).lines, IF Checked(key).lines = 0 THEN "arm" ELSE "idle")
    /\ UNCHANGED <<log, stream, lines, dropped, repeatTimer, refused>>

(* error_log_store_write_error_log(): a finished line, never a repeat. *)
WriteErrorLog(t) ==
    /\ At(t, "idle")
    /\ Has(t, 1, "idle")
    /\ UNCHANGED <<log, stream, lines, dropped, repeats, repeatTimer, refused>>

(* error_log_dedupe_collect(): the counts to report, of all events or of the  *)
(* ones whose window has ended.                                               *)
Counted == {i \in DOMAIN repeats : repeats[i].again}
Over(force) == {i \in Counted : force \/ ~repeats[i].recent}

\* Mistaken: the timer is not set again for the counts whose window has not ended.
TakesForgetting(t, taken, next) ==
    /\ LET rest == DOMAIN repeats \ taken
           kept == 1 .. Cardinality(rest)
       IN  \E place \in [kept -> rest] :
                /\ \A i, j \in kept : i < j => place[i] < place[j]
                /\ repeats' = [i \in kept |-> repeats[place[i]]]
    /\ Has(t, Cardinality(taken), IF Cardinality(taken) = Batch THEN next ELSE "idle")
    /\ UNCHANGED <<log, stream, lines, dropped, refused>>

(* One critical section takes no more than Batch counts.  Their lines are     *)
(* logged outside of it; then the task comes back for more, when there may be *)
(* more, or sees to the timer.                                                *)
Takes(t, taken, next) ==
    /\ LET rest == DOMAIN repeats \ taken
           kept == 1 .. Cardinality(rest)
       IN  \E place \in [kept -> rest] :
                /\ \A i, j \in kept : i < j => place[i] < place[j]
                /\ repeats' = [i \in kept |-> repeats[place[i]]]
    /\ Has(t, Cardinality(taken), IF Cardinality(taken) = Batch THEN next ELSE "arm")
    /\ UNCHANGED <<log, stream, lines, dropped, refused>>

(* As many of them as one section takes. *)
Most(counts) ==
    {taken \in SUBSET counts : Cardinality(taken) <= Batch /\ (taken = counts \/ Cardinality(taken) = Batch)}

(* error_log_store_flush_repeats() reads the clock and takes the first counts. *)
Flush(t, force) ==
    /\ At(t, "idle")
    /\ \E taken \in Most(Over(force)) : Takes(t, taken, IF force THEN "collectAll" ELSE "collect")

(* esp_timer calls back; the timer has ended by then. *)
RepeatTimer(t) ==
    /\ repeatTimer
    /\ Flush(t, FALSE)
    /\ repeatTimer' = FALSE

(* The clock is not read again.  A window that ended since is not over yet; a *)
(* window that began since looks over, as the difference wraps round.         *)
Collect(t) ==
    /\ \/ /\ At(t, "collect")
          /\ \E taken \in SUBSET Counted : Cardinality(taken) <= Batch /\ Takes(t, taken, "collect")
       \/ /\ At(t, "collectAll")
          /\ \E taken \in Most(Counted) : Takes(t, taken, "collectAll")
    /\ UNCHANGED repeatTimer

(* error_log_store_arm_repeat_timer(): it is set when something is counted,   *)
(* unless it is active.                                                       *)
Arm(t) ==
    /\ At(t, "arm")
    /\ Goes(t, IF Counted # {} THEN "setTimer" ELSE "idle")
    /\ UNCHANGED <<log, stream, lines, dropped, repeats, repeatTimer, refused>>

SetTimer(t) ==
    /\ At(t, "setTimer")
    /\ repeatTimer' = TRUE
    /\ Goes(t, "idle")
    /\ UNCHANGED <<log, stream, lines, dropped, repeats, refused>>

WindowEnds ==
    /\ \E i \in DOMAIN repeats :
        /\ repeats[i].recent
        /\ repeats' = [repeats EXCEPT ![i].recent = FALSE]
    /\ UNCHANGED <<log, stream, lines, dropped, repeatTimer, doing, refused>>

-----------------------------------------------------------------------------
(* error_log_store_emit(): in one critical section, a line goes to the open   *)
(* log or into the hold.  A task at "direct" counts as one in flight.         *)
InFlight == \E t \in Tasks : At(t, "direct")

OneLess(t, place) ==
    doing' = [doing EXCEPT ![t] = [at |-> place, todo |-> @.todo - 1, after |-> @.after]]

Emit(t) ==
    /\ At(t, "emit")
    /\ IF log.open
       THEN lines' = Append(lines, t) /\ OneLess(t, "direct") /\ UNCHANGED dropped
       ELSE /\ OneLess(t, "release")
            /\ IF HeldCount < HoldLines
               THEN lines' = Append(lines, Held) /\ UNCHANGED dropped
               ELSE dropped' = TRUE /\ UNCHANGED lines
    /\ UNCHANGED <<log, stream, repeats, repeatTimer, refused>>

(* sd_card_writer_write() takes the line, or refuses it; either way it has    *)
(* left the log.                                                              *)
Sent(t) ==
    LET i == CHOOSE k \in DOMAIN lines : lines[k] = t
    IN  lines' = RemoveAt(lines, i)

WriteDirect(t) ==
    /\ At(t, "direct")
    /\ Sent(t)
    /\ GoesOn(t)
    /\ UNCHANGED <<log, stream, dropped, repeats, repeatTimer, refused>>

(* The clock's answer: from time_sync, or, when somebody looks, because the   *)
(* clock is right already or too much time has passed.                        *)

\* Mistaken: the answer is noted, and nobody looks at what is held.
NotifyOnly(t) ==
    /\ At(t, "idle") /\ ~log.decided
    /\ log' = [log EXCEPT !.decided = TRUE]
    /\ UNCHANGED <<stream, lines, dropped, repeats, repeatTimer, doing, refused>>

NotifyTimeDecided(t) ==
    /\ At(t, "idle") /\ ~log.decided
    /\ log' = [log EXCEPT !.decided = TRUE]
    /\ Goes(t, "release")
    /\ UNCHANGED <<stream, lines, dropped, repeats, repeatTimer, refused>>

GateTimer(t) ==
    /\ At(t, "idle") /\ log.ready /\ ~log.decided
    /\ Goes(t, "release")
    /\ UNCHANGED <<log, stream, lines, dropped, repeats, repeatTimer, refused>>

-----------------------------------------------------------------------------
(* error_log_store_release_if_ready(), and release() itself: one task at a    *)
(* time.                                                                      *)
CanRelease == ~log.open /\ ~log.releasing /\ log.ready

TakeRelease(t) ==
    /\ At(t, "release")
    /\ \E clock \in BOOLEAN :
        IF CanRelease /\ (log.decided \/ clock)
        THEN /\ log' = [log EXCEPT !.releasing = TRUE, !.decided = TRUE]
             /\ Goes(t, IF log.has THEN "drops" ELSE "open")
        ELSE GoesOn(t) /\ UNCHANGED log
    /\ UNCHANGED <<stream, lines, dropped, repeats, repeatTimer, refused>>

(* No memory, no slot left, or the task is the writer's own.  The lines stay  *)
(* held.                                                                      *)
CannotOpen(t) ==
    /\ At(t, "open")
    /\ log' = [log EXCEPT !.releasing = FALSE]
    /\ refused' = TRUE
    /\ GoesOn(t)
    /\ UNCHANGED <<stream, lines, dropped, repeats, repeatTimer>>

Open(t) ==
    /\ At(t, "open")
    /\ Goes(t, "publish")
    /\ UNCHANGED <<log, stream, lines, dropped, repeats, repeatTimer, refused>>

(* The card may have gone while the stream was opened. *)
Publish(t) ==
    /\ At(t, "publish")
    /\ IF log.ready
       THEN /\ log' = [log EXCEPT !.has = TRUE]
            /\ stream' = "ok" /\ refused' = FALSE
            /\ Goes(t, "drops")
       ELSE /\ log' = [log EXCEPT !.releasing = FALSE]
            /\ Goes(t, "closeOwn")
            /\ UNCHANGED <<stream, refused>>
    /\ UNCHANGED <<lines, dropped, repeats, repeatTimer>>

CloseOwn(t) ==
    /\ At(t, "closeOwn")
    /\ GoesOn(t)
    /\ UNCHANGED <<log, stream, lines, dropped, repeats, repeatTimer, refused>>

(* A notice of the lines lost is written before the lines held. *)
TellDropped(t) ==
    /\ At(t, "drops")
    /\ dropped' = FALSE
    /\ Goes(t, "pop")
    /\ UNCHANGED <<log, stream, lines, repeats, repeatTimer, refused>>

FirstHeld == CHOOSE i \in DOMAIN lines : lines[i] = Held /\ \A j \in 1 .. i - 1 : lines[j] # Held

\* Mistaken: the log opens with the last line still held.
PopOneEarly(t) ==
    /\ At(t, "pop")
    /\ IF ~log.ready
       THEN log' = [log EXCEPT !.releasing = FALSE] /\ GoesOn(t) /\ UNCHANGED lines
       ELSE IF HeldCount <= 1
       THEN log' = [log EXCEPT !.open = TRUE, !.releasing = FALSE] /\ GoesOn(t) /\ UNCHANGED lines
       ELSE lines' = [lines EXCEPT ![FirstHeld] = t] /\ Goes(t, "held") /\ UNCHANGED log
    /\ UNCHANGED <<stream, dropped, repeats, repeatTimer, refused>>

(* The next line held; or none is left, seen under the lock that opens the    *)
(* log; or the card is gone, and the rest stays for the next start.           *)
Pop(t) ==
    /\ At(t, "pop")
    /\ IF ~log.ready
       THEN log' = [log EXCEPT !.releasing = FALSE] /\ GoesOn(t) /\ UNCHANGED lines
       ELSE IF HeldCount = 0
       THEN log' = [log EXCEPT !.open = TRUE, !.releasing = FALSE] /\ GoesOn(t) /\ UNCHANGED lines
       ELSE lines' = [lines EXCEPT ![FirstHeld] = t] /\ Goes(t, "held") /\ UNCHANGED log
    /\ UNCHANGED <<stream, dropped, repeats, repeatTimer, refused>>

WriteHeld(t) ==
    /\ At(t, "held")
    /\ Sent(t)
    /\ Goes(t, "pop")
    /\ UNCHANGED <<log, stream, dropped, repeats, repeatTimer, refused>>

(* The writer gives the stream up: an error of the card. *)
StreamFails ==
    /\ stream = "ok"
    /\ stream' = "failed"
    /\ UNCHANGED <<log, lines, dropped, repeats, repeatTimer, doing, refused>>

-----------------------------------------------------------------------------
(* start() and stop(), called by the monitor.                                 *)
StartLog ==
    /\ log' = [log EXCEPT !.ready = TRUE]
    /\ doing' = [doing EXCEPT ![Monitor].at = "release"]
    /\ UNCHANGED <<stream, lines, dropped, repeats, repeatTimer>>

(* The log is closed at once, its stream when nobody writes to it any more.   *)
ClearLog ==
    /\ log' = [log EXCEPT !.has = FALSE, !.open = FALSE, !.ready = FALSE]
    /\ refused' = FALSE
    /\ UNCHANGED <<stream, lines, dropped, repeats, repeatTimer, doing>>

Drained == ~InFlight /\ ~log.releasing

CloseStream(own) ==
    /\ stream' = IF own THEN "none" ELSE stream
    /\ UNCHANGED <<log, lines, dropped, repeats, repeatTimer, doing, refused>>

(* error_log_store_is_failed() *)
IsFailed == log.has /\ stream = "failed"

-----------------------------------------------------------------------------
(* What a task does next once it has something to log or to collect. *)
Step(t) ==
    \/ Emit(t) \/ WriteDirect(t)
    \/ TakeRelease(t) \/ CannotOpen(t) \/ Open(t) \/ Publish(t) \/ CloseOwn(t)
    \/ TellDropped(t) \/ Pop(t) \/ WriteHeld(t)
    \/ Collect(t) \/ Arm(t) \/ SetTimer(t)

(* What makes a task log, or look at the log. *)
Logs(t) ==
    \/ \E key \in Keys : Record(t, key)
    \/ WriteErrorLog(t) \/ NotifyTimeDecided(t) \/ GateTimer(t)
=============================================================================
