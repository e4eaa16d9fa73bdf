------------------------------ MODULE SdCardStatus ------------------------------
(***************************************************************************)
(* The monitor of the SD card, components/services/sd_card_status, with    *)
(* the mount of sd_card_storage and the error log that it starts and stops.*)
(*                                                                         *)
(* One task looks at the card now and then: it mounts it, tests it with a  *)
(* write, and starts the log; once it is mounted it asks whether the card  *)
(* still answers, takes writes and has room, and releases it otherwise.    *)
(* How long it waits between two rounds is left out.                       *)
(***************************************************************************)
EXTENDS ErrorLogStore

VARIABLES
    card,           \* the card in the slot
    mounted,        \* sd_card_storage: s_mounted
    state,          \* s_info.state
    logging,        \* s_logging
    noRoom,         \* s_no_room_for_test_write
    mon             \* the monitor: its place, the state it is on its way to, and the stream
                    \* that stop() has to close

cardVars == <<card, mounted, state, logging, noRoom, mon>>
vars == <<logVars, cardVars>>

(* Nothing in the slot; a card without a file system or that takes no writes; *)
(* no room on it; or all is well.                                             *)
Cards == {"out", "bad", "full", "good"}
States == {"DISABLED", "OK", "NO_CARD", "NO_FILESYSTEM", "FULL", "FAULT"}
MountedStates == {"OK", "FULL"}

Init ==
    /\ LogInit
    /\ card \in Cards
    /\ mounted = FALSE /\ state = "DISABLED" /\ logging = FALSE /\ noRoom = FALSE
    /\ mon = [at |-> "poll", to |-> "DISABLED", own |-> FALSE]

(* The card is pulled, put in, filled or emptied. *)
CardChanges ==
    /\ \E c \in Cards \ {card} : card' = c
    /\ UNCHANGED <<logVars, mounted, state, logging, noRoom, mon>>

-----------------------------------------------------------------------------
MonAt(place) == mon.at = place /\ At(Monitor, "idle")
MonGoes(place, to) == mon' = [at |-> place, to |-> to, own |-> FALSE]

(* publish() and note(): the new state is logged, but for the first one since *)
(* boot.                                                                      *)
Published(new, place) ==
    /\ state' = new
    /\ MonGoes(place, new)
    /\ IF state \in {"DISABLED", new}
       THEN UNCHANGED logVars
       ELSE Record(Monitor, NoteKey)

(* The bus and the file system are set up: sd_card_storage_init(). *)
MountAnswers ==
    CASE card = "out" -> {"NO_CARD"}
      [] card = "bad" -> {"NO_FILESYSTEM", "FAULT", "OK"}
      [] OTHER -> {"OK"}

TryMount ==
    /\ MonAt("poll") /\ state \notin MountedStates
    /\ \E answer \in MountAnswers :
        IF answer # "OK"
        THEN Published(answer, "poll") /\ UNCHANGED mounted
        ELSE mounted' = TRUE /\ MonGoes("selftest", "OK") /\ UNCHANGED <<logVars, state>>
    /\ UNCHANGED <<card, logging, noRoom>>

TestAnswer == CASE card = "good" -> "OK" [] card = "full" -> "FULL" [] OTHER -> "FAULT"

(* sd_card_status_selftest_write(), before the card is trusted. *)
SelfTest ==
    /\ MonAt("selftest")
    /\ noRoom' = (TestAnswer = "FULL")
    /\ CASE TestAnswer = "FAULT" -> MonGoes("stop", "FAULT") /\ UNCHANGED <<logVars, state>>
         [] TestAnswer = "FULL" -> Published("FULL", "check")
         [] OTHER -> MonGoes("start", "OK") /\ UNCHANGED <<logVars, state>>
    /\ UNCHANGED <<card, mounted, logging>>

(* sd_card_writer_start() and error_log_store_start(). *)
StartWriter ==
    /\ MonAt("start")
    /\ StartLog
    /\ refused' = FALSE
    /\ MonGoes("started", "OK")
    /\ UNCHANGED <<card, mounted, state, logging, noRoom>>

WriterFails ==
    /\ MonAt("start") /\ state # "FULL"
    /\ MonGoes("stop", "FAULT")
    /\ refused' = TRUE
    /\ UNCHANGED <<log, stream, lines, dropped, repeats, repeatTimer, doing>>
    /\ UNCHANGED <<card, mounted, state, logging, noRoom>>

(* An error is one of a release that the monitor ran itself; when another     *)
(* task runs it, start() reports no error.                                    *)
Started ==
    /\ MonAt("started")
    /\ \E failed \in {FALSE, refused} :
        IF failed
        THEN MonGoes("stop", "FAULT") /\ UNCHANGED <<logVars, state, logging>>
        ELSE logging' = TRUE /\ Published("OK", IF state = "FULL" THEN "poll" ELSE "check")
    /\ UNCHANGED <<card, mounted, noRoom>>

-----------------------------------------------------------------------------
(* sd_card_status_check_mounted(): once per round, and right after a mount. *)
Looks == \/ MonAt("check")
         \/ MonAt("poll") /\ state \in MountedStates

\* Mistaken: a stream that failed is not looked at.
CheckAnswerOfCard ==
    IF card = "out" THEN {"NO_CARD"}
    ELSE (IF card = "bad" THEN {"NO_CARD", "FAULT"} ELSE {})
         \cup {IF noRoom \/ card = "full" THEN "FULL" ELSE "OK"}

CheckAnswer ==
    IF card = "out" THEN {"NO_CARD"}
    ELSE IF logging /\ IsFailed THEN {"FAULT"}
    ELSE (IF card = "bad" THEN {"NO_CARD", "FAULT"} ELSE {})
         \cup {IF noRoom \/ card = "full" THEN "FULL" ELSE "OK"}

CheckMounted ==
    /\ Looks
    /\ \E answer \in CheckAnswer :
        CASE answer \notin MountedStates -> MonGoes("stop", answer) /\ UNCHANGED <<logVars, state>>
          [] answer = "FULL" /\ state = "OK" -> Published("FULL", "stop")
          [] answer = "OK" /\ state = "FULL" -> MonGoes("start", "OK") /\ UNCHANGED <<logVars, state>>
          [] OTHER -> MonGoes("poll", state) /\ UNCHANGED <<logVars, state>>
    /\ UNCHANGED <<card, mounted, logging, noRoom>>

(* error_log_store_stop(): the counts first, while there is somewhere to      *)
(* write them; then the log is closed, and its stream when it is drained.     *)
StopFlush ==
    /\ MonAt("stop")
    /\ Flush(Monitor, TRUE)
    /\ MonGoes("clear", mon.to)
    /\ UNCHANGED <<repeatTimer, card, mounted, state, logging, noRoom>>

StopClear ==
    /\ MonAt("clear")
    /\ ClearLog
    /\ mon' = [mon EXCEPT !.at = "drain", !.own = log.has]
    /\ UNCHANGED <<card, mounted, state, logging, noRoom>>

\* Mistaken: the stream is closed without waiting for its writers.
StopAtOnce ==
    /\ MonAt("drain")
    /\ CloseStream(mon.own)
    /\ logging' = FALSE
    /\ MonGoes(IF mon.to = "FULL" THEN "poll" ELSE "deinit", mon.to)
    /\ UNCHANGED <<card, mounted, state, noRoom>>

\* Mistaken: the monitor goes on believing that it logs.
StopStillLogging ==
    /\ MonAt("drain") /\ Drained
    /\ CloseStream(mon.own)
    /\ MonGoes(IF mon.to = "FULL" THEN "poll" ELSE "deinit", mon.to)
    /\ UNCHANGED <<card, mounted, state, logging, noRoom>>

StopClose ==
    /\ MonAt("drain") /\ Drained
    /\ CloseStream(mon.own)
    /\ logging' = FALSE
    /\ MonGoes(IF mon.to = "FULL" THEN "poll" ELSE "deinit", mon.to)
    /\ UNCHANGED <<card, mounted, state, noRoom>>

(* A full card stays mounted; otherwise sd_card_storage_deinit() releases it, *)
(* and the problem is published.                                              *)
Deinit ==
    /\ MonAt("deinit")
    /\ mounted' = FALSE
    /\ Published(mon.to, "poll")
    /\ UNCHANGED <<card, logging, noRoom>>

-----------------------------------------------------------------------------
MonitorStep ==
    \/ TryMount \/ SelfTest \/ StartWriter \/ WriterFails \/ Started
    \/ CheckMounted \/ StopFlush \/ StopClear \/ StopClose \/ Deinit

TaskStep(t) == Step(t) /\ UNCHANGED cardVars

Next ==
    \/ \E t \in Tasks : TaskStep(t)
    \/ \E t \in Loggers : (Logs(t) \/ RepeatTimer(t)) /\ UNCHANGED cardVars
    \/ (WindowEnds \/ (StreamFails /\ card # "good")) /\ UNCHANGED cardVars
    \/ MonitorStep
    \/ CardChanges

Spec == Init /\ [][Next]_vars

(* Every task gets on with what it does, and the monitor keeps looking.  That *)
(* a window or a timer ends, or that any task logs, is not needed.            *)
Fairness ==
    /\ \A t \in Tasks : WF_vars(TaskStep(t))
    /\ WF_vars(MonitorStep)

FairSpec == Spec /\ Fairness

-----------------------------------------------------------------------------
(* The values of the variables. *)
TypeOK ==
    /\ LogTypeOK
    /\ card \in Cards /\ mounted \in BOOLEAN /\ state \in States
    /\ logging \in BOOLEAN /\ noRoom \in BOOLEAN
    /\ mon \in [at: {"poll", "selftest", "start", "started", "check", "stop", "clear", "drain",
                     "deinit"}, to: States, own: BOOLEAN]

(* A line never overtakes an older one: as long as a line is held, every line *)
(* that some task has taken to write is older, wherever the log was opened,   *)
(* stopped and started again meanwhile.                                       *)
NeverOvertakes ==
    \A i \in DOMAIN lines, j \in DOMAIN lines : i < j /\ lines[i] = Held => lines[j] = Held

(* Whoever is about to write has a stream that was not closed meanwhile.      *)
WritesToLiveStream ==
    \A t \in Tasks : doing[t].at \in {"direct", "drops", "pop", "held"} => stream # "none"

(* A line is left in the hold of an open door only after an open that failed: *)
(* whenever the card is ready and the clock answered, the log is open, or     *)
(* some task is about to look.                                                *)
NothingLeftBehind ==
    HeldCount > 0 /\ log.ready /\ log.decided /\ ~log.open /\ ~refused =>
        \E t \in Tasks : doing[t].at \in {"release", "open", "publish", "drops", "pop", "held"}

(* What was counted is told: as long as a repeat is counted, the timer is set *)
(* or some task is still to collect, or to look whether the timer must be set,*)
(* whichever tasks count and collect between its sections.                    *)
ToCollect == {"collect", "collectAll", "arm", "setTimer"}

CountsAreTold ==
    Counted # {} /\ ~repeatTimer =>
        \E t \in Tasks : doing[t].at \in ToCollect \/ doing[t].after \in ToCollect

(* The state that is shown is the truth, whenever the monitor rests: OK only  *)
(* with the log running on a mounted card, FULL with a mounted card and no    *)
(* log, anything else with nothing left of either.                            *)
StateIsTrue ==
    MonAt("poll") =>
        /\ mounted <=> state \in MountedStates
        /\ logging <=> state = "OK"
        /\ log.ready <=> state = "OK"
        /\ state # "OK" => stream = "none"

(* Lines logged for ever faster than they are written would keep the task     *)
(* that releases the hold, which may be the monitor, in release(); and        *)
(* repeats counted as fast would keep the monitor in the flush of stop().     *)
(* The property below is about a log where that does not happen.              *)
ReleasesEnd == []<>~log.releasing
FlushesEnd == []<>(doing[Monitor].at # "collectAll" /\ doing[Monitor].after # "collectAll")

(* A good card is logged to in the end, with a stream that works, when        *)
(* nothing runs out of memory; except one that had no room when it was        *)
(* mounted: that one is FULL until it is taken out.                           *)
GoodCardComesBack ==
    ReleasesEnd /\ FlushesEnd /\ <>[](card = "good" /\ ~refused)
        => <>[]((state = "OK" /\ ~IsFailed) \/ (state = "FULL" /\ noRoom))
=============================================================================
