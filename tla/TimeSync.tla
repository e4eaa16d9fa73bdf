------------------------------- MODULE TimeSync -------------------------------
(***************************************************************************)
(* The time sync task, components/services/time_sync.                      *)
(*                                                                         *)
(* One task waits, asks radio_manager for the Internet, runs SNTP with its *)
(* retries, and returns the radio.  The app_shell task asks it to sync     *)
(* soon, or changes its interval.  The two share flags under a spin lock   *)
(* and one task notification; a critical section is a step, so that        *)
(* between any two of them the other task may run.                         *)
(*                                                                         *)
(* The radio is what RadioManager shows acquire() to return.               *)
(***************************************************************************)
EXTENDS Naturals

CONSTANTS
    Intervals,      \* the intervals the settings screen offers
    RetryAttempts,  \* CONFIG_TIME_SYNC_RETRY_ATTEMPTS
    MaxRequests,    \* bound: accepted requests (s_time_sync_request_generation grows)
    Asks            \* what the app does: "request" a sync, change the "interval"

ASSUME TimeSyncAssumption ==
    /\ Intervals # {} /\ RetryAttempts \in Nat /\ MaxRequests \in Nat
    /\ Asks \subseteq {"request", "interval"}

VARIABLES
    requested,      \* s_time_sync_requested
    generation,     \* s_time_sync_request_generation
    recent,         \* the last accepted request is less than 5 s old
    interval,       \* s_time_sync_interval_minutes
    reschedule,     \* s_time_sync_reschedule_requested
    notified,       \* the task's notification is pending
    state,          \* s_time_sync_state
    decided,        \* what the error log was last told about the time
    task,           \* the task: its place, the request generation it serves, the retry it
                    \* is at, the interval its delay was made from, and its outcome
    asker           \* the app_shell task's place in start(), request_soon(), set_interval

request == <<requested, generation, recent>>
setting == <<interval, reschedule>>
syncVars == <<request, setting, notified, state, decided, task, asker>>

-----------------------------------------------------------------------------
SyncStates == {"IDLE", "WAITING_WIFI", "SYNCING", "RETRY_WAIT"}

Generations == 0 .. MaxRequests

(* time_sync_start(): the task exists, and its creator is about to make the *)
(* first request.                                                         *)
SyncInit ==
    /\ requested = FALSE /\ generation = 0 /\ recent = FALSE
    /\ interval \in Intervals /\ reschedule = FALSE
    /\ notified = FALSE
    /\ state = "IDLE" /\ decided = "none"
    /\ task = [at |-> "check", generation |-> 0, attempt |-> 0, planned |-> interval,
               cleared |-> FALSE]
    /\ asker = "starting"

-----------------------------------------------------------------------------
(* time_sync_request(): a request made within 5 s of the last one is dropped. *)
(* So are, in the model, those beyond the bound.                            *)
Accept ==
    /\ ~recent /\ generation < MaxRequests
    /\ requested' = TRUE /\ generation' = generation + 1 /\ recent' = TRUE

Drop == (recent \/ generation = MaxRequests) /\ UNCHANGED request

(* Time: the dedup window of the last request closes. *)
WindowCloses ==
    /\ recent
    /\ recent' = FALSE
    /\ UNCHANGED <<requested, generation, setting, notified, state, decided, task, asker>>

-----------------------------------------------------------------------------
(* The app_shell task.  request_soon() and start(): the request, the state, the *)
(* notification.                                                              *)
AppRequests ==
    /\ asker = "starting" \/ (asker = "idle" /\ "request" \in Asks)
    /\ \/ Accept /\ asker' = "accepted"
       \/ Drop /\ asker' = "idle"
    /\ UNCHANGED <<setting, notified, state, decided, task>>

AppPublishes ==
    /\ asker = "accepted" /\ asker' = "published"
    /\ state' = "WAITING_WIFI"
    /\ UNCHANGED <<request, setting, notified, decided, task>>

(* set_interval_minutes(): the setting and its flag, then the notification. *)
AppSetsInterval ==
    /\ asker = "idle" /\ "interval" \in Asks
    /\ interval' \in Intervals /\ reschedule' = TRUE
    /\ asker' = "published"
    /\ UNCHANGED <<request, notified, state, decided, task>>

\* Mistaken: only a task that looks idle is notified.
AppNotifiesIdle ==
    /\ asker = "published" /\ asker' = "idle"
    /\ notified' = (notified \/ state = "IDLE")
    /\ UNCHANGED <<request, setting, state, decided, task>>

AppNotifies ==
    /\ asker = "published" /\ asker' = "idle"
    /\ notified' = TRUE
    /\ UNCHANGED <<request, setting, state, decided, task>>

AppAsks == AppRequests \/ AppPublishes \/ AppSetsInterval \/ AppNotifies

-----------------------------------------------------------------------------
(* The task.  `at` is its place in time_sync_task(). *)
At(place)   == task.at = place
Goto(place) == task' = [task EXCEPT !.at = place]

(* time_sync_has_pending_request(). *)
Check ==
    /\ At("check")
    /\ Goto(IF requested THEN "begin" ELSE "schedule")
    /\ UNCHANGED <<request, setting, notified, state, decided, asker>>

(* time_sync_take_reschedule_request(). *)
TakeReschedule == reschedule' = FALSE /\ UNCHANGED interval

Schedule ==
    /\ At("schedule")
    /\ TakeReschedule
    /\ Goto(IF reschedule THEN "check" ELSE "plan")
    /\ UNCHANGED <<request, notified, state, decided, asker>>

(* time_sync_next_delay_seconds(): the delay is made from the interval as it is. *)
Plan ==
    /\ At("plan")
    /\ task' = [task EXCEPT !.at = "settle", !.planned = interval]
    /\ UNCHANGED <<request, setting, notified, state, decided, asker>>

Settle ==
    /\ At("settle")
    /\ state' = "IDLE"
    /\ Goto("idle")
    /\ UNCHANGED <<request, setting, notified, decided, asker>>

(* time_sync_delay_seconds(): ended by the notification, or by time. *)
IdleNotified ==
    /\ At("idle") /\ notified
    /\ notified' = FALSE
    /\ Goto("woken")
    /\ UNCHANGED <<request, setting, state, decided, asker>>

IdleElapsed ==
    /\ At("idle") /\ ~notified
    /\ Goto("due")
    /\ UNCHANGED <<request, setting, notified, state, decided, asker>>

Woken ==
    /\ At("woken")
    /\ TakeReschedule
    /\ Goto(IF reschedule THEN "check" ELSE "wokenIdle")
    /\ UNCHANGED <<request, notified, state, decided, asker>>

WokenIdle ==
    /\ At("wokenIdle")
    /\ Goto(IF requested THEN "check" ELSE "wokenForNothing")
    /\ UNCHANGED <<request, setting, notified, state, decided, asker>>

(* The task's own request, also after a notification that brought nothing. *)
Due ==
    /\ At("due") \/ At("wokenForNothing")
    /\ Accept \/ Drop
    /\ Goto("check")
    /\ UNCHANGED <<setting, notified, state, decided, asker>>

(* The request is served: its generation is read before the radio is asked for. *)
Begin ==
    /\ At("begin")
    /\ task' = [task EXCEPT !.at = "radio", !.generation = generation, !.attempt = 0]
    /\ state' = "WAITING_WIFI"
    /\ UNCHANGED <<request, setting, notified, decided, asker>>

(* radio_manager_acquire(). *)
RadioPaused ==
    /\ At("radio")
    /\ Goto("paused")
    /\ UNCHANGED <<request, setting, notified, state, decided, asker>>

RadioFailed ==
    /\ At("radio")
    /\ Goto("radioFailed")
    /\ UNCHANGED <<request, setting, notified, state, decided, asker>>

RadioGranted ==
    /\ At("radio")
    /\ Goto("sync")
    /\ UNCHANGED <<request, setting, notified, state, decided, asker>>

(* Setup has the station: ask again in 5 s, or when notified. *)
PauseOver ==
    /\ At("paused")
    /\ notified' = FALSE
    /\ Goto("check")
    /\ UNCHANGED <<request, setting, state, decided, asker>>

(* time_sync_sync_with_connected_wifi(): SNTP, with its retries. *)
StartSync ==
    /\ At("sync")
    /\ state' = "SYNCING"
    /\ Goto("sntp")
    /\ UNCHANGED <<request, setting, notified, decided, asker>>

SntpSucceeds ==
    /\ At("sntp")
    /\ Goto("succeeded")
    /\ UNCHANGED <<request, setting, notified, state, decided, asker>>

RetriesUsedUp == task.attempt = RetryAttempts

SntpFails ==
    /\ At("sntp")
    /\ Goto(IF RetriesUsedUp THEN "sntpFailed" ELSE "retry")
    /\ UNCHANGED <<request, setting, notified, state, decided, asker>>

BeginRetry ==
    /\ At("retry")
    /\ state' = "RETRY_WAIT"
    /\ Goto("retryWait")
    /\ UNCHANGED <<request, setting, notified, decided, asker>>

NextAttempt == task' = [task EXCEPT !.at = "sync", !.attempt = @ + 1]

RetryElapsed ==
    /\ At("retryWait") /\ ~notified
    /\ NextAttempt
    /\ UNCHANGED <<request, setting, notified, state, decided, asker>>

RetryNotified ==
    /\ At("retryWait") /\ notified
    /\ notified' = FALSE
    /\ Goto("retryWoken")
    /\ UNCHANGED <<request, setting, state, decided, asker>>

(* An interval that changed ends the retries; another notification skips the wait. *)
RetryWoken ==
    /\ At("retryWoken")
    /\ TakeReschedule
    /\ IF reschedule THEN Goto("sntpFailed") ELSE NextAttempt
    /\ UNCHANGED <<request, notified, state, decided, asker>>

(* A success answers every request made so far; a failure only the one it began *)
(* with.  Then the radio goes back, and the state is set.                      *)
ClearAll == requested' = FALSE

\* Mistaken: a failure answers every request, too.
ClearWhateverGeneration ==
    /\ requested' = FALSE
    /\ task' = [task EXCEPT !.at = "finish", !.cleared = requested]

ClearIfGeneration ==
    LET same == requested /\ generation = task.generation
    IN  /\ requested' = (requested /\ ~same)
        /\ task' = [task EXCEPT !.at = "finish", !.cleared = same]

\* Mistaken: the error log hears of a success only.
TellSuccess(verdict) == decided' = IF verdict = "synced" THEN verdict ELSE decided

(* error_log_store_notify_time_decided(). *)
Tell(verdict) == decided' = verdict

Succeeded ==
    /\ At("succeeded")
    /\ ClearAll
    /\ Tell("synced")
    /\ task' = [task EXCEPT !.at = "finish", !.cleared = TRUE]
    /\ UNCHANGED <<generation, recent, setting, notified, state, asker>>

Failed ==
    /\ At("radioFailed") \/ At("sntpFailed")
    /\ Tell("failed")
    /\ ClearIfGeneration
    /\ UNCHANGED <<generation, recent, setting, notified, state, asker>>

Finish ==
    /\ At("finish")
    /\ state' = IF task.cleared THEN "IDLE" ELSE "WAITING_WIFI"
    /\ Goto("check")
    /\ UNCHANGED <<request, setting, notified, decided, asker>>

Attempt ==
    \/ Begin \/ RadioPaused \/ RadioFailed \/ RadioGranted \/ PauseOver
    \/ StartSync \/ SntpSucceeds \/ SntpFails \/ BeginRetry \/ RetryElapsed \/ RetryNotified
    \/ RetryWoken \/ Succeeded \/ Failed \/ Finish

Wait == Check \/ Schedule \/ Plan \/ Settle \/ IdleNotified \/ Woken \/ WokenIdle \/ Due

SyncNext == AppAsks \/ Wait \/ IdleElapsed \/ Attempt \/ WindowCloses

SyncSpec == SyncInit /\ [][SyncNext]_syncVars

(* Both tasks run; acquire() and SNTP are bounded by their timeouts.  Nothing *)
(* relies on the hours of the idle delay to pass.                            *)
SyncFairness ==
    /\ WF_syncVars(AppPublishes) /\ WF_syncVars(AppNotifies) /\ WF_syncVars(asker = "starting" /\ AppRequests)
    /\ WF_syncVars(Wait) /\ WF_syncVars(Attempt)

FairSyncSpec == SyncSpec /\ SyncFairness

-----------------------------------------------------------------------------
Places == {"check", "schedule", "plan", "settle", "idle", "woken", "wokenIdle", "wokenForNothing",
           "due", "begin", "radio", "paused", "radioFailed", "sync", "sntp", "retry", "retryWait",
           "retryWoken", "sntpFailed", "succeeded", "finish"}

SyncTypeOK ==
    /\ requested \in BOOLEAN /\ generation \in Generations /\ recent \in BOOLEAN
    /\ interval \in Intervals /\ reschedule \in BOOLEAN /\ notified \in BOOLEAN
    /\ state \in SyncStates /\ decided \in {"none", "synced", "failed"}
    /\ task \in [ at: Places, generation: Generations, attempt: 0 .. RetryAttempts,
                  planned: Intervals, cleared: BOOLEAN ]
    /\ asker \in {"starting", "idle", "accepted", "published"}

(* The task never sleeps over work: while it waits out its hours undisturbed, no *)
(* request is waiting, its delay was made from the interval as it is, and the   *)
(* screens do not see it busy (which would refuse the user's next sync).        *)
SleepsOverNothing ==
    task.at = "idle" /\ ~notified /\ asker = "idle" =>
        ~requested /\ ~reschedule /\ task.planned = interval /\ state = "IDLE"

(* docs/time_sync.md, Overview: the end of an attempt does not clear a request    *)
(* that was made after it began.  Each request is attempted by an attempt that  *)
(* began after it, or answered by a success.                                   *)
RequestIsAnswered ==
    \A g \in Generations \ {0} :
        (requested /\ generation = g) ~>
            (task.generation >= g \/ (~requested /\ decided = "synced"))

(* The error log, which holds its lines until it knows, is told about the time  *)
(* after every boot, unless setup keeps the radio.                             *)
TimeIsDecided == <>(decided # "none" \/ task.at = "paused")

=============================================================================
