---------------------------- MODULE WifiConnection ----------------------------
(***************************************************************************)
(* The Wi-Fi connection manager, components/services/wifi_connection.      *)
(*                                                                         *)
(* One task owns the station.  Every request of another task, and every    *)
(* station event, reaches it through one queue; a request blocks its       *)
(* caller until the manager answers it.  The manager's stack is kept in    *)
(* `pc` (where it is) and `proc` (the procedure it runs: an automatic      *)
(* connect with the saved profiles, or the connection test of setup).      *)
(*                                                                         *)
(* An action is one stretch of the manager's code between two points where *)
(* another task can matter to it: a queue receive, or a blocking driver    *)
(* call.                                                                   *)
(***************************************************************************)
EXTENDS WifiSta, SavedProfiles, FiniteSets

CONSTANTS
    Users,          \* the tasks that acquire and release Wi-Fi
    UI,             \* the app_shell task: the setup app, and retry from other screens
    QueueLength,    \* WIFI_CONNECTION_QUEUE_LENGTH
    MaxAttempts,    \* CONFIG_ESP32_WIFI_STA_MAX_RETRY + 1
    ScanAttempts,   \* CONFIG_WIFI_CONNECTION_SCAN_RETRY_ATTEMPTS
    AuthLimit,      \* CONFIG_WIFI_CONNECTION_SETUP_AUTH_FAILURE_LIMIT
    MaxProfiles,    \* WIFI_PROFILE_STORE_MAX_ENTRIES
    SavedAtBoot     \* the saved profiles that flash may hold at boot

ASSUME CallerAssumption == UI \notin Users
ASSUME BoundAssumption ==
    /\ QueueLength \in Nat \ {0} /\ MaxAttempts \in Nat \ {0} /\ ScanAttempts \in Nat \ {0}
    /\ AuthLimit \in Nat \ {0} /\ MaxProfiles \in Nat \ {0}
ASSUME SavedAssumption == SavedAtBoot \subseteq [Networks -> 0 .. MaxProfiles]

VARIABLES
    queue,          \* the manager's queue
    deferred,       \* the request that interrupted a procedure, or NoCmd
    pc, proc,       \* the manager task's place in its code, and the procedure it runs
    state,          \* s_wifi_connection.state, read by every task
    failure,        \* last_failure_reason
    result,         \* what the connectivity callback last reported
    users,          \* active_users
    connectWanted, stopWhenUnused,
    profiles,       \* each network's place among the saved profiles, in the order they last
                    \* succeeded: 1 is the newest, 0 is not saved
    call,           \* each caller's request: idle, call, or the answer the app acts on
    ui              \* the setup app: its stage, and its `active` flag

flags  == <<connectWanted, stopWhenUnused>>
status == <<state, failure, result>>
vars == <<staVars, queue, deferred, pc, proc, status, users, flags, profiles, call, ui>>

-----------------------------------------------------------------------------
Callers == Users \cup {UI}

Trying == {"CONNECTING", "RECONNECTING"}
Setup  == {"SETUP_REQUIRED", "SETUP_RUNNING"}
States == {"STOPPED", "OFF", "CONNECTED", "FAILED"} \cup Trying \cup Setup

(* Requests that never touch the station, and those that need it. *)
QuickCmds == [type: {"acquire", "release"}, from: Users] \cup [type: {"retry"}, from: {UI}]
StaCmds ==
    [type: {"beginSetup", "setupScan"}, from: {UI}]
        \cup [type: {"setupConnect"}, from: {UI}, net: Networks]
        \cup [type: {"completeSetup"}, from: {UI}, connected: BOOLEAN]
StaEvents == [type: {"staEvent"}, connected: BOOLEAN, reason: Failures]
Cmds == QuickCmds \cup StaCmds \cup StaEvents

NeedsSta(cmd) == cmd.type \in {"beginSetup", "setupScan", "setupConnect", "completeSetup"}
IsEvent(cmd)  == cmd.type = "staEvent"
IsQuick(cmd)  == ~NeedsSta(cmd) /\ ~IsEvent(cmd)

NoCmd == [type |-> "none"]

Stages == {"out", "retrying", "entering", "scan", "scanning", "testing", "tested",
           "completing", "leaving"}

NoProfiles == [n \in Networks |-> 0]

Procs == [ kind: {"none", "auto", "test"}, net: Networks \cup {NoNetwork},
           rest: [Networks -> 0 .. MaxProfiles], attempt: 0 .. MaxAttempts,
           auth: 0 .. AuthLimit, scans: 0 .. ScanAttempts, reason: Failures ]

Idle == [kind |-> "none", net |-> NoNetwork, rest |-> NoProfiles, attempt |-> 0, auth |-> 0,
         scans |-> 0, reason |-> "none"]

(* What flash holds after `net` connected or is preferred, and after it is      *)
(* removed.                                                                    *)
Remember(saved, net) == AsNewest(saved, net, MaxProfiles)
Forget(saved, net)   == Without(saved, net)

(* The profile an attempt takes first among `candidates`. *)
IsNewest(net, candidates) ==
    /\ candidates[net] # 0
    /\ \A n \in Networks : candidates[n] # 0 => candidates[net] <= candidates[n]

Init ==
    /\ StaInit
    /\ queue = <<>> /\ deferred = NoCmd
    /\ pc = "boot" /\ proc = Idle
    /\ state = "STOPPED" /\ failure = "none"
    /\ result = [configured |-> FALSE, connected |-> FALSE]
    /\ users = {} /\ connectWanted = FALSE /\ stopWhenUnused = FALSE
    /\ profiles \in SavedAtBoot
    /\ call = [c \in Callers |-> "idle"]
    /\ ui = [stage |-> "out", active |-> FALSE]

-----------------------------------------------------------------------------
(* The callers.  wifi_connection_call() blocks while the queue is full and    *)
(* then until its request is answered.                                       *)
Request(c, cmd) ==
    /\ call[c] # "waiting"
    /\ Len(queue) < QueueLength
    /\ queue' = Append(queue, cmd)
    /\ call' = [call EXCEPT ![c] = "waiting"]
    /\ UNCHANGED <<staVars, deferred, pc, proc, status, users, flags, profiles>>

UserAcquire(u) == Request(u, [type |-> "acquire", from |-> u]) /\ UNCHANGED ui
UserRelease(u) == Request(u, [type |-> "release", from |-> u]) /\ UNCHANGED ui

Goto(stage) == ui' = [ui EXCEPT !.stage = stage]

(* cyd_wifi_setup_app_enter(): setup begins unless the app believes it runs. *)
UiEnter ==
    /\ ui.stage = "out" /\ ~ui.active
    /\ Request(UI, [type |-> "beginSetup", from |-> UI])
    /\ Goto("entering")

UiReenter ==
    /\ ui.stage = "out" /\ ui.active
    /\ Goto("scan")
    /\ UNCHANGED <<staVars, queue, deferred, pc, proc, status, users, flags, profiles, call>>

UiScan ==
    /\ ui.stage = "scan"
    /\ Request(UI, [type |-> "setupScan", from |-> UI])
    /\ Goto("scanning")

UiConnect(net) ==
    /\ ui.stage = "scan"
    /\ Request(UI, [type |-> "setupConnect", from |-> UI, net |-> net])
    /\ Goto("testing")

(* The app asks for the end of setup once its test connected... *)
UiComplete ==
    /\ ui.stage = "tested"
    /\ Request(UI, [type |-> "completeSetup", from |-> UI, connected |-> TRUE])
    /\ Goto("completing")

(* ...or when it is left (cyd_wifi_setup_app_leave()), unless it finds the     *)
(* state CONNECTED already.                                                   *)
UiLeave ==
    /\ ui.stage = "scan" /\ ui.active /\ state # "CONNECTED"
    /\ Request(UI, [type |-> "completeSetup", from |-> UI, connected |-> FALSE])
    /\ Goto("leaving")

UiLeaveSilently ==
    /\ ui.stage = "scan" /\ (~ui.active \/ state = "CONNECTED")
    /\ ui' = [stage |-> "out", active |-> FALSE]
    /\ UNCHANGED <<staVars, queue, deferred, pc, proc, status, users, flags, profiles, call>>

UiRetry ==
    /\ ui.stage = "out"
    /\ Request(UI, [type |-> "retry", from |-> UI])
    /\ Goto("retrying")

(* The app's step after its request was answered.  A test that connected may   *)
(* still return the user to the list, when the notice cannot be shown.        *)
UiReturn ==
    /\ call[UI] \in {"ok", "error"}
    /\ call' = [call EXCEPT ![UI] = "idle"]
    /\ LET ok == call[UI] = "ok" IN
         \/ /\ ui.stage = "entering"
            /\ ui' = [stage |-> "scan", active |-> ok]
         \/ ui.stage = "scanning" /\ Goto("scan")
         \/ ui.stage = "testing" /\ Goto("scan")
         \/ ui.stage = "testing" /\ ok /\ Goto("tested")
         \/ /\ ui.stage = "completing"
            /\ ui' = IF ok THEN [stage |-> "out", active |-> FALSE] ELSE [ui EXCEPT !.stage = "scan"]
         \/ /\ ui.stage = "leaving"
            /\ ui' = [stage |-> "out", active |-> ui.active /\ ~ok]
         \/ ui.stage = "retrying" /\ Goto("out")
    /\ UNCHANGED <<staVars, queue, deferred, pc, proc, status, users, flags, profiles>>

(* The settings screen forgets a saved profile, or prefers it over the others   *)
(* (wifi_profile_store_set_priority()), on the app_shell task.                 *)
UiForget(net) ==
    /\ ui.stage = "out" /\ profiles[net] # 0
    /\ profiles' = Forget(profiles, net)
    /\ UNCHANGED <<staVars, queue, deferred, pc, proc, status, users, flags, call, ui>>

UiPrefer(net) ==
    /\ ui.stage = "out" /\ profiles[net] # 0
    /\ profiles' = Remember(profiles, net)
    /\ UNCHANGED <<staVars, queue, deferred, pc, proc, status, users, flags, call, ui>>

-----------------------------------------------------------------------------
(* ESP-IDF and its event task.  The event handler reports through             *)
(* wifi_connection_on_sta_event(), which drops the event when the queue is    *)
(* full.                                                                     *)

Report(connected, reason) ==
    queue' = IF Len(queue) < QueueLength
             THEN Append(queue, [type |-> "staEvent", connected |-> connected, reason |-> reason])
             ELSE queue

HandleEvent ==
    /\ posted # <<>>
    /\ posted' = Tail(posted)
    /\ LET event == Head(posted) IN
         /\ IF event.kind = "gotIp" THEN OnIpEvent ELSE OnWifiEvent
         /\ IF sta.requested
            THEN Report(event.kind = "gotIp", MapReason(event.reason))
            ELSE UNCHANGED queue
    /\ UNCHANGED <<deferred, pc, proc, status, users, flags, profiles, call, ui>>

Network ==
    /\ Join \/ \E reason \in Reasons : EndLink(reason)
    /\ UNCHANGED <<queue, deferred, pc, proc, status, users, flags, profiles, call, ui>>

-----------------------------------------------------------------------------
(* The manager task.  `At` is its place; it runs only while the event task    *)
(* has nothing (or at most Backlog events) to do.                            *)
At(place) == pc = place /\ EventTaskKeepsUp

(* xSemaphoreGive(): a user task does nothing with its answer that matters here. *)
Answer(cmd, ok) ==
    call' = [call EXCEPT ![cmd.from] = IF cmd.from # UI THEN "idle"
                                       ELSE IF ok THEN "ok" ELSE "error"]

SetResult(configured, connected) ==
    result' = [configured |-> configured, connected |-> connected]

Configured == profiles # NoProfiles

(* wifi_connection_task() up to its loop; the radio was never on. *)
Boot ==
    /\ At("boot")
    /\ SetResult(Configured, FALSE)
    /\ failure' = "none"
    /\ \E onStart \in BOOLEAN :
         /\ state' = IF onStart \/ ~Configured THEN "SETUP_REQUIRED" ELSE "OFF"
    /\ pc' = "loop"
    /\ UNCHANGED <<staVars, queue, deferred, proc, users, flags, profiles, call, ui>>

(* wifi_connection_handle_quick(): acquire, release, retry. *)
CanStart == state \in {"OFF", "FAILED"}

AcquireEffect(cmd) ==
    /\ cmd.type = "acquire"
    /\ users' = users \cup {cmd.from}
    /\ stopWhenUnused' = FALSE
    /\ connectWanted' = (connectWanted \/ CanStart)
    /\ state' = IF CanStart THEN "CONNECTING" ELSE state
    /\ Answer(cmd, TRUE)

ReleaseEffect(cmd) ==
    /\ cmd.type = "release"
    /\ users' = users \ {cmd.from}
    /\ stopWhenUnused' = (stopWhenUnused \/
                            (cmd.from \in users /\ users' = {} /\ state \notin Setup))
    /\ Answer(cmd, cmd.from \in users)
    /\ UNCHANGED <<connectWanted, state>>

RetryEffect(cmd) ==
    /\ cmd.type = "retry"
    /\ connectWanted' = (connectWanted \/ CanStart)
    /\ state' = IF CanStart THEN "CONNECTING" ELSE state
    /\ Answer(cmd, CanStart \/ state = "CONNECTED")
    /\ UNCHANGED <<users, stopWhenUnused>>

HandleQuick(cmd) ==
    /\ AcquireEffect(cmd) \/ ReleaseEffect(cmd) \/ RetryEffect(cmd)
    /\ UNCHANGED <<staVars, proc, failure, result, profiles, ui>>

-----------------------------------------------------------------------------
(* The main loop: the request that interrupted a procedure first, then an      *)
(* attempt somebody wants, then the queue.                                    *)
HasCommand == deferred # NoCmd \/ (~connectWanted /\ queue # <<>>)
Command    == IF deferred # NoCmd THEN deferred ELSE Head(queue)

\* Mistaken: the deferred request is kept after it was taken.
TakeCommandAgain ==
    /\ At("loop") /\ HasCommand
    /\ UNCHANGED deferred
    /\ queue' = IF deferred # NoCmd THEN queue ELSE Tail(queue)

TakeCommand ==
    /\ At("loop") /\ HasCommand
    /\ deferred' = NoCmd
    /\ queue' = IF deferred # NoCmd THEN queue ELSE Tail(queue)

LoopQuick ==
    /\ TakeCommand
    /\ HandleQuick(Command)
    /\ pc' = "tail"

(* turn_off(): the state is OFF whether or not esp_wifi_stop() succeeded. *)
TurnOff(ok) == Stop(ok) /\ failure' = "none" /\ state' = "OFF"

(* wifi_connection_handle_begin_setup(): when the station will not stop, setup *)
(* does not start and nothing else changes.                                   *)
HandleBeginSetup ==
    /\ TakeCommand /\ Command.type = "beginSetup"
    /\ \E ok \in BOOLEAN :
         /\ Stop(ok)
         /\ Answer(Command, ok)
         /\ IF ok
            THEN /\ connectWanted' = FALSE /\ stopWhenUnused' = FALSE
                 /\ failure' = "none" /\ state' = "SETUP_RUNNING"
                 /\ UNCHANGED result
            ELSE UNCHANGED <<flags, status>>
    /\ pc' = "tail"
    /\ UNCHANGED <<proc, users, profiles, ui>>

SetupHasStation == state = "SETUP_RUNNING"

HandleSetupScan ==
    /\ TakeCommand /\ Command.type = "setupScan"
    /\ IF SetupHasStation
       THEN \E scan \in {"ok", "startFailed", "scanFailed"} :
               ScanMode(scan) /\ Answer(Command, scan = "ok")
       ELSE Answer(Command, FALSE) /\ UNCHANGED staVars
    /\ pc' = "tail"
    /\ UNCHANGED <<proc, status, users, flags, profiles, ui>>

(* wifi_connection_handle_setup_connect(): the test is a procedure, and its    *)
(* caller is answered when it ends.                                           *)
HandleSetupConnect ==
    /\ TakeCommand /\ Command.type = "setupConnect"
    /\ IF SetupHasStation
       THEN /\ proc' = [Idle EXCEPT !.kind = "test", !.net = Command.net]
            /\ pc' = "attempt"
            /\ UNCHANGED call
       ELSE /\ Answer(Command, FALSE)
            /\ pc' = "tail"
            /\ UNCHANGED proc
    /\ UNCHANGED <<staVars, status, users, flags, profiles, ui>>

\* Mistaken: the users that setup paused are forgotten.
CancelSetupForAll(ok) ==
    TurnOff(ok) /\ Answer(Command, ok) /\ UNCHANGED connectWanted

(* wifi_connection_handle_complete_setup(): believes the caller about the       *)
(* link; a cancelled setup resumes its users.                                  *)
CancelSetup(ok) ==
    IF users # {}
    THEN /\ Stop(ok)
         /\ connectWanted' = TRUE /\ state' = "CONNECTING"
         /\ Answer(Command, TRUE)
         /\ UNCHANGED failure
    ELSE /\ TurnOff(ok)
         /\ Answer(Command, ok)
         /\ UNCHANGED connectWanted

HandleCompleteSetup ==
    /\ TakeCommand /\ Command.type = "completeSetup"
    /\ CASE state # "SETUP_RUNNING" ->
              Answer(Command, FALSE) /\ UNCHANGED <<staVars, status, connectWanted>>
         [] state = "SETUP_RUNNING" /\ Command.connected ->
              /\ SetResult(TRUE, TRUE) /\ failure' = "none" /\ state' = "CONNECTED"
              /\ Answer(Command, TRUE)
              /\ UNCHANGED <<staVars, connectWanted>>
         [] OTHER -> (\E ok \in BOOLEAN : CancelSetup(ok)) /\ UNCHANGED result
    /\ pc' = "tail"
    /\ UNCHANGED <<proc, users, stopWhenUnused, profiles, ui>>

\* Mistaken: a disconnect counts in every state.
LosesAnyLink(event) == ~event.connected

(* wifi_connection_handle_sta_event(): outside an attempt only the loss of the *)
(* published connection matters.                                              *)
LosesLink(event) == ~event.connected /\ state = "CONNECTED"

HandleStaEvent ==
    /\ TakeCommand /\ IsEvent(Command)
    /\ IF LosesLink(Command)
       THEN connectWanted' = TRUE /\ state' = "RECONNECTING"
       ELSE UNCHANGED <<connectWanted, state>>
    /\ pc' = "tail"
    /\ UNCHANGED <<staVars, proc, failure, result, users, stopWhenUnused, profiles,
                   call, ui>>

\* Mistaken: a started driver is taken for a connected one.
StationGone == ~sta.started

(* wifi_connection_check_link(), polled while CONNECTED and nothing arrives. *)
LinkGone == ~IsConnected

CheckLink ==
    /\ At("loop") /\ deferred = NoCmd /\ ~connectWanted /\ queue = <<>>
    /\ state = "CONNECTED"
    /\ IF LinkGone
       THEN connectWanted' = TRUE /\ state' = "RECONNECTING" /\ UNCHANGED result
       ELSE SetResult(TRUE, TRUE) /\ UNCHANGED <<connectWanted, state>>
    /\ pc' = "tail"
    /\ UNCHANGED <<staVars, queue, deferred, proc, failure, users, stopWhenUnused,
                   profiles, call, ui>>

(* wifi_connection_stop_if_unused(), after every round of the loop. *)
MayStop == stopWhenUnused /\ ~connectWanted /\ deferred = NoCmd

\* Mistaken: only a connection is turned off.
ConnectedUnused == users = {} /\ state = "CONNECTED"

IsUnused == users = {} /\ state \notin Setup /\ state # "OFF"

StopIfUnused ==
    /\ At("tail")
    /\ pc' = "loop"
    /\ IF MayStop
       THEN /\ stopWhenUnused' = FALSE
            /\ IF IsUnused
               THEN \E ok \in BOOLEAN : TurnOff(ok)
               ELSE UNCHANGED <<staVars, failure, state>>
       ELSE UNCHANGED <<staVars, stopWhenUnused, failure, state>>
    /\ UNCHANGED <<queue, deferred, proc, result, users, connectWanted, profiles,
                   call, ui>>

-----------------------------------------------------------------------------
(* The procedures.  Leaving one returns to the loop's tail. *)
EndProc == pc' = "tail" /\ proc' = Idle

(* wifi_connection_run_auto_connect(). *)
StartAutoConnect ==
    /\ At("loop") /\ deferred = NoCmd /\ connectWanted
    /\ connectWanted' = FALSE
    /\ failure' = "none"
    /\ pc' = "collect"
    /\ proc' = [Idle EXCEPT !.kind = "auto", !.scans = 1]
    /\ UNCHANGED <<staVars, queue, deferred, state, result, users, stopWhenUnused,
                   profiles, call, ui>>

(* One pass over the saved profiles ended without a connection: scan again     *)
(* while none was in range, else the automatic connect has failed.            *)
PassFailed(reason) ==
    IF reason = "noAp" /\ proc.scans < ScanAttempts
    THEN /\ pc' = "rescan"
         /\ proc' = [Idle EXCEPT !.kind = "auto", !.scans = proc.scans]
         /\ UNCHANGED <<state, failure, result>>
    ELSE /\ EndProc
         /\ failure' = reason /\ state' = "FAILED"
         /\ SetResult(Configured, FALSE)

(* The newest candidate's turn, or none is left. *)
NextCandidate(candidates, reason) ==
    \/ /\ candidates = NoProfiles
       /\ PassFailed(reason)
    \/ \E net \in Networks :
          /\ IsNewest(net, candidates)
          /\ pc' = "attempt"
          /\ proc' = [proc EXCEPT !.net = net, !.rest = [candidates EXCEPT ![net] = 0],
                                  !.attempt = 0, !.reason = "none"]
          /\ UNCHANGED <<state, failure, result>>

(* wifi_connection_collect_candidates(): the saved profiles the scan sees, in   *)
(* the order they last succeeded.                                             *)
CollectNone ==
    /\ At("collect") /\ ~Configured
    /\ PassFailed("noProfile")
    /\ UNCHANGED <<staVars, queue, deferred, users, flags, profiles, call, ui>>

Collect ==
    /\ At("collect") /\ Configured
    /\ \/ \E scan \in {"startFailed", "scanFailed"} : ScanMode(scan) /\ PassFailed("timeout")
       \/ /\ ScanMode("ok")
          /\ \E visible \in SUBSET Networks :
               NextCandidate([n \in Networks |-> IF n \in visible THEN profiles[n] ELSE 0], "noAp")
    /\ UNCHANGED <<queue, deferred, users, flags, profiles, call, ui>>

(* wifi_connection_connect_fresh(): stop, wait out the delay, connect, wait. *)
BeginAttempt ==
    /\ At("attempt")
    /\ \E ok \in BOOLEAN : Stop(ok)
    /\ pc' = "delay"
    /\ UNCHANGED <<queue, deferred, proc, status, users, flags, profiles, call, ui>>

DelayOver ==
    /\ At("delay") /\ queue = <<>>
    /\ pc' = "start"
    /\ UNCHANGED <<staVars, queue, deferred, proc, status, users, flags, profiles, call, ui>>

RescanDelayOver ==
    /\ At("rescan") /\ queue = <<>>
    /\ pc' = "collect"
    /\ proc' = [proc EXCEPT !.scans = @ + 1]
    /\ UNCHANGED <<staVars, queue, deferred, status, users, flags, profiles, call, ui>>

(* An attempt failed: try again, or give this network up. *)
AttemptFailed(reason) ==
    LET auth   == IF reason = "auth" /\ proc.kind = "test" THEN proc.auth + 1 ELSE proc.auth
        giveUp == proc.attempt + 1 = MaxAttempts \/ auth = AuthLimit
    IN  /\ proc' = [proc EXCEPT !.reason = reason, !.attempt = @ + 1, !.auth = auth]
        /\ pc' = IF giveUp THEN "giveUp" ELSE "attempt"

StartAttempt ==
    /\ At("start")
    /\ \E start \in StartResults :
         /\ InitAndStart(proc.net, start)
         /\ IF start = "ok"
            THEN pc' = "wait" /\ UNCHANGED proc
            ELSE AttemptFailed("connect")
    /\ UNCHANGED <<queue, deferred, status, users, flags, profiles, call, ui>>

(* This network is given up: the test has failed, or the next candidate's      *)
(* turn comes, or the pass is over.                                           *)
GiveUp ==
    /\ At("giveUp")
    /\ \E ok \in BOOLEAN : Stop(ok)
    /\ IF proc.kind = "test"
       THEN /\ EndProc
            /\ Answer([from |-> UI], FALSE)
            /\ UNCHANGED <<state, failure, result>>
       ELSE NextCandidate(proc.rest, proc.reason) /\ UNCHANGED call
    /\ UNCHANGED <<queue, deferred, users, flags, profiles, ui>>

(* An attempt connected: only now is the profile saved, and a profile that      *)
(* cannot be saved counts as a failure although the link stays up.             *)
AttemptConnected ==
    \E saved \in BOOLEAN :
      /\ profiles' = IF saved THEN Remember(profiles, proc.net) ELSE profiles
      /\ IF proc.kind = "test"
         THEN /\ EndProc
              /\ Answer([from |-> UI], saved)
              /\ UNCHANGED <<state, failure, result>>
         ELSE /\ IF saved
                 THEN /\ EndProc
                      /\ SetResult(TRUE, TRUE) /\ failure' = "none" /\ state' = "CONNECTED"
                 ELSE NextCandidate(proc.rest, proc.reason)
              /\ UNCHANGED call

(* wifi_connection_manager_wait_attempt(): an event, or the deadline, after      *)
(* which the driver is asked because the event may have been dropped.           *)
AttemptEvent ==
    /\ At("wait") /\ queue # <<>> /\ IsEvent(Head(queue))
    /\ queue' = Tail(queue)
    /\ IF Head(queue).connected
       THEN AttemptConnected
       ELSE /\ AttemptFailed(Head(queue).reason)
            /\ UNCHANGED <<profiles, state, failure, result, call>>
    /\ UNCHANGED <<staVars, deferred, users, flags, ui>>

AttemptTimeout ==
    /\ At("wait") /\ queue = <<>>
    /\ IF IsConnected
       THEN AttemptConnected
       ELSE /\ AttemptFailed("timeout")
            /\ UNCHANGED <<profiles, state, failure, result, call>>
    /\ UNCHANGED <<staVars, queue, deferred, users, flags, ui>>

(* wifi_connection_wait_until(), the receives that do not end an attempt: quick *)
(* requests are answered, an event outside an attempt is dropped, and a request *)
(* that needs the station interrupts the procedure.                            *)
Waiting == EventTaskKeepsUp /\ pc \in {"delay", "rescan", "wait"} /\ queue # <<>>

WaitQuick ==
    /\ Waiting /\ IsQuick(Head(queue))
    /\ queue' = Tail(queue)
    /\ HandleQuick(Head(queue))
    /\ UNCHANGED <<deferred, pc>>

WaitDropsEvent ==
    /\ Waiting /\ pc # "wait" /\ IsEvent(Head(queue))
    /\ queue' = Tail(queue)
    /\ UNCHANGED <<staVars, deferred, pc, proc, status, users, flags, profiles, call, ui>>

Abandon ==
    IF proc.kind = "auto"
    THEN connectWanted' = TRUE /\ UNCHANGED call
    ELSE Answer([from |-> UI], FALSE) /\ UNCHANGED connectWanted

\* Mistaken: the request that interrupts is lost.
DeferLost(cmd) == UNCHANGED deferred

Defer(cmd) == deferred' = cmd

Interrupted ==
    /\ Waiting /\ NeedsSta(Head(queue))
    /\ queue' = Tail(queue)
    /\ Defer(Head(queue))
    /\ Abandon
    /\ EndProc
    /\ UNCHANGED <<staVars, status, users, stopWhenUnused, profiles, ui>>

-----------------------------------------------------------------------------
Handle == \/ LoopQuick \/ HandleBeginSetup \/ HandleSetupScan \/ HandleSetupConnect
          \/ HandleCompleteSetup \/ HandleStaEvent

(* Steps the manager takes at the end of a timeout, and its other steps. *)
Timeouts == CheckLink \/ DelayOver \/ RescanDelayOver \/ AttemptTimeout

ManagerSteps ==
    \/ Boot \/ Handle \/ StopIfUnused \/ StartAutoConnect \/ CollectNone \/ Collect
    \/ BeginAttempt \/ StartAttempt \/ GiveUp \/ AttemptEvent
    \/ WaitQuick \/ WaitDropsEvent \/ Interrupted

UserNext == \E u \in Users : UserAcquire(u) \/ UserRelease(u)

UiNext ==
    \/ UiEnter \/ UiReenter \/ UiScan \/ UiComplete \/ UiLeave \/ UiLeaveSilently \/ UiRetry
    \/ UiReturn
    \/ \E net \in Networks : UiConnect(net) \/ UiForget(net) \/ UiPrefer(net)

Next == ManagerSteps \/ Timeouts \/ UserNext \/ UiNext \/ HandleEvent \/ Network

Spec == Init /\ [][Next]_vars

(* The scheduler runs every ready task: the manager and the event task.  A      *)
(* deadline passes, so a receive with a timeout ends once nothing arrives; and  *)
(* something does not arrive for ever, because the manager (priority 8)         *)
(* outranks its callers (radio_manager 7, app_shell 5): it empties its queue    *)
(* and blocks before they run again.                                           *)
Blocks == queue = <<>> /\ pc \in {"loop", "delay", "rescan", "wait"}

Fairness ==
    /\ WF_vars(ManagerSteps)
    /\ SF_vars(Timeouts)
    /\ WF_vars(HandleEvent)
    /\ []<>Blocks

FairSpec == Spec /\ Fairness

-----------------------------------------------------------------------------
TypeOK ==
    /\ StaType
    /\ queue \in Seq(Cmds) /\ Len(queue) <= QueueLength
    /\ deferred \in StaCmds \cup {NoCmd}
    /\ pc \in {"boot", "loop", "tail", "collect", "rescan", "attempt", "delay", "start", "wait",
               "giveUp"}
    /\ proc \in Procs
    /\ state \in States /\ failure \in Failures
    /\ result \in [configured: BOOLEAN, connected: BOOLEAN]
    /\ users \subseteq Users
    /\ connectWanted \in BOOLEAN /\ stopWhenUnused \in BOOLEAN
    /\ profiles \in [Networks -> 0 .. MaxProfiles]
    /\ call \in [Callers -> {"idle", "waiting", "ok", "error"}]
    /\ ui \in [stage: Stages, active: BOOLEAN]

(* A task that holds Wi-Fi never finds it off, whatever setup, a lost link or   *)
(* another user's release did meanwhile (stop_if_unused, complete_setup).       *)
UsersKeepWifiOn == users # {} => state \notin {"OFF", "STOPPED"}

(* CONNECTING and RECONNECTING are published exactly while the manager has an   *)
(* attempt to make or is making it: no interruption strands the state (the      *)
(* deferred requests), and no automatic connect runs under setup (review #4).   *)
AttemptBehindState == state \in Trying <=> connectWanted \/ proc.kind = "auto"

(* The published state has its substance: both of the above, through every      *)
(* order of acquire, release, setup and lost links.                            *)
StateIsBacked == UsersKeepWifiOn /\ AttemptBehindState

(* The connection test runs only while setup has the station. *)
TestOnlyInSetup == proc.kind = "test" => state = "SETUP_RUNNING"

(* Every waiting caller has exactly one request with the manager, and nobody    *)
(* else has any: no request is lost by an interruption, and no answer is        *)
(* written to a caller that has returned (completion lives on its stack).       *)
Requests(c) ==
    Cardinality({i \in DOMAIN queue : ~IsEvent(queue[i]) /\ queue[i].from = c})
        + (IF deferred # NoCmd /\ deferred.from = c THEN 1 ELSE 0)
        + (IF proc.kind = "test" /\ c = UI THEN 1 ELSE 0)

OneAnswerPerRequest == \A c \in Callers : Requests(c) = IF call[c] = "waiting" THEN 1 ELSE 0

(* Off is off the air: no link, and nothing that would make one, even when      *)
(* esp_wifi_stop() failed (turn_off()).                                        *)
OffIsOffTheAir == state = "OFF" => sta.link = "down" /\ ~sta.requested

(* What the LED is told agrees with what the getters publish: the last          *)
(* connection succeeded while CONNECTED, and not after a failure.              *)
ResultMatchesState ==
    /\ state = "CONNECTED" => result = [configured |-> TRUE, connected |-> TRUE]
    /\ state = "FAILED" => ~result.connected

(* acquire's contract: once it is answered, no stale OFF or FAILED is visible.  *)
AcquireShowsNoStaleFailure ==
    [][ \A u \in Users : u \in users' \ users => state' \notin {"OFF", "FAILED"} ]_vars

(* The manager answers every request it is given. *)
EveryCallReturns == \A c \in Callers : (call[c] = "waiting") ~> (call[c] # "waiting")

(* A published connection that is gone is noticed, also when the disconnect     *)
(* event found the queue full (check_link).                                    *)
LostLinkIsNoticed == (state = "CONNECTED" /\ ~IsConnected) ~> (state # "CONNECTED" \/ IsConnected)

(* Once the last user is gone the manager turns Wi-Fi off, unless a user or     *)
(* setup comes back first.                                                     *)
UnusedGoesOff ==
    stopWhenUnused ~> (state = "OFF" \/ users # {} \/ state \in Setup \/ []<>(deferred # NoCmd))
-----------------------------------------------------------------------------
(* The manager implements the service its users rely on: seen through the       *)
(* published state and the set of users, every step is a step of WifiService    *)
(* or changes neither.                                                         *)
Service == INSTANCE WifiService WITH state <- state, users <- users

ImplementsService == Service!ServiceInit /\ [][Service!ServiceNext]_(Service!serviceVars)

-----------------------------------------------------------------------------
(* What the documents say and the code does not do:                            *)
(* MCWifiConnectionCompleteSetup.cfg finds it violated.                        *)

(* wifi_connection.h:126-127: "complete_setup ends it: CONNECTED when the tested *)
(* profile is still up".  The manager takes the caller's word for it.           *)
CompletedOnlyWhileUp ==
    [][ state = "SETUP_RUNNING" /\ state' = "CONNECTED" => IsConnected ]_vars
=============================================================================
