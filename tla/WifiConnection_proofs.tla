------------------------ MODULE WifiConnection_proofs ------------------------
(***************************************************************************)
(* Safety of the Wi-Fi connection manager for every number of networks,    *)
(* users and profiles, every queue length and retry limit, and an event    *)
(* task as late as it likes (Backlog).                                     *)
(***************************************************************************)
EXTENDS WifiConnection, SequenceTheorems, FiniteSetTheorems, TLAPS

-----------------------------------------------------------------------------
(* The inductive invariant.  The properties are about what other tasks see;  *)
(* each of them holds because of where the manager is in its code.           *)

(* Nothing has been answered, and the station is untouched, before the manager *)
(* has published a state.                                                     *)
BootShape ==
    /\ pc = "boot" <=> state = "STOPPED"
    /\ pc = "boot" => ~connectWanted /\ users = {} /\ deferred = NoCmd /\ ~sta.started

(* The procedure on the manager's stack belongs to its place; an automatic   *)
(* connect has consumed the wish that started it.                            *)
ProcShape ==
    /\ proc.kind = "none" <=> pc \in {"boot", "loop", "tail"}
    /\ pc \in {"collect", "rescan"} => proc.kind = "auto"
    /\ proc.kind = "auto" => ~connectWanted /\ proc.auth = 0

(* While attempts go on, none of their limits is reached. *)
LimitShape ==
    /\ pc \in {"attempt", "delay", "start", "wait"} =>
           proc.attempt < MaxAttempts /\ proc.auth < AuthLimit
    /\ pc = "rescan" => proc.scans < ScanAttempts

(* A driver that was not started has no link and expects none. *)
DriverShape == ~sta.started => sta.link = "down" /\ ~sta.requested

(* What the manager has published agrees with what it does. *)
StateShape ==
    /\ UsersKeepWifiOn
    /\ AttemptBehindState
    /\ TestOnlyInSetup
    /\ OffIsOffTheAir
    /\ ResultMatchesState

IInv == TypeOK /\ BootShape /\ ProcShape /\ LimitShape /\ DriverShape /\ StateShape

-----------------------------------------------------------------------------
(* Facts about requests and the queue. *)

(* A request says what it needs by its type, and who waits for its answer. *)
LEMMA CommandTypes ==
    ASSUME NEW cmd \in Cmds
    PROVE  /\ NeedsSta(cmd) => cmd \in StaCmds /\ cmd.from = UI
           /\ IsQuick(cmd) => cmd.from \in Callers
           /\ cmd.type = "acquire" => cmd.from \in Users
           /\ cmd.type = "setupConnect" => cmd.net \in Networks
           /\ IsEvent(cmd) => cmd.connected \in BOOLEAN /\ cmd.reason \in Failures
           /\ cmd # NoCmd
  BY DEF Cmds, QuickCmds, StaCmds, StaEvents, NeedsSta, IsQuick, IsEvent, Callers, NoCmd

(* Receiving takes a command and leaves a shorter queue. *)
LEMMA Received ==
    ASSUME TypeOK, queue # <<>>
    PROVE  /\ Head(queue) \in Cmds
           /\ Tail(queue) \in Seq(Cmds) /\ Len(Tail(queue)) <= QueueLength
  <1>1. queue \in Seq(Cmds) /\ Len(queue) <= QueueLength
    BY DEF TypeOK
  <1>2. /\ Head(queue) \in Cmds
        /\ Tail(queue) \in Seq(Cmds) /\ Len(Tail(queue)) = Len(queue) - 1
    BY <1>1, HeadTailProperties
  <1>. QED
    BY <1>1, <1>2, LenProperties, BoundAssumption

(* The queue holds no more than its length. *)
LEMMA Sent ==
    ASSUME TypeOK, NEW cmd \in Cmds, Len(queue) < QueueLength
    PROVE  /\ Append(queue, cmd) \in Seq(Cmds)
           /\ Len(Append(queue, cmd)) <= QueueLength
  BY AppendProperties, BoundAssumption DEF TypeOK

-----------------------------------------------------------------------------
(* The driver. *)

LEMMA PostLeaveType ==
    ASSUME StaType, NEW s
    PROVE  PostLeave(s, posted) \in Seq(DriverEvents)
  <1>1. Disconnected("left") \in DriverEvents
    BY DEF Disconnected, DriverEvents
  <1>. QED
    BY <1>1, AppendProperties DEF StaType, PostLeave

(* A stopped station is down, also when esp_wifi_stop() failed. *)
LEMMA StopKeeps ==
    ASSUME StaType, DriverShape, NEW ok \in BOOLEAN, Stop(ok)
    PROVE  StaType' /\ DriverShape' /\ (sta.link = "down" /\ ~sta.requested)'
  <1>1. CASE ~sta.started
    BY <1>1 DEF Stop, StaType, DriverShape, staVars
  <1>2. CASE sta.started
    <2>1. posted' \in Seq(DriverEvents)
      BY <1>2, PostLeaveType DEF Stop
    <2>2. CASE ok
      BY <1>2, <2>1, <2>2 DEF Stop, DropLink, StaType, DriverShape
    <2>3. CASE ~ok
      BY <1>2, <2>1, <2>3 DEF Stop, DropLink, StaType, DriverShape
    <2>. QED
      BY <2>2, <2>3
  <1>. QED
    BY <1>1, <1>2 DEF StaType

LEMMA ScanModeKeeps ==
    ASSUME StaType, DriverShape, NEW scan, ScanMode(scan)
    PROVE  StaType' /\ DriverShape'
  <1>1. posted' \in Seq(DriverEvents)
    BY PostLeaveType DEF ScanMode
  <1>2. /\ (scan # "startFailed") \in BOOLEAN
        /\ scan = "startFailed" => ~sta.started
    BY DEF ScanMode
  <1>3. sta' = [sta EXCEPT !.link = "down", !.net = NoNetwork, !.admitted = FALSE,
                           !.requested = FALSE, !.hasIp = FALSE, !.state = "scan",
                           !.started = (scan # "startFailed")]
    BY DEF ScanMode, DropLink, StaType
  <1>. QED
    BY <1>1, <1>2, <1>3 DEF StaType, DriverShape

LEMMA InitAndStartKeeps ==
    ASSUME StaType, DriverShape, NEW net \in Networks \cup {NoNetwork},
           NEW start \in StartResults, InitAndStart(net, start)
    PROVE  StaType' /\ DriverShape'
  <1>1. posted' \in Seq(DriverEvents)
    BY PostLeaveType DEF InitAndStart, StaType
  <1>2. sta' \in [ started: BOOLEAN, requested: BOOLEAN, hasIp: BOOLEAN,
                   state: {"stopped", "connecting", "connected", "failed", "scan"},
                   link: {"down", "joining", "up"}, net: Networks \cup {NoNetwork},
                   admitted: BOOLEAN ]
    BY DEF InitAndStart, Reconfigured, DropLink, StaType, StartResults
  <1>3. DriverShape'
    BY DEF InitAndStart, Reconfigured, DropLink, StaType, StartResults, DriverShape
  <1>. QED
    BY <1>1, <1>2, <1>3 DEF StaType

-----------------------------------------------------------------------------
(* The steps of the callers. *)

(* A caller's request changes nothing the manager has. *)
LEMMA RequestKeeps ==
    ASSUME IInv, NEW c \in Callers, NEW cmd \in Cmds, Request(c, cmd),
           (ui \in [stage: Stages, active: BOOLEAN])'
    PROVE  IInv'
  <1>1. queue' \in Seq(Cmds) /\ Len(queue') <= QueueLength
    BY Sent DEF IInv, Request
  <1>2. call' \in [Callers -> {"idle", "waiting", "ok", "error"}]
    BY DEF IInv, TypeOK, Request
  <1>3. TypeOK'
    BY <1>1, <1>2 DEF IInv, TypeOK, StaType, Request, staVars, status, flags
  <1>. QED
    BY <1>3 DEF IInv, Request, BootShape, ProcShape, LimitShape, DriverShape, StateShape,
                UsersKeepWifiOn, AttemptBehindState, TestOnlyInSetup, OffIsOffTheAir,
                ResultMatchesState, staVars, status, flags

LEMMA UserStep == ASSUME IInv, UserNext PROVE IInv'
  <1>1. PICK u \in Users : UserAcquire(u) \/ UserRelease(u)
    BY DEF UserNext
  <1>2. /\ [type |-> "acquire", from |-> u] \in Cmds
        /\ [type |-> "release", from |-> u] \in Cmds
        /\ u \in Callers
    BY DEF Cmds, QuickCmds, Callers
  <1>3. (ui \in [stage: Stages, active: BOOLEAN])'
    BY <1>1 DEF IInv, TypeOK, UserAcquire, UserRelease
  <1>. QED
    BY <1>1, <1>2, <1>3, RequestKeeps DEF UserAcquire, UserRelease

LEMMA UiStep == ASSUME IInv, UiNext PROVE IInv'
  <1>. USE DEF Goto, Stages
  <1>1. ui \in [stage: Stages, active: BOOLEAN] /\ UI \in Callers
    BY DEF IInv, TypeOK, Callers
  <1>0. /\ \A stage \in Stages : [ui EXCEPT !.stage = stage] \in [stage: Stages, active: BOOLEAN]
        /\ \A stage \in Stages, active \in BOOLEAN :
              [stage |-> stage, active |-> active] \in [stage: Stages, active: BOOLEAN]
    BY <1>1
  <1>2. ASSUME NEW cmd \in Cmds, Request(UI, cmd), NEW stage \in Stages, Goto(stage)
        PROVE  IInv'
    BY <1>1, <1>2, RequestKeeps
  <1>3. CASE UiEnter
    BY <1>2, <1>3 DEF UiEnter, Cmds, StaCmds
  <1>4. CASE UiScan
    BY <1>2, <1>4 DEF UiScan, Cmds, StaCmds
  <1>5. CASE UiComplete
    BY <1>2, <1>5 DEF UiComplete, Cmds, StaCmds
  <1>6. CASE UiLeave
    BY <1>2, <1>6 DEF UiLeave, Cmds, StaCmds
  <1>7. CASE UiRetry
    BY <1>2, <1>7 DEF UiRetry, Cmds, QuickCmds
  <1>8. ASSUME NEW net \in Networks, UiConnect(net) PROVE IInv'
    BY <1>2, <1>8 DEF UiConnect, Cmds, StaCmds
  <1>9. ASSUME UNCHANGED <<staVars, queue, deferred, pc, proc, status, users, flags>>,
               profiles' \in [Networks -> 0 .. MaxProfiles],
               call' \in [Callers -> {"idle", "waiting", "ok", "error"}],
               ui' \in [stage: Stages, active: BOOLEAN]
        PROVE  IInv'
    BY <1>9 DEF IInv, TypeOK, StaType, BootShape, ProcShape, LimitShape, DriverShape, StateShape,
                UsersKeepWifiOn, AttemptBehindState, TestOnlyInSetup, OffIsOffTheAir,
                ResultMatchesState, staVars, status, flags
  <1>10. CASE UiReenter \/ UiLeaveSilently
    <2>1. ui' \in [stage: Stages, active: BOOLEAN]
      BY <1>0, <1>10 DEF UiReenter, UiLeaveSilently
    <2>2. UNCHANGED <<staVars, queue, deferred, pc, proc, status, users, flags, profiles, call>>
      BY <1>10 DEF UiReenter, UiLeaveSilently
    <2>3. /\ profiles \in [Networks -> 0 .. MaxProfiles]
          /\ call \in [Callers -> {"idle", "waiting", "ok", "error"}]
      BY DEF IInv, TypeOK
    <2>. QED
      BY <2>1, <2>2, <2>3, <1>9
  <1>11. CASE UiReturn
    <2>1. call' \in [Callers -> {"idle", "waiting", "ok", "error"}]
      BY <1>11 DEF IInv, TypeOK, UiReturn
    <2>2. ui' \in [stage: Stages, active: BOOLEAN]
      <3>1. \/ \E stage \in Stages : Goto(stage)
            \/ \E stage \in Stages, active \in BOOLEAN : ui' = [stage |-> stage, active |-> active]
        BY <1>1, <1>11 DEF UiReturn
      <3>. QED
        BY <1>0, <3>1
    <2>. QED
      BY <2>1, <2>2, <1>9, <1>11 DEF IInv, TypeOK, UiReturn
  <1>12. ASSUME NEW net \in Networks, UiForget(net) PROVE IInv'
    <2>1. profiles' \in [Networks -> 0 .. MaxProfiles]
      BY <1>12, BoundAssumption DEF IInv, TypeOK, UiForget, Forget, Without
    <2>. QED
      BY <2>1, <1>1, <1>9, <1>12 DEF IInv, TypeOK, UiForget
  <1>13. ASSUME NEW net \in Networks, UiPrefer(net) PROVE IInv'
    <2>1. profiles' \in [Networks -> 0 .. MaxProfiles]
      BY <1>13, BoundAssumption DEF IInv, TypeOK, UiPrefer, Remember, AsNewest
    <2>. QED
      BY <2>1, <1>1, <1>9, <1>13 DEF IInv, TypeOK, UiPrefer
  <1>. QED
    BY <1>3, <1>4, <1>5, <1>6, <1>7, <1>8, <1>10, <1>11, <1>12, <1>13 DEF UiNext

-----------------------------------------------------------------------------
(* The steps of ESP-IDF and its event task. *)

LEMMA DriverStep == ASSUME IInv, HandleEvent \/ Network PROVE IInv'
  <1>. USE DEF StaType
  <1>1. CASE HandleEvent
    <2>1. /\ Head(posted) \in DriverEvents
          /\ posted' \in Seq(DriverEvents)
      BY <1>1, HeadTailProperties DEF IInv, TypeOK, HandleEvent
    <2>2. queue' \in Seq(Cmds) /\ Len(queue') <= QueueLength
      <3>1. MapReason(Head(posted).reason) \in Failures
        BY <2>1, ReasonAssumption DEF DriverEvents, MapReason, Failures
      <3>2. (Head(posted).kind = "gotIp") \in BOOLEAN
        OBVIOUS
      <3>3. [type |-> "staEvent", connected |-> (Head(posted).kind = "gotIp"),
             reason |-> MapReason(Head(posted).reason)] \in Cmds
        BY <3>1, <3>2 DEF Cmds, StaEvents
      <3>4. \/ queue' = queue
            \/ /\ Len(queue) < QueueLength
               /\ queue' = Append(queue, [type |-> "staEvent",
                                          connected |-> (Head(posted).kind = "gotIp"),
                                          reason |-> MapReason(Head(posted).reason)])
        BY <1>1 DEF HandleEvent, Report
      <3>5. TypeOK
        BY DEF IInv
      <3>6. queue \in Seq(Cmds) /\ Len(queue) <= QueueLength
        BY <3>5 DEF TypeOK
      <3>. QED
        BY <3>3, <3>4, <3>5, <3>6, Sent
    <2>3. /\ sta' \in [ started: BOOLEAN, requested: BOOLEAN, hasIp: BOOLEAN,
                        state: {"stopped", "connecting", "connected", "failed", "scan"},
                        link: {"down", "joining", "up"}, net: Networks \cup {NoNetwork},
                        admitted: BOOLEAN ]
          /\ sta'.started = sta.started /\ sta'.link = sta.link
          /\ sta'.requested => sta.requested
      <3>1. StaType
        BY DEF IInv, TypeOK
      <3>2. CASE OnIpEvent
        BY <3>1, <3>2 DEF OnIpEvent
      <3>3. CASE OnWifiEvent
        BY <3>1, <3>3 DEF OnWifiEvent
      <3>. QED
        BY <1>1, <3>2, <3>3 DEF HandleEvent
    <2>. QED
      BY <1>1, <2>1, <2>2, <2>3
      DEF IInv, TypeOK, HandleEvent, BootShape, ProcShape, LimitShape, DriverShape, StateShape,
          UsersKeepWifiOn, AttemptBehindState, TestOnlyInSetup, OffIsOffTheAir, ResultMatchesState,
          status, flags
  <1>2. CASE Network
    <2>1. posted' \in Seq(DriverEvents)
      <3>1. GotIp \in DriverEvents /\ \A reason \in Reasons : Disconnected(reason) \in DriverEvents
        BY DEF GotIp, Disconnected, DriverEvents
      <3>2. \E event \in DriverEvents : posted' = Append(posted, event)
        BY <1>2, <3>1 DEF Network, Join, EndLink
      <3>3. posted \in Seq(DriverEvents)
        BY DEF IInv, TypeOK
      <3>. QED
        BY <3>2, <3>3, AppendProperties
    <2>2. /\ sta' \in [ started: BOOLEAN, requested: BOOLEAN, hasIp: BOOLEAN,
                        state: {"stopped", "connecting", "connected", "failed", "scan"},
                        link: {"down", "joining", "up"}, net: Networks \cup {NoNetwork},
                        admitted: BOOLEAN ]
          /\ sta.link # "down" /\ sta'.started = sta.started /\ sta'.requested = sta.requested
      BY <1>2 DEF IInv, TypeOK, Network, Join, EndLink
    <2>. QED
      BY <1>2, <2>1, <2>2
      DEF IInv, TypeOK, Network, BootShape, ProcShape, LimitShape, DriverShape, StateShape,
          UsersKeepWifiOn, AttemptBehindState, TestOnlyInSetup, OffIsOffTheAir, ResultMatchesState,
          status, flags
  <1>. QED
    BY <1>1, <1>2

-----------------------------------------------------------------------------
(* The steps of the manager. *)

LEMMA BootStep == ASSUME IInv, Boot PROVE IInv'
  <1>1. result' \in [configured: BOOLEAN, connected: BOOLEAN]
    BY DEF Boot, SetResult, Configured
  <1>2. TypeOK'
    BY <1>1 DEF IInv, TypeOK, StaType, Boot, States, Trying, Setup, Failures, staVars, flags
  <1>. QED
    BY <1>2 DEF IInv, TypeOK, Boot, At, BootShape, ProcShape, LimitShape, DriverShape, StateShape,
          UsersKeepWifiOn, AttemptBehindState, TestOnlyInSetup, OffIsOffTheAir, ResultMatchesState,
          staVars, flags, Trying, Setup, NoCmd

(* What a quick request changes, wherever the manager is when it takes it. *)
LEMMA QuickKeeps ==
    ASSUME IInv, NEW cmd \in Cmds, HandleQuick(cmd), pc # "boot"
    PROVE  /\ state' \in States /\ users' \subseteq Users
           /\ connectWanted' \in BOOLEAN /\ stopWhenUnused' \in BOOLEAN
           /\ call' \in [Callers -> {"idle", "waiting", "ok", "error"}]
           /\ state' # "STOPPED"
           /\ proc.kind = "auto" => ~connectWanted'
           /\ StateShape'
  <1>1. cmd.from \in Callers
    BY CommandTypes DEF HandleQuick, AcquireEffect, ReleaseEffect, RetryEffect, IsQuick, NeedsSta,
                        IsEvent
  <1>2. call' \in [Callers -> {"idle", "waiting", "ok", "error"}]
    BY <1>1 DEF HandleQuick, AcquireEffect, ReleaseEffect, RetryEffect, Answer, IInv, TypeOK
  <1>3. /\ state \in States /\ state # "STOPPED" /\ users \subseteq Users
        /\ connectWanted \in BOOLEAN /\ stopWhenUnused \in BOOLEAN
    BY DEF IInv, TypeOK, BootShape
  <1>4. CASE AcquireEffect(cmd)
    <2>1. cmd.from \in Users
      BY <1>4, CommandTypes DEF AcquireEffect
    <2>. QED
      BY <1>2, <1>3, <1>4, <2>1
      DEF AcquireEffect, HandleQuick, CanStart, States, Trying, Setup, IInv, ProcShape, StateShape,
          UsersKeepWifiOn, AttemptBehindState, TestOnlyInSetup, OffIsOffTheAir, ResultMatchesState,
          staVars
  <1>5. CASE ReleaseEffect(cmd)
    BY <1>2, <1>3, <1>5
    DEF ReleaseEffect, HandleQuick, States, Trying, Setup, IInv, ProcShape, StateShape,
        UsersKeepWifiOn, AttemptBehindState, TestOnlyInSetup, OffIsOffTheAir, ResultMatchesState,
        staVars
  <1>6. CASE RetryEffect(cmd)
    BY <1>2, <1>3, <1>6
    DEF RetryEffect, HandleQuick, CanStart, States, Trying, Setup, IInv, ProcShape, StateShape,
        UsersKeepWifiOn, AttemptBehindState, TestOnlyInSetup, OffIsOffTheAir, ResultMatchesState,
        staVars
  <1>. QED
    BY <1>4, <1>5, <1>6 DEF HandleQuick

(* The main loop takes a request while no procedure runs. *)
LEMMA TakenCommand ==
    ASSUME IInv, TakeCommand
    PROVE  /\ Command \in Cmds
           /\ queue' \in Seq(Cmds) /\ Len(queue') <= QueueLength
           /\ deferred' \in StaCmds \cup {NoCmd}
           /\ pc = "loop" /\ proc.kind = "none" /\ state # "STOPPED"
  <1>1. /\ queue \in Seq(Cmds) /\ Len(queue) <= QueueLength
        /\ deferred \in StaCmds \cup {NoCmd}
        /\ TypeOK
    BY DEF IInv, TypeOK
  <1>2. pc = "loop" /\ proc.kind = "none" /\ state # "STOPPED"
    BY DEF IInv, TakeCommand, At, ProcShape, BootShape
  <1>. QED
    BY <1>1, <1>2, Received DEF TakeCommand, HasCommand, Command, Cmds

(* A step that ends at the loop's tail with what these facts say of it. *)
LEMMA HandledKeeps ==
    ASSUME IInv, TakeCommand, pc' = "tail", UNCHANGED <<proc, profiles, ui>>,
           StaType', DriverShape', StateShape',
           state' \in States \ {"STOPPED"}, failure' \in Failures,
           result' \in [configured: BOOLEAN, connected: BOOLEAN],
           users' \subseteq Users, connectWanted' \in BOOLEAN, stopWhenUnused' \in BOOLEAN,
           call' \in [Callers -> {"idle", "waiting", "ok", "error"}]
    PROVE  IInv'
  <1>1. TypeOK'
    BY TakenCommand DEF IInv, TypeOK
  <1>. QED
    BY <1>1, TakenCommand DEF IInv, BootShape, ProcShape, LimitShape

LEMMA LoopQuickStep == ASSUME IInv, LoopQuick PROVE IInv'
  <1>1. /\ TakeCommand /\ HandleQuick(Command) /\ Command \in Cmds /\ pc # "boot"
        /\ pc' = "tail"
    BY TakenCommand DEF LoopQuick
  <1>2. /\ UNCHANGED <<staVars, proc, failure, result, profiles, ui>>
        /\ StaType /\ DriverShape /\ failure \in Failures
        /\ result \in [configured: BOOLEAN, connected: BOOLEAN]
    BY <1>1 DEF HandleQuick, IInv, TypeOK
  <1>3. StaType' /\ DriverShape'
    BY <1>2 DEF StaType, DriverShape, staVars
  <1>. QED
    BY <1>1, <1>2, <1>3, QuickKeeps, HandledKeeps

LEMMA BeginSetupStep == ASSUME IInv, HandleBeginSetup PROVE IInv'
  <1>1. TakeCommand /\ Command \in Cmds /\ Command.type = "beginSetup" /\ proc.kind = "none"
    BY TakenCommand DEF HandleBeginSetup
  <1>2. PICK ok \in BOOLEAN :
           /\ Stop(ok)
           /\ Answer(Command, ok)
           /\ IF ok
              THEN /\ connectWanted' = FALSE /\ stopWhenUnused' = FALSE
                   /\ failure' = "none" /\ state' = "SETUP_RUNNING"
                   /\ UNCHANGED result
              ELSE UNCHANGED <<flags, status>>
    BY DEF HandleBeginSetup
  <1>3. StaType' /\ DriverShape' /\ sta'.link = "down" /\ ~sta'.requested
    BY <1>2, StopKeeps DEF IInv, TypeOK
  <1>4. call' \in [Callers -> {"idle", "waiting", "ok", "error"}]
    BY <1>1, <1>2, CommandTypes DEF IInv, TypeOK, Answer, NeedsSta, Callers
  <1>5. CASE ok
    BY <1>1, <1>2, <1>3, <1>4, <1>5, HandledKeeps
    DEF HandleBeginSetup, IInv, TypeOK, StateShape, States, Setup, Trying, Failures,
        UsersKeepWifiOn, AttemptBehindState, TestOnlyInSetup, OffIsOffTheAir, ResultMatchesState
  <1>6. CASE ~ok
    BY <1>1, <1>2, <1>3, <1>4, <1>6, HandledKeeps, TakenCommand
    DEF HandleBeginSetup, IInv, TypeOK, StateShape, UsersKeepWifiOn, AttemptBehindState,
        TestOnlyInSetup, OffIsOffTheAir, ResultMatchesState, flags, status
  <1>. QED
    BY <1>5, <1>6

LEMMA SetupScanStep == ASSUME IInv, HandleSetupScan PROVE IInv'
  <1>1. TakeCommand /\ Command \in Cmds /\ Command.type = "setupScan"
    BY TakenCommand DEF HandleSetupScan
  <1>2. call' \in [Callers -> {"idle", "waiting", "ok", "error"}]
    BY <1>1, CommandTypes DEF HandleSetupScan, SetupHasStation, IInv, TypeOK, Answer, NeedsSta, Callers
  <1>3. CASE state = "SETUP_RUNNING"
    <2>1. StaType' /\ DriverShape'
      BY <1>3, ScanModeKeeps DEF IInv, TypeOK, HandleSetupScan, SetupHasStation
    <2>. QED
      BY <1>1, <1>2, <1>3, <2>1, HandledKeeps
      DEF HandleSetupScan, SetupHasStation, IInv, TypeOK, StateShape, UsersKeepWifiOn, AttemptBehindState,
          TestOnlyInSetup, OffIsOffTheAir, ResultMatchesState, flags, status
  <1>4. CASE state # "SETUP_RUNNING"
    <2>1. StaType' /\ DriverShape'
      BY <1>4 DEF IInv, TypeOK, HandleSetupScan, SetupHasStation, StaType, DriverShape, staVars
    <2>. QED
      BY <1>1, <1>2, <1>4, <2>1, HandledKeeps, TakenCommand
      DEF HandleSetupScan, SetupHasStation, IInv, TypeOK, StateShape, UsersKeepWifiOn, AttemptBehindState,
          TestOnlyInSetup, OffIsOffTheAir, ResultMatchesState, flags, status, staVars
  <1>. QED
    BY <1>3, <1>4

(* The manager's stack between procedures. *)
LEMMA IdleProc ==
    Idle \in Procs /\ Idle.kind = "none" /\ Idle.attempt = 0 /\ Idle.auth = 0
  BY BoundAssumption DEF Idle, Procs, NoProfiles, Failures

LEMMA SetupConnectStep == ASSUME IInv, HandleSetupConnect PROVE IInv'
  <1>1. /\ TakeCommand /\ Command \in Cmds /\ Command.from = UI /\ Command.net \in Networks
        /\ state # "STOPPED" /\ pc = "loop" /\ proc.kind = "none"
    BY TakenCommand, CommandTypes DEF HandleSetupConnect, SetupHasStation, NeedsSta
  <1>2. call' \in [Callers -> {"idle", "waiting", "ok", "error"}]
    BY <1>1 DEF HandleSetupConnect, SetupHasStation, IInv, TypeOK, Answer, Callers
  <1>3. StaType' /\ DriverShape'
    BY DEF IInv, TypeOK, HandleSetupConnect, StaType, DriverShape, staVars
  <1>4. CASE state = "SETUP_RUNNING"
    <2>1. proc' = [Idle EXCEPT !.kind = "test", !.net = Command.net] /\ pc' = "attempt"
      BY <1>4 DEF HandleSetupConnect, SetupHasStation
    <2>2. /\ proc'.kind = "test" /\ proc'.attempt = 0 /\ proc'.auth = 0
          /\ proc' \in Procs
      BY <1>1, <2>1, IdleProc DEF Procs
    <2>3. TypeOK'
      BY <1>2, <1>3, <2>1, <2>2, TakenCommand
      DEF HandleSetupConnect, SetupHasStation, IInv, TypeOK, status, flags
    <2>. QED
      BY <1>1, <1>3, <1>4, <2>1, <2>2, <2>3, BoundAssumption, TakenCommand
      DEF HandleSetupConnect, SetupHasStation, IInv, StateShape, UsersKeepWifiOn, AttemptBehindState,
          TestOnlyInSetup, OffIsOffTheAir, ResultMatchesState, BootShape, ProcShape, LimitShape,
          staVars, status, flags
  <1>5. CASE state # "SETUP_RUNNING"
    BY <1>1, <1>2, <1>3, <1>5, HandledKeeps
    DEF HandleSetupConnect, SetupHasStation, IInv, TypeOK, StateShape, UsersKeepWifiOn, AttemptBehindState,
        TestOnlyInSetup, OffIsOffTheAir, ResultMatchesState, staVars, status, flags
  <1>. QED
    BY <1>4, <1>5

LEMMA CompleteSetupStep == ASSUME IInv, HandleCompleteSetup PROVE IInv'
  <1>. USE DEF StateShape, UsersKeepWifiOn, AttemptBehindState, TestOnlyInSetup, OffIsOffTheAir,
               ResultMatchesState
  <1>1. /\ TakeCommand /\ Command \in Cmds /\ Command.from = UI
        /\ state # "STOPPED" /\ proc.kind = "none"
        /\ pc' = "tail" /\ UNCHANGED <<proc, users, stopWhenUnused, profiles, ui>>
    BY TakenCommand, CommandTypes DEF HandleCompleteSetup, NeedsSta
  <1>2. CASE state # "SETUP_RUNNING"
    <2>1. Answer(Command, FALSE) /\ UNCHANGED <<staVars, status, connectWanted>>
      BY <1>2 DEF HandleCompleteSetup
    <2>2. StaType' /\ DriverShape'
      BY <2>1 DEF IInv, TypeOK, StaType, DriverShape, staVars
    <2>3. call' \in [Callers -> {"idle", "waiting", "ok", "error"}]
      BY <1>1, <2>1 DEF IInv, TypeOK, Answer, Callers
    <2>. QED
      BY <1>1, <2>1, <2>2, <2>3, HandledKeeps DEF IInv, TypeOK, staVars, status
  <1>3. CASE state = "SETUP_RUNNING" /\ Command.connected
    <2>1. /\ SetResult(TRUE, TRUE) /\ failure' = "none" /\ state' = "CONNECTED"
          /\ Answer(Command, TRUE) /\ UNCHANGED <<staVars, connectWanted>>
      BY <1>3 DEF HandleCompleteSetup
    <2>2. StaType' /\ DriverShape'
      BY <2>1 DEF IInv, TypeOK, StaType, DriverShape, staVars
    <2>3. call' \in [Callers -> {"idle", "waiting", "ok", "error"}]
      BY <1>1, <2>1 DEF IInv, TypeOK, Answer, Callers
    <2>. QED
      BY <1>1, <1>3, <2>1, <2>2, <2>3, HandledKeeps
      DEF IInv, TypeOK, SetResult, States, Trying, Setup, Failures
  <1>4. CASE state = "SETUP_RUNNING" /\ ~Command.connected
    <2>1. PICK ok \in BOOLEAN : CancelSetup(ok)
      BY <1>4 DEF HandleCompleteSetup
    <2>2. /\ StaType' /\ DriverShape' /\ sta'.link = "down" /\ ~sta'.requested
          /\ UNCHANGED result
      BY <1>4, <2>1, StopKeeps DEF HandleCompleteSetup, CancelSetup, TurnOff, IInv, TypeOK
    <2>3. call' \in [Callers -> {"idle", "waiting", "ok", "error"}]
      BY <1>1, <2>1 DEF CancelSetup, IInv, TypeOK, Answer, Callers
    <2>4. CASE users # {}
      BY <1>1, <1>4, <2>1, <2>2, <2>3, <2>4, HandledKeeps
      DEF CancelSetup, TurnOff, IInv, TypeOK, States, Trying, Setup, Failures
    <2>5. CASE users = {}
      BY <1>1, <1>4, <2>1, <2>2, <2>3, <2>5, HandledKeeps
      DEF CancelSetup, TurnOff, IInv, TypeOK, States, Trying, Setup, Failures
    <2>. QED
      BY <2>4, <2>5
  <1>. QED
    BY <1>2, <1>3, <1>4

LEMMA StaEventStep == ASSUME IInv, HandleStaEvent PROVE IInv'
  <1>1. /\ TakeCommand /\ state # "STOPPED" /\ proc.kind = "none"
    BY TakenCommand DEF HandleStaEvent
  <1>2. StaType' /\ DriverShape'
    BY DEF HandleStaEvent, LosesLink, IInv, TypeOK, StaType, DriverShape, staVars
  <1>. QED
    BY <1>1, <1>2, HandledKeeps
    DEF HandleStaEvent, LosesLink, IInv, TypeOK, StateShape, UsersKeepWifiOn, AttemptBehindState,
        TestOnlyInSetup, OffIsOffTheAir, ResultMatchesState, States, Trying, Setup, staVars

LEMMA CheckLinkStep == ASSUME IInv, CheckLink PROVE IInv'
  <1>. USE DEF StaType
  <1>1. TypeOK'
    <2>1. /\ result' \in [configured: BOOLEAN, connected: BOOLEAN]
          /\ connectWanted' \in BOOLEAN /\ state' \in States
      <3>1. /\ result \in [configured: BOOLEAN, connected: BOOLEAN]
            /\ connectWanted \in BOOLEAN /\ state \in States
        BY DEF IInv, TypeOK
      <3>2. CASE IsConnected
        <4>1. /\ result' = [configured |-> TRUE, connected |-> TRUE]
              /\ UNCHANGED <<connectWanted, state>>
          BY <3>2 DEF CheckLink, LinkGone, SetResult
        <4>. QED
          BY <3>1, <4>1
      <3>3. CASE ~IsConnected
        BY <3>1, <3>3 DEF CheckLink, LinkGone, States, Trying
      <3>. QED
        BY <3>2, <3>3
    <2>. QED
      BY <2>1 DEF CheckLink, LinkGone, IInv, TypeOK, staVars
  <1>. QED
    BY <1>1
    DEF CheckLink, LinkGone, SetResult, At, IInv, TypeOK, StateShape, UsersKeepWifiOn, AttemptBehindState,
        TestOnlyInSetup, OffIsOffTheAir, ResultMatchesState, BootShape, ProcShape, LimitShape,
        DriverShape, Trying, staVars

LEMMA StopIfUnusedStep == ASSUME IInv, StopIfUnused PROVE IInv'
  <1>. USE DEF StateShape, UsersKeepWifiOn, AttemptBehindState, TestOnlyInSetup, OffIsOffTheAir,
               ResultMatchesState, BootShape, ProcShape, LimitShape, Trying, Setup
  <1>1. /\ pc = "tail" /\ pc' = "loop" /\ proc.kind = "none"
        /\ UNCHANGED <<queue, deferred, proc, result, users, connectWanted, profiles, call, ui>>
    BY DEF StopIfUnused, MayStop, IsUnused, TurnOff, At, IInv
  <1>2. CASE UNCHANGED <<staVars, failure, state>>
    <2>1. stopWhenUnused' \in BOOLEAN
      BY <1>2 DEF StopIfUnused, MayStop, IsUnused, TurnOff, IInv, TypeOK
    <2>2. StaType' /\ DriverShape'
      BY <1>2 DEF IInv, TypeOK, StaType, DriverShape, staVars
    <2>3. TypeOK'
      BY <1>1, <1>2, <2>1, <2>2 DEF IInv, TypeOK
    <2>. QED
      BY <1>1, <1>2, <2>2, <2>3 DEF IInv, staVars
  <1>3. CASE ~UNCHANGED <<staVars, failure, state>>
    <2>1. /\ stopWhenUnused' = FALSE /\ ~connectWanted
          /\ users = {} /\ state # "OFF" /\ failure' = "none" /\ state' = "OFF"
      BY <1>3 DEF StopIfUnused, MayStop, IsUnused, TurnOff
    <2>2. StaType' /\ DriverShape' /\ sta'.link = "down" /\ ~sta'.requested
      BY <1>3, StopKeeps DEF StopIfUnused, MayStop, IsUnused, TurnOff, IInv, TypeOK
    <2>3. TypeOK'
      BY <1>1, <2>1, <2>2 DEF IInv, TypeOK, States, Failures
    <2>. QED
      BY <1>1, <2>1, <2>2, <2>3 DEF IInv
  <1>. QED
    BY <1>2, <1>3

LEMMA StartAutoConnectStep == ASSUME IInv, StartAutoConnect PROVE IInv'
  <1>1. proc' \in Procs /\ proc'.kind = "auto" /\ proc'.auth = 0
    <2>1. proc' = [Idle EXCEPT !.kind = "auto", !.scans = 1]
      BY DEF StartAutoConnect
    <2>2. 1 \in 0 .. ScanAttempts
      BY BoundAssumption
    <2>. QED
      BY <2>1, <2>2, IdleProc DEF Procs
  <1>2. StaType' /\ DriverShape'
    BY DEF StartAutoConnect, IInv, TypeOK, StaType, DriverShape, staVars
  <1>3. TypeOK'
    BY <1>1, <1>2 DEF StartAutoConnect, IInv, TypeOK, Failures
  <1>. QED
    BY <1>1, <1>2, <1>3
    DEF StartAutoConnect, At, IInv, StateShape, UsersKeepWifiOn, AttemptBehindState,
        TestOnlyInSetup, OffIsOffTheAir, ResultMatchesState, BootShape, ProcShape, LimitShape,
        Trying, staVars

(* The end of an automatic connect, or of one of its passes. *)
LEMMA PassFailedKeeps ==
    ASSUME IInv, proc.kind = "auto", NEW reason \in Failures, PassFailed(reason),
           UNCHANGED <<users, connectWanted, deferred>>
    PROVE  /\ proc' \in Procs /\ pc' \in {"rescan", "tail"}
           /\ state' \in States /\ failure' \in Failures
           /\ result' \in [configured: BOOLEAN, connected: BOOLEAN]
           /\ BootShape' /\ ProcShape' /\ LimitShape' /\ StateShape'
  <1>. USE DEF BootShape, ProcShape, LimitShape, StateShape, UsersKeepWifiOn, AttemptBehindState,
               TestOnlyInSetup, OffIsOffTheAir, ResultMatchesState, Trying
  <1>1. /\ proc \in Procs /\ state \in Trying /\ ~connectWanted /\ failure \in Failures
        /\ result \in [configured: BOOLEAN, connected: BOOLEAN]
    BY DEF IInv, TypeOK
  <1>2. CASE reason = "noAp" /\ proc.scans < ScanAttempts
    <2>1. /\ pc' = "rescan" /\ UNCHANGED <<state, failure, result>>
          /\ proc' = [Idle EXCEPT !.kind = "auto", !.scans = proc.scans]
      BY <1>2 DEF PassFailed
    <2>2. proc' \in Procs /\ proc'.kind = "auto" /\ proc'.auth = 0 /\ proc'.scans < ScanAttempts
      BY <1>1, <1>2, <2>1, IdleProc DEF Procs
    <2>. QED
      BY <1>1, <2>1, <2>2 DEF IInv, States
  <1>3. CASE ~(reason = "noAp" /\ proc.scans < ScanAttempts)
    <2>1. /\ pc' = "tail" /\ proc' = Idle /\ failure' = reason /\ state' = "FAILED"
          /\ result' = [configured |-> Configured, connected |-> FALSE]
      BY <1>3 DEF PassFailed, EndProc, SetResult
    <2>2. Configured \in BOOLEAN
      BY DEF Configured
    <2>. QED
      BY <1>1, <2>1, <2>2, IdleProc DEF IInv, States
  <1>. QED
    BY <1>2, <1>3

LEMMA NextCandidateKeeps ==
    ASSUME IInv, proc.kind = "auto", NEW candidates \in [Networks -> 0 .. MaxProfiles],
           NEW reason \in Failures, NextCandidate(candidates, reason),
           UNCHANGED <<users, connectWanted, deferred>>
    PROVE  /\ proc' \in Procs /\ pc' \in {"rescan", "tail", "attempt"}
           /\ state' \in States /\ failure' \in Failures
           /\ result' \in [configured: BOOLEAN, connected: BOOLEAN]
           /\ BootShape' /\ ProcShape' /\ LimitShape' /\ StateShape'
  <1>1. CASE PassFailed(reason)
    BY <1>1, PassFailedKeeps
  <1>2. ASSUME NEW net \in Networks, pc' = "attempt",
               proc' = [proc EXCEPT !.net = net, !.rest = [candidates EXCEPT ![net] = 0],
                                    !.attempt = 0, !.reason = "none"],
               UNCHANGED <<state, failure, result>>
        PROVE  /\ proc' \in Procs /\ pc' \in {"rescan", "tail", "attempt"}
               /\ state' \in States /\ failure' \in Failures
               /\ result' \in [configured: BOOLEAN, connected: BOOLEAN]
               /\ BootShape' /\ ProcShape' /\ LimitShape' /\ StateShape'
    <2>1. /\ proc \in Procs /\ state \in States /\ state \in Trying /\ ~connectWanted
          /\ proc.auth = 0 /\ failure \in Failures
          /\ result \in [configured: BOOLEAN, connected: BOOLEAN]
      BY DEF IInv, TypeOK, ProcShape, StateShape, AttemptBehindState
    <2>2. proc' \in Procs /\ proc'.kind = "auto" /\ proc'.attempt = 0 /\ proc'.auth = 0
      <3>1. [candidates EXCEPT ![net] = 0] \in [Networks -> 0 .. MaxProfiles]
        BY BoundAssumption
      <3>2. 0 \in 0 .. MaxAttempts /\ "none" \in Failures
        BY BoundAssumption DEF Failures
      <3>. DEFINE rest == [candidates EXCEPT ![net] = 0]
      <3>. HIDE DEF rest
      <3>3. proc' = [proc EXCEPT !.net = net, !.rest = rest, !.attempt = 0, !.reason = "none"]
        BY <1>2 DEF rest
      <3>4. rest \in [Networks -> 0 .. MaxProfiles]
        BY <3>1 DEF rest
      <3>. QED
        BY <2>1, <3>2, <3>3, <3>4 DEF Procs
    <2>. QED
      BY <1>2, <2>1, <2>2, BoundAssumption
      DEF IInv, BootShape, ProcShape, LimitShape, StateShape, UsersKeepWifiOn, AttemptBehindState,
          TestOnlyInSetup, OffIsOffTheAir, ResultMatchesState, Trying
  <1>. QED
    BY <1>1, <1>2 DEF NextCandidate

(* An attempt that fails stays within its limits, or the network is given up. *)
LEMMA AttemptFailedKeeps ==
    ASSUME IInv, pc \in {"start", "wait"}, NEW reason \in Failures, AttemptFailed(reason)
    PROVE  /\ proc' \in Procs /\ proc'.kind = proc.kind
           /\ proc.kind = "auto" => proc'.auth = proc.auth
           /\ pc' \in {"giveUp", "attempt"}
           /\ pc' = "attempt" => proc'.attempt < MaxAttempts /\ proc'.auth < AuthLimit
  <1>1. proc \in Procs /\ proc.attempt < MaxAttempts /\ proc.auth < AuthLimit
    BY DEF IInv, TypeOK, LimitShape
  <1>. DEFINE auth == IF reason = "auth" /\ proc.kind = "test" THEN proc.auth + 1 ELSE proc.auth
  <1>2. /\ proc' = [proc EXCEPT !.reason = reason, !.attempt = @ + 1, !.auth = auth]
        /\ pc' = IF proc.attempt + 1 = MaxAttempts \/ auth = AuthLimit THEN "giveUp" ELSE "attempt"
    BY DEF AttemptFailed
  <1>3. /\ auth \in 0 .. AuthLimit /\ proc.attempt + 1 \in 0 .. MaxAttempts
        /\ proc.kind = "auto" => auth = proc.auth
    BY <1>1, BoundAssumption DEF Procs
  <1>4. /\ auth # AuthLimit => auth < AuthLimit
        /\ proc.attempt + 1 # MaxAttempts => proc.attempt + 1 < MaxAttempts
    BY <1>3, BoundAssumption
  <1>5. /\ proc' \in Procs /\ proc'.kind = proc.kind
        /\ proc'.auth = auth /\ proc'.attempt = proc.attempt + 1
    BY <1>1, <1>2, <1>3 DEF Procs
  <1>. HIDE DEF auth
  <1>. QED
    BY <1>2, <1>3, <1>4, <1>5

LEMMA CollectNoneStep == ASSUME IInv, CollectNone PROVE IInv'
  <1>1. proc.kind = "auto" /\ "noProfile" \in Failures
    BY DEF CollectNone, At, IInv, ProcShape, Failures
  <1>2. /\ PassFailed("noProfile")
        /\ UNCHANGED <<staVars, queue, deferred, users, flags, profiles, call, ui>>
    BY DEF CollectNone
  <1>3. StaType' /\ DriverShape'
    BY <1>2 DEF IInv, TypeOK, StaType, DriverShape, staVars
  <1>. QED
    BY <1>1, <1>2, <1>3, PassFailedKeeps DEF IInv, TypeOK, flags

LEMMA CollectStep == ASSUME IInv, Collect PROVE IInv'
  <1>1. /\ proc.kind = "auto" /\ {"timeout", "noAp"} \subseteq Failures
        /\ UNCHANGED <<queue, deferred, users, flags, profiles, call, ui>>
    BY DEF Collect, At, IInv, ProcShape, Failures
  <1>2. StaType' /\ DriverShape'
    BY ScanModeKeeps DEF Collect, IInv, TypeOK
  <1>3. CASE PassFailed("timeout")
    BY <1>1, <1>2, <1>3, PassFailedKeeps DEF IInv, TypeOK, flags
  <1>4. ASSUME NEW visible \in SUBSET Networks,
               NextCandidate([n \in Networks |-> IF n \in visible THEN profiles[n] ELSE 0], "noAp")
        PROVE  IInv'
    <2>1. [n \in Networks |-> IF n \in visible THEN profiles[n] ELSE 0]
            \in [Networks -> 0 .. MaxProfiles]
      BY BoundAssumption DEF IInv, TypeOK
    <2>. QED
      BY <1>1, <1>2, <1>4, <2>1, NextCandidateKeeps DEF IInv, TypeOK, flags
  <1>. QED
    BY <1>3, <1>4 DEF Collect

LEMMA BeginAttemptStep == ASSUME IInv, BeginAttempt PROVE IInv'
  <1>1. StaType' /\ DriverShape' /\ sta'.link = "down" /\ ~sta'.requested
    BY StopKeeps DEF BeginAttempt, IInv, TypeOK
  <1>. QED
    BY <1>1
    DEF BeginAttempt, At, IInv, TypeOK, StateShape, UsersKeepWifiOn, AttemptBehindState,
        TestOnlyInSetup, OffIsOffTheAir, ResultMatchesState, BootShape, ProcShape, LimitShape,
        status, flags

LEMMA DelayStep == ASSUME IInv, DelayOver \/ RescanDelayOver PROVE IInv'
  <1>1. StaType' /\ DriverShape'
    BY DEF DelayOver, RescanDelayOver, IInv, TypeOK, StaType, DriverShape, staVars
  <1>2. CASE DelayOver
    BY <1>1, <1>2
    DEF DelayOver, At, IInv, TypeOK, StateShape, UsersKeepWifiOn, AttemptBehindState,
        TestOnlyInSetup, OffIsOffTheAir, ResultMatchesState, BootShape, ProcShape, LimitShape,
        staVars, status, flags
  <1>3. CASE RescanDelayOver
    <2>1. /\ proc' = [proc EXCEPT !.scans = @ + 1] /\ pc = "rescan" /\ pc' = "collect"
          /\ proc \in Procs /\ proc.scans < ScanAttempts
      BY <1>3 DEF RescanDelayOver, At, IInv, TypeOK, LimitShape
    <2>2. proc.scans + 1 \in 0 .. ScanAttempts
      BY <2>1, BoundAssumption DEF Procs
    <2>3. proc' \in Procs /\ proc'.kind = proc.kind /\ proc'.auth = proc.auth
      BY <2>1, <2>2 DEF Procs
    <2>. QED
      BY <1>1, <1>3, <2>1, <2>3
      DEF RescanDelayOver, IInv, TypeOK, StateShape, UsersKeepWifiOn, AttemptBehindState,
          TestOnlyInSetup, OffIsOffTheAir, ResultMatchesState, BootShape, ProcShape, LimitShape,
          staVars, status, flags
  <1>. QED
    BY <1>2, <1>3

LEMMA StartAttemptStep == ASSUME IInv, StartAttempt PROVE IInv'
  <1>1. PICK start \in StartResults :
           /\ InitAndStart(proc.net, start)
           /\ IF start = "ok" THEN pc' = "wait" /\ UNCHANGED proc ELSE AttemptFailed("connect")
    BY DEF StartAttempt
  <1>2. /\ pc = "start" /\ proc.kind \in {"auto", "test"} /\ proc \in Procs
        /\ UNCHANGED <<queue, deferred, status, users, flags, profiles, call, ui>>
        /\ "connect" \in Failures /\ state \notin {"OFF", "STOPPED"}
    BY DEF StartAttempt, At, IInv, TypeOK, ProcShape, BootShape, StateShape, AttemptBehindState,
           TestOnlyInSetup, Failures, Trying, Procs
  <1>3. StaType' /\ DriverShape'
    BY <1>1, <1>2, InitAndStartKeeps DEF IInv, TypeOK, Procs
  <1>4. /\ proc' \in Procs /\ proc'.kind = proc.kind
        /\ proc.kind = "auto" => proc'.auth = proc.auth
        /\ pc' \in {"wait", "giveUp", "attempt"}
        /\ pc' # "giveUp" => proc'.attempt < MaxAttempts /\ proc'.auth < AuthLimit
    BY <1>1, <1>2, AttemptFailedKeeps DEF IInv, LimitShape
  <1>. QED
    BY <1>2, <1>3, <1>4
    DEF IInv, TypeOK, StateShape, UsersKeepWifiOn, AttemptBehindState, TestOnlyInSetup,
        OffIsOffTheAir, ResultMatchesState, BootShape, ProcShape, LimitShape, status, flags

LEMMA GiveUpStep == ASSUME IInv, GiveUp PROVE IInv'
  <1>1. /\ pc = "giveUp" /\ proc.kind \in {"auto", "test"} /\ proc \in Procs
        /\ UNCHANGED <<queue, deferred, users, flags, profiles, ui>>
    BY DEF GiveUp, At, IInv, TypeOK, ProcShape, Procs
  <1>2. StaType' /\ DriverShape'
    BY StopKeeps DEF GiveUp, IInv, TypeOK
  <1>3. CASE proc.kind = "test"
    <2>1. /\ pc' = "tail" /\ proc' = Idle /\ UNCHANGED <<state, failure, result>>
          /\ state = "SETUP_RUNNING"
      BY <1>3 DEF GiveUp, EndProc, IInv, StateShape, TestOnlyInSetup
    <2>2. call' \in [Callers -> {"idle", "waiting", "ok", "error"}]
      BY <1>3 DEF GiveUp, Answer, IInv, TypeOK
    <2>. QED
      BY <1>1, <1>2, <1>3, <2>1, <2>2, IdleProc
      DEF IInv, TypeOK, StateShape, UsersKeepWifiOn, AttemptBehindState, TestOnlyInSetup,
          OffIsOffTheAir, ResultMatchesState, BootShape, ProcShape, LimitShape, flags
  <1>4. CASE proc.kind = "auto"
    <2>1. /\ NextCandidate(proc.rest, proc.reason) /\ UNCHANGED call
          /\ proc.rest \in [Networks -> 0 .. MaxProfiles] /\ proc.reason \in Failures
      BY <1>1, <1>4 DEF GiveUp, Procs
    <2>. QED
      BY <1>1, <1>2, <1>4, <2>1, NextCandidateKeeps DEF IInv, TypeOK, flags
  <1>. QED
    BY <1>1, <1>3, <1>4

(* The end of a wait: connected, or failed for `reason`. *)
LEMMA AttemptConnectedKeeps ==
    ASSUME IInv, pc = "wait", AttemptConnected,
           UNCHANGED <<staVars, deferred, users, flags, ui>>,
           queue' \in Seq(Cmds), Len(queue') <= QueueLength
    PROVE  IInv'
  <1>1. PICK saved \in BOOLEAN :
      /\ profiles' = IF saved THEN Remember(profiles, proc.net) ELSE profiles
      /\ IF proc.kind = "test"
         THEN /\ EndProc
              /\ Answer([from |-> UI], saved)
              /\ UNCHANGED <<state, failure, result>>
         ELSE /\ IF saved
                 THEN /\ EndProc
                      /\ SetResult(TRUE, TRUE) /\ failure' = "none" /\ state' = "CONNECTED"
                 ELSE NextCandidate(proc.rest, proc.reason)
              /\ UNCHANGED call
    BY DEF AttemptConnected
  <1>2. profiles' \in [Networks -> 0 .. MaxProfiles]
    BY <1>1, BoundAssumption DEF IInv, TypeOK, Remember, AsNewest
  <1>3. StaType' /\ DriverShape'
    BY DEF IInv, TypeOK, StaType, DriverShape, staVars
  <1>4. proc.kind \in {"auto", "test"} /\ proc \in Procs
    BY DEF IInv, TypeOK, ProcShape, Procs
  <1>5. CASE proc.kind = "test"
    <2>1. /\ pc' = "tail" /\ proc' = Idle /\ UNCHANGED <<state, failure, result>>
          /\ state = "SETUP_RUNNING"
      BY <1>1, <1>5 DEF EndProc, IInv, StateShape, TestOnlyInSetup
    <2>2. call' \in [Callers -> {"idle", "waiting", "ok", "error"}]
      BY <1>1, <1>5 DEF Answer, IInv, TypeOK
    <2>. QED
      BY <1>2, <1>3, <1>5, <2>1, <2>2, IdleProc
      DEF IInv, TypeOK, StateShape, UsersKeepWifiOn, AttemptBehindState, TestOnlyInSetup,
          OffIsOffTheAir, ResultMatchesState, BootShape, ProcShape, LimitShape, flags
  <1>6. CASE proc.kind = "auto" /\ saved
    <2>1. /\ pc' = "tail" /\ proc' = Idle /\ failure' = "none" /\ state' = "CONNECTED"
          /\ result' = [configured |-> TRUE, connected |-> TRUE] /\ UNCHANGED call
      BY <1>1, <1>6 DEF EndProc, SetResult
    <2>2. TypeOK'
      BY <1>2, <1>3, <2>1, IdleProc DEF IInv, TypeOK, States, Failures, flags
    <2>. QED
      BY <1>3, <1>6, <2>1, <2>2, IdleProc
      DEF IInv, TypeOK, StateShape, UsersKeepWifiOn, AttemptBehindState, TestOnlyInSetup,
          OffIsOffTheAir, ResultMatchesState, BootShape, ProcShape, LimitShape, Trying, flags
  <1>7. CASE proc.kind = "auto" /\ ~saved
    <2>1. /\ NextCandidate(proc.rest, proc.reason) /\ UNCHANGED call
          /\ proc.rest \in [Networks -> 0 .. MaxProfiles] /\ proc.reason \in Failures
      BY <1>1, <1>4, <1>7 DEF Procs
    <2>. QED
      BY <1>2, <1>3, <1>7, <2>1, NextCandidateKeeps DEF IInv, TypeOK, flags
  <1>. QED
    BY <1>4, <1>5, <1>6, <1>7

LEMMA WaitFailedKeeps ==
    ASSUME IInv, pc = "wait", NEW reason \in Failures, AttemptFailed(reason),
           UNCHANGED <<staVars, deferred, users, flags, ui, profiles, status, call>>,
           queue' \in Seq(Cmds), Len(queue') <= QueueLength
    PROVE  IInv'
  <1>1. StaType' /\ DriverShape'
    BY DEF IInv, TypeOK, StaType, DriverShape, staVars
  <1>. QED
    BY <1>1, AttemptFailedKeeps
    DEF IInv, TypeOK, StateShape, UsersKeepWifiOn, AttemptBehindState, TestOnlyInSetup,
        OffIsOffTheAir, ResultMatchesState, BootShape, ProcShape, LimitShape, staVars, status, flags

LEMMA AttemptEndStep == ASSUME IInv, AttemptEvent \/ AttemptTimeout PROVE IInv'
  <1>1. /\ queue' \in Seq(Cmds) /\ Len(queue') <= QueueLength
        /\ pc = "wait" /\ UNCHANGED <<staVars, deferred, users, flags, ui>>
    BY Received DEF IInv, TypeOK, AttemptEvent, AttemptTimeout, At
  <1>2. AttemptConnected
           \/ \E reason \in Failures : AttemptFailed(reason) /\ UNCHANGED <<profiles, status, call>>
    <2>1. CASE AttemptTimeout
      BY <2>1 DEF AttemptTimeout, Failures, status
    <2>2. CASE AttemptEvent
      <3>1. Head(queue).reason \in Failures
        BY <2>2, Received, CommandTypes DEF AttemptEvent, IInv
      <3>. QED
        BY <2>2, <3>1 DEF AttemptEvent, status
    <2>. QED
      BY <2>1, <2>2
  <1>. QED
    BY <1>1, <1>2, AttemptConnectedKeeps, WaitFailedKeeps

LEMMA WaitStep == ASSUME IInv, WaitQuick \/ WaitDropsEvent \/ Interrupted PROVE IInv'
  <1>1. /\ pc \in {"delay", "rescan", "wait"} /\ pc # "boot" /\ proc.kind \in {"auto", "test"}
        /\ Head(queue) \in Cmds /\ queue' \in Seq(Cmds) /\ Len(queue') <= QueueLength
    BY Received DEF WaitQuick, WaitDropsEvent, Interrupted, Defer, Waiting, IInv, TypeOK, ProcShape, Procs
  <1>2. StaType' /\ DriverShape'
    BY DEF WaitQuick, WaitDropsEvent, Interrupted, Defer, HandleQuick, IInv, TypeOK, StaType, DriverShape,
           staVars
  <1>3. CASE WaitQuick
    BY <1>1, <1>2, <1>3, QuickKeeps
    DEF WaitQuick, HandleQuick, IInv, TypeOK, BootShape, ProcShape, LimitShape
  <1>4. CASE WaitDropsEvent
    BY <1>1, <1>2, <1>4
    DEF WaitDropsEvent, IInv, TypeOK, StateShape, UsersKeepWifiOn, AttemptBehindState,
        TestOnlyInSetup, OffIsOffTheAir, ResultMatchesState, BootShape, ProcShape, LimitShape,
        staVars, status, flags
  <1>5. CASE Interrupted
    <2>1. /\ deferred' \in StaCmds /\ pc' = "tail" /\ proc' = Idle
          /\ UNCHANGED <<staVars, status, users, stopWhenUnused, profiles, ui>>
          /\ proc.kind = "auto" => connectWanted' = TRUE /\ call' = call
          /\ proc.kind = "test" => UNCHANGED connectWanted /\ state = "SETUP_RUNNING"
      BY <1>1, <1>5, CommandTypes
      DEF Interrupted, Defer, Abandon, Waiting, EndProc, IInv, StateShape, TestOnlyInSetup
    <2>2. call' \in [Callers -> {"idle", "waiting", "ok", "error"}]
      BY <1>5 DEF Interrupted, Defer, Abandon, Answer, IInv, TypeOK
    <2>3. TypeOK'
      BY <1>1, <1>2, <2>1, <2>2, IdleProc DEF IInv, TypeOK, status
    <2>. QED
      BY <1>1, <1>2, <2>1, <2>3, IdleProc
      DEF IInv, StateShape, UsersKeepWifiOn, AttemptBehindState, TestOnlyInSetup,
          OffIsOffTheAir, ResultMatchesState, BootShape, ProcShape, LimitShape, Trying,
          staVars, status
  <1>. QED
    BY <1>3, <1>4, <1>5

-----------------------------------------------------------------------------
LEMMA InitIInv == Init => IInv
  <1>. SUFFICES ASSUME Init PROVE IInv
    OBVIOUS
  <1>1. StaType
    BY EmptySeq DEF Init, StaInit, StaType
  <1>2. TypeOK
    <2>1. queue \in Seq(Cmds) /\ Len(queue) <= QueueLength
      BY EmptySeq, BoundAssumption DEF Init
    <2>2. profiles \in [Networks -> 0 .. MaxProfiles]
      BY SavedAssumption DEF Init
    <2>3. result \in [configured: BOOLEAN, connected: BOOLEAN]
      BY DEF Init
    <2>4. call \in [Callers -> {"idle", "waiting", "ok", "error"}]
      BY DEF Init
    <2>5. ui \in [stage: Stages, active: BOOLEAN]
      BY DEF Init, Stages
    <2>. QED
      BY <1>1, <2>1, <2>2, <2>3, <2>4, <2>5, IdleProc DEF Init, TypeOK, States, Failures
  <1>. QED
    BY <1>2, IdleProc
    DEF Init, StaInit, IInv, StateShape, UsersKeepWifiOn, AttemptBehindState, TestOnlyInSetup,
        OffIsOffTheAir, ResultMatchesState, BootShape, ProcShape, LimitShape, DriverShape, Trying

LEMMA NextIInv == IInv /\ [Next]_vars => IInv'
  <1>. SUFFICES ASSUME IInv, [Next]_vars PROVE IInv'
    OBVIOUS
  <1>1. CASE UNCHANGED vars
    BY <1>1
    DEF vars, staVars, status, flags, IInv, TypeOK, StaType, StateShape, UsersKeepWifiOn,
        AttemptBehindState, TestOnlyInSetup, OffIsOffTheAir, ResultMatchesState, BootShape,
        ProcShape, LimitShape, DriverShape
  <1>2. CASE ManagerSteps
    BY <1>2, BootStep, LoopQuickStep, BeginSetupStep, SetupScanStep, SetupConnectStep,
       CompleteSetupStep, StaEventStep, StopIfUnusedStep, StartAutoConnectStep, CollectNoneStep,
       CollectStep, BeginAttemptStep, StartAttemptStep, GiveUpStep, AttemptEndStep, WaitStep
    DEF ManagerSteps, Handle
  <1>3. CASE Timeouts
    BY <1>3, CheckLinkStep, DelayStep, AttemptEndStep DEF Timeouts
  <1>. QED
    BY <1>1, <1>2, <1>3, UserStep, UiStep, DriverStep DEF Next

-----------------------------------------------------------------------------
LEMMA Invariance == Spec => []IInv
  BY InitIInv, NextIInv, PTL DEF Spec

(* Every variable keeps its type; in particular the queue never exceeds its    *)
(* length, and no attempt, scan or authentication counter its limit.          *)
THEOREM TypeCorrect == Spec => []TypeOK
  <1>1. IInv => TypeOK
    BY DEF IInv
  <1>. QED
    BY <1>1, Invariance, PTL

(* A task that holds Wi-Fi never finds it off.                                 *)
THEOREM UsersAreServed == Spec => []UsersKeepWifiOn
  <1>1. IInv => UsersKeepWifiOn
    BY DEF IInv, StateShape
  <1>. QED
    BY <1>1, Invariance, PTL

(* A state that says "being tried" always has an attempt behind it, and no     *)
(* other state has one: wifi_connection_manager never strands its users, and   *)
(* never connects automatically under setup.                                   *)
THEOREM NoStrandedState == Spec => []AttemptBehindState
  <1>1. IInv => AttemptBehindState
    BY DEF IInv, StateShape
  <1>. QED
    BY <1>1, Invariance, PTL

(* The published state has something behind it: the users keep Wi-Fi on, and   *)
(* an attempt is behind CONNECTING and RECONNECTING.                           *)
THEOREM StateStaysBacked == Spec => []StateIsBacked
  <1>1. UsersKeepWifiOn /\ AttemptBehindState => StateIsBacked
    BY DEF StateIsBacked
  <1>. QED
    BY <1>1, UsersAreServed, NoStrandedState, PTL

(* The connection test of setup runs only while setup has the station.         *)
THEOREM TestsBelongToSetup == Spec => []TestOnlyInSetup
  <1>1. IInv => TestOnlyInSetup
    BY DEF IInv, StateShape
  <1>. QED
    BY <1>1, Invariance, PTL

(* Off is off the air, although esp_wifi_stop() may fail.                      *)
THEOREM OffIsSilent == Spec => []OffIsOffTheAir
  <1>1. IInv => OffIsOffTheAir
    BY DEF IInv, StateShape
  <1>. QED
    BY <1>1, Invariance, PTL

(* What the LED was told agrees with the published state.                      *)
THEOREM ResultAgrees == Spec => []ResultMatchesState
  <1>1. IInv => ResultMatchesState
    BY DEF IInv, StateShape
  <1>. QED
    BY <1>1, Invariance, PTL

-----------------------------------------------------------------------------
(* The manager implements WifiService. *)

LEMMA QuickRefines ==
    ASSUME IInv, NEW cmd \in Cmds, HandleQuick(cmd), pc # "boot"
    PROVE  Service!ServiceNext \/ UNCHANGED <<state, users>>
  <1>. USE DEF Service!ServiceNext, CanStart
  <1>1. state # "STOPPED"
    BY DEF IInv, BootShape
  <1>2. CASE AcquireEffect(cmd)
    <2>1. cmd.from \in Users
      BY <1>2, CommandTypes DEF AcquireEffect
    <2>2. Service!Acquire(cmd.from)
      BY <1>1, <1>2 DEF AcquireEffect, Service!Acquire
    <2>. QED
      BY <2>1, <2>2
  <1>3. CASE ReleaseEffect(cmd)
    <2>1. cmd.from \in Users
      BY <1>3, CommandTypes DEF ReleaseEffect, IsQuick, NeedsSta, IsEvent, Cmds, QuickCmds,
                                StaCmds, StaEvents
    <2>2. CASE cmd.from \in users
      BY <1>3, <2>1, <2>2 DEF ReleaseEffect, Service!Release
    <2>3. CASE cmd.from \notin users
      BY <1>3, <2>3 DEF ReleaseEffect
    <2>. QED
      BY <2>1, <2>2, <2>3
  <1>4. CASE RetryEffect(cmd)
    BY <1>4 DEF RetryEffect, Service!Retry
  <1>. QED
    BY <1>2, <1>3, <1>4 DEF HandleQuick

LEMMA EndOfPassRefines ==
    ASSUME IInv, proc.kind = "auto", UNCHANGED users,
           NEW candidates, NEW reason,
           NextCandidate(candidates, reason) \/ PassFailed(reason)
    PROVE  Service!ServiceNext \/ UNCHANGED <<state, users>>
  <1>1. state \in Service!Trying
    BY DEF IInv, StateShape, AttemptBehindState, Trying, Service!Trying
  <1>2. UNCHANGED state \/ state' = "FAILED"
    BY DEF NextCandidate, PassFailed
  <1>. QED
    BY <1>1, <1>2 DEF Service!ServiceNext, Service!Resolve

LEMMA AttemptEndRefines ==
    ASSUME IInv, AttemptEvent \/ AttemptTimeout
    PROVE  Service!ServiceNext \/ UNCHANGED <<state, users>>
  <1>1. pc = "wait" /\ UNCHANGED users /\ proc.kind \in {"auto", "test"}
    BY DEF AttemptEvent, AttemptTimeout, At, IInv, TypeOK, ProcShape, Procs
  <1>2. AttemptConnected \/ UNCHANGED state
    BY DEF AttemptEvent, AttemptTimeout
  <1>3. CASE AttemptConnected /\ proc.kind = "auto"
    <2>1. state \in Service!Trying
      BY <1>3 DEF IInv, StateShape, AttemptBehindState, Trying, Service!Trying
    <2>2. state' = "CONNECTED" \/ NextCandidate(proc.rest, proc.reason)
      BY <1>3 DEF AttemptConnected
    <2>. QED
      BY <1>1, <1>3, <2>1, <2>2, EndOfPassRefines DEF Service!ServiceNext, Service!Resolve
  <1>4. CASE AttemptConnected /\ proc.kind = "test"
    BY <1>1, <1>4 DEF AttemptConnected
  <1>. QED
    BY <1>1, <1>2, <1>3, <1>4

LEMMA StepRefines ==
    ASSUME IInv, [Next]_vars
    PROVE  Service!ServiceNext \/ UNCHANGED <<state, users>>
  <1>. USE DEF Service!ServiceNext
  <1>1. CASE UNCHANGED vars
    BY <1>1 DEF vars, status
  <1>2. CASE UserNext
    BY <1>2 DEF UserNext, UserAcquire, UserRelease, Request, status
  <1>3. CASE UiNext
    BY <1>3 DEF UiNext, UiEnter, UiReenter, UiScan, UiConnect, UiComplete, UiLeave,
                UiLeaveSilently, UiRetry, UiReturn, UiForget, UiPrefer, Request, status
  <1>4. CASE HandleEvent \/ Network
    BY <1>4 DEF HandleEvent, Network, status
  <1>5. CASE Boot
    BY <1>5 DEF Boot, At, IInv, BootShape, Service!Start
  <1>6. CASE LoopQuick
    BY <1>6, TakenCommand, QuickRefines DEF LoopQuick
  <1>7. CASE HandleBeginSetup
    BY <1>7, TakenCommand DEF HandleBeginSetup, Service!BeginSetup, status
  <1>8. CASE HandleSetupScan \/ HandleSetupConnect
    BY <1>8 DEF HandleSetupScan, SetupHasStation, HandleSetupConnect, status
  <1>9. CASE HandleCompleteSetup
    <2>1. UNCHANGED users
      BY <1>9 DEF HandleCompleteSetup
    <2>2. CASE state # "SETUP_RUNNING"
      BY <1>9, <2>1, <2>2 DEF HandleCompleteSetup, status
    <2>3. CASE state = "SETUP_RUNNING" /\ Command.connected
      BY <1>9, <2>1, <2>3 DEF HandleCompleteSetup, CancelSetup, TurnOff, Service!EndSetup
    <2>4. CASE state = "SETUP_RUNNING" /\ ~Command.connected
      BY <1>9, <2>1, <2>4 DEF HandleCompleteSetup, CancelSetup, TurnOff, Service!EndSetup
    <2>. QED
      BY <2>2, <2>3, <2>4
  <1>10. CASE HandleStaEvent \/ CheckLink
    BY <1>10 DEF HandleStaEvent, LosesLink, CheckLink, LinkGone, Service!LinkLost
  <1>11. CASE StopIfUnused
    <2>1. CASE UNCHANGED state
      BY <1>11, <2>1 DEF StopIfUnused, MayStop, IsUnused, TurnOff
    <2>2. CASE ~UNCHANGED state
      <3>1. /\ users = {} /\ UNCHANGED users /\ state' = "OFF" /\ ~connectWanted /\ pc = "tail"
            /\ state \notin {"OFF", "SETUP_REQUIRED", "SETUP_RUNNING"}
        BY <1>11, <2>2 DEF StopIfUnused, MayStop, IsUnused, TurnOff, At, Setup
      <3>2. state \in {"CONNECTED", "FAILED"}
        BY <3>1 DEF IInv, TypeOK, States, Trying, Setup, BootShape, ProcShape, StateShape,
                    AttemptBehindState
      <3>. QED
        BY <3>1, <3>2 DEF Service!TurnOff
    <2>. QED
      BY <2>1, <2>2
  <1>12. CASE StartAutoConnect \/ BeginAttempt \/ DelayOver \/ RescanDelayOver \/ StartAttempt
    BY <1>12 DEF StartAutoConnect, BeginAttempt, DelayOver, RescanDelayOver, StartAttempt, status
  <1>13. CASE CollectNone \/ Collect
    <2>1. proc.kind = "auto" /\ UNCHANGED users
      BY <1>13 DEF CollectNone, Collect, At, IInv, ProcShape
    <2>2. \E reason : PassFailed(reason) \/ \E candidates : NextCandidate(candidates, reason)
      BY <1>13 DEF CollectNone, Collect
    <2>. QED
      BY <2>1, <2>2, EndOfPassRefines
  <1>14. CASE GiveUp
    <2>1. pc = "giveUp" /\ UNCHANGED users /\ proc.kind \in {"auto", "test"}
      BY <1>14 DEF GiveUp, At, IInv, TypeOK, ProcShape, Procs
    <2>2. UNCHANGED state \/ (proc.kind = "auto" /\ NextCandidate(proc.rest, proc.reason))
      BY <1>14, <2>1 DEF GiveUp
    <2>. QED
      BY <2>1, <2>2, EndOfPassRefines
  <1>15. CASE AttemptEvent \/ AttemptTimeout
    BY <1>15, AttemptEndRefines
  <1>16. CASE WaitQuick
    BY <1>16, QuickRefines, Received DEF WaitQuick, Waiting, IInv
  <1>17. CASE WaitDropsEvent \/ Interrupted
    BY <1>17 DEF WaitDropsEvent, Interrupted, Abandon, status
  <1>. QED
    BY <1>1, <1>2, <1>3, <1>4, <1>5, <1>6, <1>7, <1>8, <1>9, <1>10, <1>11, <1>12, <1>13, <1>14,
       <1>15, <1>16, <1>17
    DEF Next, ManagerSteps, Handle, Timeouts

(* Whatever the queue, the driver and the retries do, users of Wi-Fi see only  *)
(* the steps of the service.                                                   *)
THEOREM ManagerImplementsService == Spec => ImplementsService
  <1>1. Init => Service!ServiceInit
    BY DEF Init, Service!ServiceInit
  <1>2. IInv /\ [Next]_vars => [Service!ServiceNext]_(Service!serviceVars)
    BY StepRefines DEF Service!serviceVars
  <1>. QED
    BY <1>1, <1>2, Invariance, PTL DEF Spec, ImplementsService

(* Once acquire is answered, the OFF or FAILED of an earlier time is gone: of   *)
(* the service's steps, only Acquire adds a user.                              *)
THEOREM AcquireIsFresh == Spec => AcquireShowsNoStaleFailure
  <1>. DEFINE Fresh == \A u \in Users : u \in users' \ users => state' \notin {"OFF", "FAILED"}
  <1>1. ASSUME NEW u \in Users, Service!Acquire(u) PROVE Fresh
    BY <1>1 DEF Service!Acquire
  <1>2. ASSUME Service!ServiceNext \/ UNCHANGED <<state, users>> PROVE Fresh
    BY <1>1, <1>2
    DEF Service!ServiceNext, Service!Start, Service!Release, Service!Retry, Service!Resolve,
        Service!LinkLost, Service!TurnOff, Service!BeginSetup, Service!EndSetup
  <1>3. IInv /\ [Next]_vars => [Fresh]_vars
    BY <1>2, StepRefines
  <1>. HIDE DEF Fresh
  <1>4. Spec => [][Fresh]_vars
    BY <1>3, Invariance, PTL DEF Spec
  <1>. QED
    BY <1>4 DEF Fresh, AcquireShowsNoStaleFailure

-----------------------------------------------------------------------------
(* One answer per request.  What a caller asks is in the queue, deferred, or  *)
(* the test that runs; the proof keeps that account over every step.          *)

(* The requests of a caller in a queue. *)
Asked(s, c) == {i \in DOMAIN s : ~IsEvent(s[i]) /\ s[i].from = c}

IsFrom(cmd, c) == IF ~IsEvent(cmd) /\ cmd.from = c THEN 1 ELSE 0

InQueue(c)  == Cardinality(Asked(queue, c))
Deferred(c) == IF deferred # NoCmd /\ deferred.from = c THEN 1 ELSE 0
Tested(c)   == IF proc.kind = "test" /\ c = UI THEN 1 ELSE 0
Waits(c)    == IF call[c] = "waiting" THEN 1 ELSE 0

(* A request is deferred only to be taken next: at the loop, or on the way to it. *)
DeferShape == pc \notin {"loop", "tail"} => deferred = NoCmd

(* The account: what is asked is what is waited for. *)
Account == \A c \in Callers : InQueue(c) + Deferred(c) + Tested(c) = Waits(c)

LEMMA AskedType ==
    ASSUME NEW s \in Seq(Cmds), NEW c
    PROVE  IsFiniteSet(Asked(s, c)) /\ Cardinality(Asked(s, c)) \in Nat
  <1>1. Len(s) \in Nat /\ DOMAIN s = 1 .. Len(s)
    BY LenProperties
  <1>2. IsFiniteSet(1 .. Len(s)) /\ Asked(s, c) \in SUBSET (1 .. Len(s))
    BY <1>1, FS_Interval DEF Asked
  <1>. QED
    BY <1>2, FS_Subset, FS_CardinalityType

LEMMA AskedAppended ==
    ASSUME NEW s \in Seq(Cmds), NEW cmd \in Cmds, NEW c
    PROVE  Cardinality(Asked(Append(s, cmd), c)) = Cardinality(Asked(s, c)) + IsFrom(cmd, c)
  <1>1. Len(s) \in Nat /\ DOMAIN s = 1 .. Len(s)
    BY LenProperties
  <1>2. /\ DOMAIN Append(s, cmd) = 1 .. Len(s) + 1 /\ Append(s, cmd)[Len(s) + 1] = cmd
        /\ \A i \in 1 .. Len(s) : Append(s, cmd)[i] = s[i]
    BY <1>1
  <1>3. Asked(Append(s, cmd), c) =
            IF ~IsEvent(cmd) /\ cmd.from = c THEN Asked(s, c) \cup {Len(s) + 1} ELSE Asked(s, c)
    BY <1>1, <1>2 DEF Asked
  <1>4. Len(s) + 1 \notin Asked(s, c)
    BY <1>1 DEF Asked
  <1>5. IsFiniteSet(Asked(s, c)) /\ Cardinality(Asked(s, c)) \in Nat
    BY AskedType
  <1>6. Cardinality(Asked(s, c) \cup {Len(s) + 1}) = Cardinality(Asked(s, c)) + 1
    BY <1>4, <1>5, FS_AddElement
  <1>. QED
    BY <1>3, <1>5, <1>6 DEF IsFrom

LEMMA AskedTaken ==
    ASSUME NEW s \in Seq(Cmds), s # <<>>, NEW c
    PROVE  Cardinality(Asked(s, c)) = Cardinality(Asked(Tail(s), c)) + IsFrom(Head(s), c)
  <1>. DEFINE rest == Asked(s, c) \ {1}
              move == [i \in Asked(Tail(s), c) |-> i + 1]
  <1>1. Len(s) \in Nat \ {0} /\ DOMAIN s = 1 .. Len(s)
    BY LenProperties, EmptySeq
  <1>2. /\ Tail(s) \in Seq(Cmds) /\ DOMAIN Tail(s) = 1 .. Len(s) - 1
        /\ \A i \in 1 .. Len(s) - 1 : Tail(s)[i] = s[i + 1]
    BY <1>1, HeadTailProperties, LenProperties
  <1>3. Head(s) = s[1] /\ 1 \in DOMAIN s
    BY <1>1
  <1>4. move \in Bijection(Asked(Tail(s), c), rest)
    <2>1. move \in [Asked(Tail(s), c) -> rest]
      BY <1>1, <1>2 DEF Asked
    <2>2. \A i, j \in Asked(Tail(s), c) : move[i] = move[j] => i = j
      BY <1>1, <1>2 DEF Asked
    <2>3. \A k \in rest : \E i \in Asked(Tail(s), c) : move[i] = k
      <3>. SUFFICES ASSUME NEW k \in rest PROVE \E i \in Asked(Tail(s), c) : move[i] = k
        OBVIOUS
      <3>1. k \in 2 .. Len(s) /\ ~IsEvent(s[k]) /\ s[k].from = c
        BY <1>1 DEF Asked
      <3>2. k - 1 \in 1 .. Len(s) - 1 /\ (k - 1) + 1 = k
        BY <1>1, <3>1
      <3>3. k - 1 \in Asked(Tail(s), c)
        BY <1>2, <3>1, <3>2 DEF Asked
      <3>. QED
        BY <3>2, <3>3
    <2>. QED
      BY <2>1, <2>2, <2>3 DEF Bijection, Injection, Surjection, IsInjective
  <1>5. IsFiniteSet(Asked(Tail(s), c)) /\ IsFiniteSet(Asked(s, c))
    BY <1>2, AskedType
  <1>. HIDE DEF move
  <1>6. Cardinality(rest) = Cardinality(Asked(Tail(s), c))
    BY <1>4, <1>5, FS_Bijection DEF ExistsBijection
  <1>7. Cardinality(rest) = IF 1 \in Asked(s, c) THEN Cardinality(Asked(s, c)) - 1
                                                 ELSE Cardinality(Asked(s, c))
    BY <1>5, FS_RemoveElement
  <1>8. 1 \in Asked(s, c) <=> IsFrom(Head(s), c) = 1
    BY <1>3 DEF Asked, IsFrom
  <1>9. Cardinality(Asked(s, c)) \in Nat
    BY AskedType
  <1>. HIDE DEF rest
  <1>. QED
    BY <1>6, <1>7, <1>8, <1>9 DEF IsFrom

LEMMA AccountType ==
    ASSUME TypeOK, NEW c \in Callers
    PROVE  /\ InQueue(c) \in Nat /\ Deferred(c) \in 0 .. 1 /\ Tested(c) \in 0 .. 1
           /\ Waits(c) \in 0 .. 1
  BY AskedType DEF TypeOK, InQueue, Deferred, Tested, Waits

-----------------------------------------------------------------------------
(* Nothing is asked and nothing answered. *)
LEMMA AccountKept ==
    ASSUME Account, UNCHANGED <<queue, deferred, call>>, proc'.kind = "test" <=> proc.kind = "test"
    PROVE  Account'
  BY DEF Account, InQueue, Deferred, Tested, Waits

(* A caller asks. *)
LEMMA RequestAccount ==
    ASSUME IInv, Account, DeferShape, NEW c \in Callers, NEW cmd \in Cmds,
           ~IsEvent(cmd), cmd.from = c, Request(c, cmd)
    PROVE  Account' /\ DeferShape'
  <1>1. /\ call[c] # "waiting" /\ queue' = Append(queue, cmd) /\ call' = [call EXCEPT ![c] = "waiting"]
        /\ UNCHANGED <<deferred, pc, proc>>
    BY DEF Request
  <1>2. TypeOK
    BY DEF IInv
  <1>3. ASSUME NEW d \in Callers
        PROVE  InQueue(d)' + Deferred(d)' + Tested(d)' = Waits(d)'
    <2>1. InQueue(d)' = InQueue(d) + IsFrom(cmd, d)
      BY <1>1, <1>2, AskedAppended DEF TypeOK, InQueue
    <2>2. Deferred(d)' = Deferred(d) /\ Tested(d)' = Tested(d)
      BY <1>1 DEF Deferred, Tested
    <2>3. Waits(d)' = Waits(d) + IsFrom(cmd, d)
      BY <1>1, <1>2 DEF TypeOK, Waits, IsFrom
    <2>4. /\ InQueue(d) \in Nat /\ Deferred(d) \in 0 .. 1 /\ Tested(d) \in 0 .. 1
          /\ Waits(d) \in 0 .. 1 /\ IsFrom(cmd, d) \in 0 .. 1
          /\ InQueue(d) + Deferred(d) + Tested(d) = Waits(d)
      BY <1>2, AccountType DEF Account, IsFrom
    <2>. QED
      BY <2>1, <2>2, <2>3, <2>4
  <1>. QED
    BY <1>1, <1>3 DEF Account, DeferShape

(* A request that was taken is answered: its caller waits no longer. *)
LEMMA AnsweredAccount ==
    ASSUME TypeOK, TypeOK', Account, NEW cmd, cmd.from \in Callers, NEW ok, Answer(cmd, ok),
           \A c \in Callers :
               InQueue(c)' + Deferred(c)' + Tested(c)' + (IF cmd.from = c THEN 1 ELSE 0)
                   = InQueue(c) + Deferred(c) + Tested(c)
    PROVE  Account'
  <1>1. ASSUME NEW c \in Callers
        PROVE  InQueue(c)' + Deferred(c)' + Tested(c)' = Waits(c)'
    <2>1. InQueue(c)' + Deferred(c)' + Tested(c)' + (IF cmd.from = c THEN 1 ELSE 0) = Waits(c)
      BY DEF Account
    <2>2. /\ InQueue(c)' \in Nat /\ Deferred(c)' \in 0 .. 1 /\ Tested(c)' \in 0 .. 1
          /\ Waits(c) \in 0 .. 1
      BY AccountType, AskedType DEF TypeOK, InQueue, Deferred, Tested
    <2>3. CASE cmd.from = c
      <3>1. Waits(c)' = 0
        BY <2>3 DEF Waits, Answer, TypeOK
      <3>. QED
        BY <2>1, <2>2, <2>3, <3>1
    <2>4. CASE cmd.from # c
      <3>1. Waits(c)' = Waits(c)
        BY <2>4 DEF Waits, Answer, TypeOK
      <3>. QED
        BY <2>1, <2>2, <2>4, <3>1
    <2>. QED
      BY <2>3, <2>4
  <1>. QED
    BY <1>1 DEF Account

(* What the loop takes is no longer asked. *)
LEMMA TakenAccount ==
    ASSUME IInv, TakeCommand, NEW c \in Callers
    PROVE  InQueue(c)' + Deferred(c)' + IsFrom(Command, c) = InQueue(c) + Deferred(c)
  <1>1. TypeOK /\ InQueue(c) \in Nat
    BY AccountType DEF IInv
  <1>2. CASE deferred # NoCmd
    <2>1. Command = deferred /\ queue' = queue /\ deferred' = NoCmd /\ ~IsEvent(deferred)
      BY <1>1, <1>2, CommandTypes DEF TakeCommand, Command, TypeOK, StaCmds, IsEvent
    <2>2. Deferred(c) = IsFrom(Command, c) /\ Deferred(c)' = 0 /\ InQueue(c)' = InQueue(c)
      BY <1>2, <2>1 DEF Deferred, IsFrom, InQueue
    <2>. QED
      BY <1>1, <2>2 DEF IsFrom
  <1>3. CASE deferred = NoCmd
    <2>1. Command = Head(queue) /\ queue' = Tail(queue) /\ deferred' = NoCmd /\ queue # <<>>
      BY <1>3 DEF TakeCommand, Command, HasCommand
    <2>2. InQueue(c) = InQueue(c)' + IsFrom(Command, c) /\ InQueue(c)' \in Nat
      BY <1>1, <2>1, AskedTaken, AskedType, Received DEF InQueue, TypeOK
    <2>3. Deferred(c) = 0 /\ Deferred(c)' = 0
      BY <1>3, <2>1 DEF Deferred
    <2>. QED
      BY <2>2, <2>3 DEF IsFrom
  <1>. QED
    BY <1>2, <1>3

(* What a procedure receives is no longer asked. *)
LEMMA ReceivedAccount ==
    ASSUME IInv, queue # <<>>, queue' = Tail(queue), NEW c \in Callers
    PROVE  InQueue(c)' + IsFrom(Head(queue), c) = InQueue(c) /\ InQueue(c)' \in Nat
  BY AskedTaken, AskedType, Received DEF IInv, InQueue, TypeOK

-----------------------------------------------------------------------------
(* The steps of the loop. *)
LEMMA HandledAccount ==
    ASSUME IInv, IInv', Account, TakeCommand, ~IsEvent(Command), NEW ok, Answer(Command, ok),
           proc' = proc
    PROVE  Account'
  <1>1. TypeOK /\ TypeOK' /\ Command \in Cmds
    BY TakenCommand DEF IInv
  <1>2. Command.from \in Callers
    BY <1>1, CommandTypes DEF IsQuick, Callers
  <1>3. ASSUME NEW c \in Callers
        PROVE  InQueue(c)' + Deferred(c)' + Tested(c)' + (IF Command.from = c THEN 1 ELSE 0)
                   = InQueue(c) + Deferred(c) + Tested(c)
    <2>1. InQueue(c)' + Deferred(c)' + IsFrom(Command, c) = InQueue(c) + Deferred(c)
      BY TakenAccount
    <2>2. Tested(c)' = Tested(c) /\ IsFrom(Command, c) = IF Command.from = c THEN 1 ELSE 0
      BY DEF Tested, IsFrom
    <2>3. /\ InQueue(c)' \in Nat /\ Deferred(c)' \in 0 .. 1 /\ Tested(c) \in 0 .. 1
          /\ InQueue(c) \in Nat /\ Deferred(c) \in 0 .. 1 /\ IsFrom(Command, c) \in 0 .. 1
      BY <1>1, AccountType, AskedType DEF TypeOK, InQueue, Deferred, IsFrom
    <2>. QED
      BY <2>1, <2>2, <2>3
  <1>. QED
    BY <1>1, <1>2, <1>3, AnsweredAccount

LEMMA LoopAccount ==
    ASSUME IInv, IInv', Account, DeferShape, Handle
    PROVE  Account' /\ DeferShape'
  <1>. USE DEF IsEvent
  <1>1. CASE LoopQuick
    <2>1. TakeCommand /\ proc' = proc /\ pc' = "tail"
          /\ Command.type \in {"acquire", "release", "retry"} /\ \E ok : Answer(Command, ok)
      BY <1>1 DEF LoopQuick, HandleQuick, AcquireEffect, ReleaseEffect, RetryEffect
    <2>. QED
      BY <2>1, HandledAccount DEF DeferShape
  <1>2. CASE HandleBeginSetup \/ HandleSetupScan \/ HandleCompleteSetup
    <2>1. TakeCommand /\ proc' = proc /\ pc' = "tail"
          /\ Command.type \in {"beginSetup", "setupScan", "completeSetup"}
      BY <1>2 DEF HandleBeginSetup, HandleSetupScan, HandleCompleteSetup
    <2>2. \E ok : Answer(Command, ok)
      BY <1>2 DEF HandleBeginSetup, HandleSetupScan, HandleCompleteSetup, CancelSetup
    <2>. QED
      BY <2>1, <2>2, HandledAccount DEF DeferShape
  <1>3. CASE HandleSetupConnect
    <2>1. TakeCommand /\ Command.type = "setupConnect" /\ deferred' = NoCmd
      BY <1>3 DEF HandleSetupConnect, TakeCommand
    <2>2. CASE SetupHasStation
      <3>1. proc'.kind = "test" /\ call' = call
        BY <1>3, <2>2 DEF HandleSetupConnect, Idle
      <3>2. Command \in Cmds /\ Command.from = UI /\ ~IsEvent(Command) /\ proc.kind = "none"
        BY <2>1, TakenCommand, CommandTypes DEF NeedsSta
      <3>3. ASSUME NEW c \in Callers
            PROVE  InQueue(c)' + Deferred(c)' + Tested(c)' = Waits(c)'
        <4>1. InQueue(c)' + Deferred(c)' + IsFrom(Command, c) = InQueue(c) + Deferred(c)
          BY <2>1, TakenAccount
        <4>2. Tested(c) = 0 /\ Tested(c)' = IsFrom(Command, c) /\ Waits(c)' = Waits(c)
          BY <3>1, <3>2 DEF Tested, IsFrom, Waits
        <4>3. InQueue(c) + Deferred(c) + Tested(c) = Waits(c)
          BY DEF Account
        <4>4. InQueue(c) \in Nat /\ Deferred(c) \in 0 .. 1
          BY AccountType DEF IInv
        <4>. QED
          BY <4>1, <4>2, <4>3, <4>4
      <3>. QED
        BY <2>1, <3>3 DEF Account, DeferShape
    <2>3. CASE ~SetupHasStation
      <3>1. pc' = "tail" /\ proc' = proc /\ Answer(Command, FALSE)
        BY <1>3, <2>3 DEF HandleSetupConnect
      <3>. QED
        BY <2>1, <3>1, HandledAccount DEF DeferShape
    <2>. QED
      BY <2>2, <2>3
  <1>4. CASE HandleStaEvent
    <2>1. TakeCommand /\ IsEvent(Command) /\ UNCHANGED <<proc, call>> /\ pc' = "tail"
      BY <1>4 DEF HandleStaEvent
    <2>2. ASSUME NEW c \in Callers
          PROVE  InQueue(c)' + Deferred(c)' + Tested(c)' = Waits(c)'
      <3>1. InQueue(c)' + Deferred(c)' + IsFrom(Command, c) = InQueue(c) + Deferred(c)
        BY <2>1, TakenAccount
      <3>2. Tested(c)' = Tested(c) /\ IsFrom(Command, c) = 0 /\ Waits(c)' = Waits(c)
        BY <2>1 DEF Tested, IsFrom, Waits
      <3>3. InQueue(c) + Deferred(c) + Tested(c) = Waits(c)
        BY DEF Account
      <3>4. InQueue(c)' \in Nat /\ Deferred(c)' \in 0 .. 1
        BY AskedType DEF IInv, TypeOK, InQueue, Deferred
      <3>. QED
        BY <3>1, <3>2, <3>3, <3>4
    <2>. QED
      BY <2>1, <2>2 DEF Account, DeferShape
  <1>. QED
    BY <1>1, <1>2, <1>3, <1>4 DEF Handle

-----------------------------------------------------------------------------
(* The steps of the callers, and of the event task. *)
LEMMA CallersAccount ==
    ASSUME IInv, Account, DeferShape, UserNext \/ UiNext
    PROVE  Account' /\ DeferShape'
  <1>. USE DEF IsEvent
  <1>1. ASSUME NEW u \in Users, UserAcquire(u) \/ UserRelease(u)
        PROVE  Account' /\ DeferShape'
    <2>1. /\ [type |-> "acquire", from |-> u] \in Cmds /\ [type |-> "release", from |-> u] \in Cmds
          /\ u \in Callers
      BY DEF Cmds, QuickCmds, Callers
    <2>. QED
      BY <1>1, <2>1, RequestAccount DEF UserAcquire, UserRelease
  <1>2. UI \in Callers
    BY DEF Callers
  <1>3. CASE UiEnter \/ UiScan \/ UiComplete \/ UiLeave \/ UiRetry
    <2>1. \E cmd \in Cmds : ~IsEvent(cmd) /\ cmd.from = UI /\ Request(UI, cmd)
      BY <1>3 DEF UiEnter, UiScan, UiComplete, UiLeave, UiRetry, Cmds, StaCmds, QuickCmds
    <2>. QED
      BY <1>2, <2>1, RequestAccount
  <1>4. ASSUME NEW net \in Networks, UiConnect(net)
        PROVE  Account' /\ DeferShape'
    <2>1. [type |-> "setupConnect", from |-> UI, net |-> net] \in Cmds
      BY DEF Cmds, StaCmds
    <2>. QED
      BY <1>2, <1>4, <2>1, RequestAccount DEF UiConnect
  <1>5. CASE UiReturn
    <2>1. UNCHANGED <<queue, deferred, pc, proc>> /\ call[UI] \in {"ok", "error"}
          /\ call' = [call EXCEPT ![UI] = "idle"]
      BY <1>5 DEF UiReturn
    <2>2. \A c \in Callers : Waits(c)' = Waits(c)
      BY <2>1 DEF IInv, TypeOK, Waits
    <2>. QED
      BY <2>1, <2>2 DEF Account, DeferShape, InQueue, Deferred, Tested
  <1>6. CASE UiReenter \/ UiLeaveSilently \/ \E net \in Networks : UiForget(net) \/ UiPrefer(net)
    <2>1. UNCHANGED <<queue, deferred, pc, proc, call>>
      BY <1>6 DEF UiReenter, UiLeaveSilently, UiForget, UiPrefer
    <2>. QED
      BY <2>1, AccountKept DEF DeferShape
  <1>. QED
    BY <1>1, <1>3, <1>4, <1>5, <1>6 DEF UserNext, UiNext

LEMMA DriverAccount ==
    ASSUME IInv, Account, DeferShape, HandleEvent \/ Network
    PROVE  Account' /\ DeferShape'
  <1>1. UNCHANGED <<deferred, pc, proc, call>>
    BY DEF HandleEvent, Network
  <1>2. CASE queue' = queue
    BY <1>1, <1>2, AccountKept DEF DeferShape
  <1>3. CASE queue' # queue
    <2>1. HandleEvent
      BY <1>3 DEF Network
    <2>2. PICK cmd : cmd.type = "staEvent" /\ queue' = Append(queue, cmd)
                     /\ cmd = [type |-> "staEvent", connected |-> (Head(posted).kind = "gotIp"),
                               reason |-> MapReason(Head(posted).reason)]
      BY <1>3, <2>1 DEF HandleEvent, Report
    <2>3. cmd \in Cmds
      <3>1. Head(posted) \in DriverEvents
        BY <2>1, HeadTailProperties DEF IInv, TypeOK, StaType, HandleEvent
      <3>2. MapReason(Head(posted).reason) \in Failures
        BY <3>1, ReasonAssumption DEF DriverEvents, MapReason, Failures
      <3>3. (Head(posted).kind = "gotIp") \in BOOLEAN
        OBVIOUS
      <3>. QED
        BY <2>2, <3>2, <3>3 DEF Cmds, StaEvents
    <2>4. \A c \in Callers : InQueue(c)' = InQueue(c) + 0 /\ InQueue(c) \in Nat
      BY <2>2, <2>3, AskedAppended, AskedType DEF IInv, TypeOK, InQueue, IsFrom, IsEvent
    <2>5. \A c \in Callers : Deferred(c)' = Deferred(c) /\ Tested(c)' = Tested(c)
                             /\ Waits(c)' = Waits(c)
      BY <1>1 DEF Deferred, Tested, Waits
    <2>. QED
      BY <1>1, <2>4, <2>5 DEF Account, DeferShape
  <1>. QED
    BY <1>2, <1>3

-----------------------------------------------------------------------------
(* The procedures. *)

(* The next candidate's turn is never the end of a test. *)
LEMMA CandidateIsNoTest ==
    ASSUME proc.kind = "auto", proc \in Procs, NEW candidates, NEW reason,
           NextCandidate(candidates, reason) \/ PassFailed(reason)
    PROVE  proc'.kind # "test" /\ pc' \in {"tail", "rescan", "attempt"}
  <1>1. ASSUME PassFailed(reason)
        PROVE  proc'.kind # "test" /\ pc' \in {"tail", "rescan"}
    <2>1. CASE reason = "noAp" /\ proc.scans < ScanAttempts
      <3>1. proc' = [Idle EXCEPT !.kind = "auto", !.scans = proc.scans] /\ pc' = "rescan"
        BY <1>1, <2>1 DEF PassFailed
      <3>. QED
        BY <3>1, IdleProc DEF Procs
    <2>2. CASE ~(reason = "noAp" /\ proc.scans < ScanAttempts)
      <3>1. proc' = Idle /\ pc' = "tail"
        BY <1>1, <2>2 DEF PassFailed, EndProc
      <3>. QED
        BY <3>1, IdleProc
    <2>. QED
      BY <2>1, <2>2
  <1>2. ASSUME NEW net \in Networks, pc' = "attempt",
               proc' = [proc EXCEPT !.net = net, !.rest = [candidates EXCEPT ![net] = 0],
                                    !.attempt = 0, !.reason = "none"]
        PROVE  proc'.kind # "test" /\ pc' = "attempt"
    BY <1>2 DEF Procs
  <1>. QED
    BY <1>1, <1>2 DEF NextCandidate

(* The end of a test answers the app. *)
LEMMA TestEndsAccount ==
    ASSUME IInv, IInv', Account, proc.kind = "test", EndProc, deferred' = deferred,
           \A c \in Callers : InQueue(c)' = InQueue(c), NEW ok, Answer([from |-> UI], ok)
    PROVE  Account'
  <1>1. TypeOK /\ TypeOK' /\ UI \in Callers
    BY DEF IInv, Callers
  <1>2. ASSUME NEW c \in Callers
        PROVE  InQueue(c)' + Deferred(c)' + Tested(c)' + (IF UI = c THEN 1 ELSE 0)
                   = InQueue(c) + Deferred(c) + Tested(c)
    <2>1. Deferred(c)' = Deferred(c) /\ Tested(c)' = 0 /\ Tested(c) = IF UI = c THEN 1 ELSE 0
      BY DEF Deferred, Tested, EndProc, Idle
    <2>2. InQueue(c) \in Nat /\ Deferred(c) \in 0 .. 1
      BY <1>1, AccountType
    <2>. QED
      BY <2>1, <2>2
  <1>. QED
    BY <1>1, <1>2, AnsweredAccount

LEMMA ConnectedAccount ==
    ASSUME IInv, IInv', Account, pc = "wait", AttemptConnected, deferred' = deferred,
           \A c \in Callers : InQueue(c)' = InQueue(c)
    PROVE  Account'
  <1>1. CASE proc.kind = "test"
    <2>1. EndProc /\ \E ok : Answer([from |-> UI], ok)
      BY <1>1 DEF AttemptConnected
    <2>. QED
      BY <1>1, <2>1, TestEndsAccount
  <1>2. CASE proc.kind # "test"
    <2>1. proc.kind = "auto" /\ proc \in Procs
      BY <1>2 DEF IInv, ProcShape, TypeOK, Procs
    <2>2. call' = call /\ (EndProc \/ NextCandidate(proc.rest, proc.reason))
      BY <1>2 DEF AttemptConnected
    <2>3. proc'.kind # "test"
      BY <2>1, <2>2, CandidateIsNoTest DEF EndProc, Idle
    <2>. QED
      BY <1>2, <2>2, <2>3 DEF Account, Deferred, Tested, Waits
  <1>. QED
    BY <1>1, <1>2

LEMMA AttemptAccount ==
    ASSUME IInv, IInv', Account, DeferShape, AttemptEvent \/ AttemptTimeout
    PROVE  Account' /\ DeferShape'
  <1>1. pc = "wait" /\ deferred = NoCmd /\ deferred' = NoCmd
    BY DEF AttemptEvent, AttemptTimeout, At, DeferShape
  <1>2. ASSUME NEW c \in Callers PROVE InQueue(c)' = InQueue(c)
    <2>1. CASE AttemptEvent
      <3>1. queue # <<>> /\ queue' = Tail(queue) /\ IsFrom(Head(queue), c) = 0
        BY <2>1 DEF AttemptEvent, IsFrom
      <3>. QED
        BY <3>1, ReceivedAccount
    <2>2. CASE AttemptTimeout
      BY <2>2 DEF AttemptTimeout, InQueue
    <2>. QED
      BY <2>1, <2>2
  <1>3. CASE AttemptConnected
    BY <1>1, <1>2, <1>3, ConnectedAccount DEF DeferShape
  <1>4. CASE ~AttemptConnected
    <2>1. (\E reason : AttemptFailed(reason)) /\ call' = call
      BY <1>4 DEF AttemptEvent, AttemptTimeout
    <2>2. proc'.kind = proc.kind
      BY <2>1 DEF AttemptFailed, IInv, TypeOK, Procs
    <2>. QED
      BY <1>1, <1>2, <2>1, <2>2 DEF Account, DeferShape, Deferred, Tested, Waits
  <1>. QED
    BY <1>3, <1>4

LEMMA GiveUpAccount ==
    ASSUME IInv, IInv', Account, DeferShape, GiveUp
    PROVE  Account' /\ DeferShape'
  <1>1. pc = "giveUp" /\ queue' = queue /\ deferred' = deferred /\ deferred = NoCmd
    BY DEF GiveUp, At, DeferShape
  <1>2. \A c \in Callers : InQueue(c)' = InQueue(c)
    BY <1>1 DEF InQueue
  <1>3. CASE proc.kind = "test"
    <2>1. EndProc /\ Answer([from |-> UI], FALSE)
      BY <1>3 DEF GiveUp
    <2>. QED
      BY <1>1, <1>2, <1>3, <2>1, TestEndsAccount DEF DeferShape
  <1>4. CASE proc.kind # "test"
    <2>1. proc.kind = "auto" /\ proc \in Procs
      BY <1>1, <1>4 DEF IInv, ProcShape, TypeOK, Procs
    <2>2. NextCandidate(proc.rest, proc.reason) /\ call' = call
      BY <1>4 DEF GiveUp
    <2>. QED
      BY <1>1, <1>4, <2>1, <2>2, CandidateIsNoTest, AccountKept DEF DeferShape
  <1>. QED
    BY <1>3, <1>4

(* What arrives while a procedure waits.  A request that would interrupt the   *)
(* test cannot arrive: it could only be the app's, and the app waits for the  *)
(* test itself.                                                               *)
LEMMA WaitAccount ==
    ASSUME IInv, IInv', Account, DeferShape, WaitQuick \/ WaitDropsEvent \/ Interrupted
    PROVE  Account' /\ DeferShape'
  <1>1. /\ queue # <<>> /\ queue' = Tail(queue) /\ Head(queue) \in Cmds
        /\ pc \in {"delay", "rescan", "wait"} /\ deferred = NoCmd /\ TypeOK /\ TypeOK'
    BY Received DEF WaitQuick, WaitDropsEvent, Interrupted, Waiting, DeferShape, IInv
  <1>2. \A c \in Callers : InQueue(c)' + IsFrom(Head(queue), c) = InQueue(c) /\ InQueue(c)' \in Nat
    BY <1>1, ReceivedAccount
  <1>3. CASE WaitQuick
    <2>1. UNCHANGED <<deferred, pc, proc>> /\ \E ok : Answer(Head(queue), ok)
      BY <1>3 DEF WaitQuick, HandleQuick, AcquireEffect, ReleaseEffect, RetryEffect
    <2>2. Head(queue).from \in Callers /\ ~IsEvent(Head(queue))
      BY <1>1, <1>3, CommandTypes DEF WaitQuick, IsQuick
    <2>3. ASSUME NEW c \in Callers
          PROVE  InQueue(c)' + Deferred(c)' + Tested(c)' + (IF Head(queue).from = c THEN 1 ELSE 0)
                     = InQueue(c) + Deferred(c) + Tested(c)
      <3>1. Deferred(c)' = Deferred(c) /\ Tested(c)' = Tested(c)
            /\ IsFrom(Head(queue), c) = IF Head(queue).from = c THEN 1 ELSE 0
        BY <2>1, <2>2 DEF Deferred, Tested, IsFrom
      <3>2. InQueue(c) \in Nat /\ Deferred(c) \in 0 .. 1 /\ Tested(c) \in 0 .. 1
            /\ IsFrom(Head(queue), c) \in 0 .. 1
        BY <1>1, AccountType DEF IsFrom
      <3>. QED
        BY <1>2, <3>1, <3>2
    <2>. QED
      BY <1>1, <2>1, <2>2, <2>3, AnsweredAccount DEF DeferShape
  <1>4. CASE WaitDropsEvent
    <2>1. UNCHANGED <<deferred, pc, proc, call>> /\ \A c \in Callers : IsFrom(Head(queue), c) = 0
      BY <1>4 DEF WaitDropsEvent, IsFrom
    <2>2. \A c \in Callers : InQueue(c)' = InQueue(c)
      BY <1>2, <2>1
    <2>. QED
      BY <2>1, <2>2 DEF Account, DeferShape, Deferred, Tested, Waits
  <1>5. CASE Interrupted
    <2>1. deferred' = Head(queue) /\ pc' = "tail" /\ proc' = Idle /\ Head(queue) # NoCmd
          /\ Head(queue).from = UI /\ ~IsEvent(Head(queue))
      BY <1>1, <1>5, CommandTypes DEF Interrupted, Defer, EndProc, NeedsSta, IsEvent
    <2>2. proc.kind = "auto" /\ call' = call
      <3>1. UI \in Callers /\ IsFrom(Head(queue), UI) = 1
        BY <2>1 DEF Callers, IsFrom
      <3>2. InQueue(UI) + Deferred(UI) + Tested(UI) <= 1
        BY <1>1, <3>1, AccountType DEF Account
      <3>3. Tested(UI) = 0
        BY <1>1, <1>2, <3>1, <3>2, AccountType
      <3>4. proc.kind # "test"
        BY <3>3 DEF Tested
      <3>5. proc.kind = "auto"
        BY <1>1, <3>4 DEF IInv, ProcShape, TypeOK, Procs
      <3>. QED
        BY <1>5, <3>5 DEF Interrupted, Abandon
    <2>3. ASSUME NEW c \in Callers
          PROVE  InQueue(c)' + Deferred(c)' + Tested(c)' = Waits(c)'
      <3>1. Deferred(c) = 0 /\ Deferred(c)' = IsFrom(Head(queue), c) /\ Tested(c) = 0 /\ Tested(c)' = 0
            /\ Waits(c)' = Waits(c)
        BY <1>1, <2>1, <2>2 DEF Deferred, Tested, Waits, IsFrom, Idle
      <3>2. InQueue(c) + Deferred(c) + Tested(c) = Waits(c) /\ IsFrom(Head(queue), c) \in 0 .. 1
        BY DEF Account, IsFrom
      <3>. QED
        BY <1>2, <3>1, <3>2
    <2>. QED
      BY <2>1, <2>3 DEF Account, DeferShape
  <1>. QED
    BY <1>3, <1>4, <1>5

(* The other steps ask nothing and answer nothing, and no test begins or ends. *)
LEMMA QuietAccount ==
    ASSUME IInv, Account, DeferShape,
           \/ Boot \/ CheckLink \/ StopIfUnused \/ StartAutoConnect \/ CollectNone \/ Collect
           \/ BeginAttempt \/ DelayOver \/ RescanDelayOver \/ StartAttempt \/ UNCHANGED vars
    PROVE  Account' /\ DeferShape'
  <1>1. UNCHANGED <<queue, deferred, call>>
    BY DEF Boot, CheckLink, StopIfUnused, StartAutoConnect, CollectNone, Collect, BeginAttempt,
           DelayOver, RescanDelayOver, StartAttempt, vars
  <1>2. proc \in Procs
    BY DEF IInv, TypeOK
  <1>3. (proc'.kind = "test" <=> proc.kind = "test") /\ (deferred = NoCmd \/ pc' \in {"loop", "tail"})
    <2>1. CASE Boot \/ CheckLink \/ StopIfUnused \/ UNCHANGED vars
      BY <2>1 DEF Boot, CheckLink, StopIfUnused, vars, DeferShape
    <2>2. CASE StartAutoConnect
      BY <2>2 DEF StartAutoConnect, Idle, IInv, ProcShape, At
    <2>3. CASE CollectNone \/ Collect
      <3>1. proc.kind = "auto" /\ deferred = NoCmd
        BY <2>3 DEF CollectNone, Collect, At, IInv, ProcShape, DeferShape
      <3>2. \E candidates, reason : NextCandidate(candidates, reason) \/ PassFailed(reason)
        BY <2>3 DEF CollectNone, Collect
      <3>. QED
        BY <1>2, <3>1, <3>2, CandidateIsNoTest
    <2>4. CASE BeginAttempt \/ DelayOver
      BY <2>4 DEF BeginAttempt, DelayOver, At, DeferShape
    <2>5. CASE RescanDelayOver
      BY <1>2, <2>5 DEF RescanDelayOver, At, DeferShape, Procs
    <2>6. CASE StartAttempt
      <3>1. (\E reason : AttemptFailed(reason)) \/ proc' = proc
        BY <2>6 DEF StartAttempt
      <3>2. proc'.kind = proc.kind
        BY <1>2, <3>1 DEF AttemptFailed, Procs
      <3>. QED
        BY <2>6, <3>2 DEF StartAttempt, At, DeferShape
    <2>. QED
      BY <2>1, <2>2, <2>3, <2>4, <2>5, <2>6
  <1>. QED
    BY <1>1, <1>3, AccountKept DEF DeferShape

LEMMA AccountInvariance == Spec => [](IInv /\ Account /\ DeferShape)
  <1>1. Init => Account /\ DeferShape
    <2>. SUFFICES ASSUME Init PROVE Account /\ DeferShape
      OBVIOUS
    <2>1. \A c \in Callers : Asked(queue, c) = {}
      BY DEF Init, Asked
    <2>2. \A c \in Callers : InQueue(c) = 0 /\ Deferred(c) = 0 /\ Tested(c) = 0 /\ Waits(c) = 0
      BY <2>1, FS_EmptySet DEF Init, InQueue, Deferred, Tested, Waits, Idle
    <2>. QED
      BY <2>2 DEF Account, DeferShape, Init
  <1>2. IInv /\ Account /\ DeferShape /\ [Next]_vars => (IInv /\ Account /\ DeferShape)'
    <2>. SUFFICES ASSUME IInv, Account, DeferShape, [Next]_vars
                  PROVE  IInv' /\ Account' /\ DeferShape'
      OBVIOUS
    <2>1. IInv'
      BY NextIInv
    <2>. QED
      BY <2>1, LoopAccount, CallersAccount, DriverAccount, AttemptAccount, GiveUpAccount, WaitAccount,
         QuietAccount DEF Next, ManagerSteps, Timeouts
  <1>. QED
    BY InitIInv, <1>1, <1>2, PTL DEF Spec

(* Every waiting caller has exactly one request with the manager, and nobody   *)
(* else has any: no interruption loses a request, and no answer is written to *)
(* a caller that has returned.                                                *)
THEOREM EveryRequestIsAnsweredOnce == Spec => []OneAnswerPerRequest
  <1>1. Account => OneAnswerPerRequest
    BY DEF Account, OneAnswerPerRequest, Requests, InQueue, Asked, Deferred, Tested, Waits
  <1>. QED
    BY <1>1, AccountInvariance, PTL
=============================================================================
