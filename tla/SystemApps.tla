------------------------------ MODULE SystemApps ------------------------------
(***************************************************************************)
(* The system's apps on the shell, behind the PIN: the settings app, the   *)
(* screens it opens, the clock and the info screen in front of them, and   *)
(* the boot that chooses the first one (components/apps, cyd_wifi_setup    *)
(* and products/cyd_clock_composition).                                    *)
(*                                                                         *)
(* An app's enter() and step() are one action each: the shell's task calls *)
(* them one at a time, and another task reaches the apps only through what *)
(* is pending.  What a page shows and the values it changes are left out;  *)
(* which screen is up, what it leads to and what may fail are not.         *)
(***************************************************************************)
EXTENDS SettingsPin

(* The product registers these apps; all but the touch calibration have a     *)
(* step().                                                                    *)
ASSUME AppsAssumption ==
    /\ {"clock", "info", "settings", "wifi_setup", "clock_settings", "touch_calibration",
        "settings_pin", "recovery"} \subseteq Apps
    /\ Stepless \subseteq {"touch_calibration"}
    /\ Current \notin Apps \cup {NoApp}

VARIABLES
    settings,       \* system_settings_app.c: the view, the return app, the direct view
    returnTo,       \* the return app of the info, Wi-Fi setup or clock settings screen,
                    \* whichever is active: each keeps its own, and sets it in enter()
    wifiActive      \* s_wifi_setup_app_state.active

appVars == <<settings, returnTo, wifiActive>>
vars == <<shellVars, pinVars, appVars>>

SettingsViews == {"pages", "ssids", "clear", "clearNvs", "restart", "pinOff"}

(* The screens that settings opens, and that do not change where it returns. *)
OwnSubscreen == {"wifi_setup", "touch_calibration", "settings_pin", "clock_settings"}

NoSettings == [view |-> "pages", returnTo |-> NoApp, direct |-> "none"]

Init ==
    /\ ShellInit
    /\ settings = NoSettings /\ returnTo = NoApp /\ wifiActive = FALSE
    /\ pin = PinOff /\ direct = "none" /\ report = "no"
    /\ flash \in [pin: {"off", "on", "unreadable"}, fails: {0}, info: BOOLEAN, bad: BOOLEAN,
                  calibrated: BOOLEAN]
    /\ flash.bad => flash.pin = "on"
    /\ guesses = 0

(* esp_restart(), or the power: only flash is left. *)
PowerOff ==
    /\ ShellLost
    /\ settings' = NoSettings /\ returnTo' = NoApp /\ wifiActive' = FALSE
    /\ pin' = PinOff /\ direct' = "none" /\ report' = "no"

PowerCut ==
    /\ shell.at # "off"
    /\ PowerOff
    /\ UNCHANGED <<flash, guesses>>

-----------------------------------------------------------------------------
(* cyd_clock_composition_start(): the PIN is loaded, then unreadable data or  *)
(* a touch held through the boot make settings the first app.                 *)
Boot ==
    /\ shell.at = "off"
    /\ shell' = [shell EXCEPT !.at = "boot"]
    /\ \E readable, counted, held \in BOOLEAN :
        /\ pin' = Loaded(readable, counted)
        /\ guesses' = IF counted THEN guesses ELSE 0
        /\ home' = IF held \/ MustInitialize THEN "settings" ELSE "clock"
    /\ direct' = IF MustInitialize THEN "clearNvs" ELSE "none"
    /\ UNCHANGED <<active, pending, errors, idle, flash, report, appVars>>

Guarding(choice) == pin' = choice.pin /\ direct' = choice.direct

StartShell ==
    /\ Start(Guard(home, NoApp).app)
    /\ Guarding(Guard(home, NoApp))
    /\ UNCHANGED <<flash, report, guesses, appVars>>

(* leave(): settings saves its values, Wi-Fi setup ends the setup; either may *)
(* fail.  The next enter() starts a view and a return app anew.               *)
Leave(left) ==
    /\ left \/ active = "settings" \/ (active = "wifi_setup" /\ wifiActive)
    /\ wifiActive' = (wifiActive /\ (active = "wifi_setup" => ~left))
    /\ settings' = [NoSettings EXCEPT !.returnTo = settings.returnTo]
    /\ returnTo' = NoApp

ApplySwitch ==
    /\ HasSwitch
    /\ \E left \in BOOLEAN :
        LET choice == Guard(pending.to, FromApp)
        IN  /\ Take(choice.app, left)
            /\ Guarding(choice)
            /\ IF choice.app = active THEN left /\ UNCHANGED appVars ELSE Leave(left)
    /\ UNCHANGED <<flash, report, guesses>>

Suppressed ==
    \/ active = "wifi_setup" /\ wifiActive
    \/ active = "settings_pin" /\ Guarded(home)

(* The product holds the return back while Wi-Fi must be set up, the shell    *)
(* while the touch panel is not calibrated.                                   *)
IdleReturn ==
    /\ \E allowed \in BOOLEAN : GoHome(Suppressed, allowed /\ flash.calibrated)
    /\ UNCHANGED <<pinVars, appVars>>

-----------------------------------------------------------------------------
(* The clock and the info screen. *)
AtEnter(app) == shell.at = "enter" /\ active = app
AtStep(app) == shell.at = "step" /\ active = app

(* The clock subscribes to the ticks first, and without it does no more.      *)
EnterClock ==
    /\ AtEnter("clock")
    /\ \E subscribed \in BOOLEAN :
        Entered(subscribed, IF subscribed /\ shell.from = NoApp /\ ~flash.calibrated
                            THEN SwitchTo("touch_calibration") ELSE NoSwitch)
    /\ UNCHANGED <<idle, pinVars, appVars>>

ClockStep ==
    /\ AtStep("clock")
    /\ \/ idle' \in {idle, "no"} /\ \E shown \in BOOLEAN : Stepped(shown, NoSwitch)
       \/ Input /\ \E app \in {"settings", "info", "wifi_setup"}, shown \in BOOLEAN :
            Stepped(shown, SwitchTo(app))
       \/ UNCHANGED idle /\ Stepped(TRUE, SwitchTo("wifi_setup"))
    /\ UNCHANGED <<pinVars, appVars>>

Remember == returnTo' = shell.from

EnterInfo ==
    /\ AtEnter("info")
    /\ Remember
    /\ \E shown \in BOOLEAN : Entered(shown, NoSwitch)
    /\ UNCHANGED <<idle, pinVars, settings, wifiActive>>

InfoStep ==
    /\ AtStep("info")
    /\ \/ idle' \in {idle, "no"} /\ \E shown \in BOOLEAN : Stepped(shown, NoSwitch)
       \/ Input /\ Stepped(TRUE, ReturnTo(returnTo))
    /\ UNCHANGED <<pinVars, appVars>>

-----------------------------------------------------------------------------
(* Touch calibration does all of its work in enter(), and always asks to go   *)
(* back; the touches are not input events, and the idle time goes on.  No     *)
(* loop finds it active, with chains of the code's length: it has no step,    *)
(* and needs none (SteplessNeverRests).                                       *)

\* Mistaken: a calibration that failed does not ask to go back, and one that
\* worked does so only when it was opened by an app.
EnterCalibrationAndStay ==
    /\ AtEnter("touch_calibration")
    /\ \E done \in BOOLEAN :
        /\ Entered(done, IF done THEN NoSwitch ELSE ReturnTo(shell.from))
        /\ flash' = [flash EXCEPT !.calibrated = @ \/ done]
    /\ UNCHANGED <<idle, pin, direct, report, guesses, appVars>>

EnterCalibration ==
    /\ AtEnter("touch_calibration")
    /\ \E done \in BOOLEAN :
        /\ Entered(done, ReturnTo(shell.from))
        /\ flash' = [flash EXCEPT !.calibrated = @ \/ done]
    /\ UNCHANGED <<idle, pin, direct, report, guesses, appVars>>

-----------------------------------------------------------------------------
(* Wi-Fi setup, as far as the shell sees it. *)
EnterWifiSetup ==
    /\ AtEnter("wifi_setup")
    /\ Remember
    /\ \E begun \in {TRUE, wifiActive} :
        /\ Entered(begun, NoSwitch)
        /\ wifiActive' = begun
    /\ UNCHANGED <<idle, pinVars, settings>>

WifiSetupStep ==
    /\ AtStep("wifi_setup")
    /\ \/ /\ idle' \in {idle, "no"}
          /\ \E done \in BOOLEAN : Stepped(done, NoSwitch)
          /\ UNCHANGED wifiActive
       \/ /\ Input
          /\ Stepped(TRUE, ReturnTo(returnTo))
          /\ wifiActive' \in {wifiActive, FALSE}
    /\ UNCHANGED <<pinVars, settings, returnTo>>

-----------------------------------------------------------------------------
(* The clock's settings screen chooses whether the info screen is guarded.    *)
EnterClockSettings ==
    /\ AtEnter("clock_settings")
    /\ Remember
    /\ \E shown \in BOOLEAN : Entered(shown /\ shell.from # NoApp, NoSwitch)
    /\ UNCHANGED <<idle, pinVars, settings, wifiActive>>

ClockSettingsStep ==
    /\ AtStep("clock_settings")
    /\ \/ /\ idle' \in {idle, "no"}
          /\ \E done \in BOOLEAN : Stepped(done, NoSwitch)
          /\ UNCHANGED <<pin, flash>>
       \/ /\ Input /\ pin.state # "off"
          /\ flash' = [flash EXCEPT !.info = ~pin.guardInfo]
          /\ pin' = [pin EXCEPT !.guardInfo = ~pin.guardInfo]
          /\ \E shown \in BOOLEAN : Stepped(shown, NoSwitch)
       \/ /\ Input /\ Stepped(TRUE, ReturnTo(returnTo))
          /\ UNCHANGED <<pin, flash>>
    /\ UNCHANGED <<direct, report, guesses, appVars>>

(* The recovery provider's app: it goes back to the PIN screen.  Its answer   *)
(* is CheckRecovery and ReportRecovery.                                       *)
Recovery ==
    /\ \/ AtEnter("recovery") /\ Entered(TRUE, NoSwitch) /\ UNCHANGED idle
       \/ AtStep("recovery") /\ idle' \in {idle, "no"} /\ Stepped(TRUE, NoSwitch)
       \/ AtStep("recovery") /\ Input /\ Stepped(TRUE, SwitchTo("settings_pin"))
    /\ UNCHANGED <<pinVars, appVars>>

-----------------------------------------------------------------------------
(* The settings app.  A return app is where the user came from, never one of  *)
(* the screens that settings opens itself; a view that was asked for opens    *)
(* instead of the pages.                                                      *)

EnterSettings ==
    /\ AtEnter("settings")
    /\ settings' = [view |-> IF direct = "none" THEN "pages" ELSE direct,
                    returnTo |-> IF shell.from \in OwnSubscreen \cup {NoApp}
                                 THEN settings.returnTo ELSE shell.from,
                    direct |-> direct]
    /\ direct' = "none"
    /\ \E shown \in BOOLEAN : Entered(shown, NoSwitch)
    /\ UNCHANGED <<idle, pin, flash, report, guesses, returnTo, wifiActive>>

(* step() closes the settings first, when they were left alone too long. *)
Relock ==
    /\ AtStep("settings") /\ Relocks
    /\ pin' = Unlocking("settings", NoApp)
    /\ Stepped(TRUE, SwitchTo("settings_pin"))
    /\ UNCHANGED <<idle, flash, direct, report, guesses, appVars>>

AtSettings(view) == AtStep("settings") /\ ~Relocks /\ settings.view = view

(* "clear" stands for two confirmations: the touch calibration's and the app  *)
(* data's.  A page is shown, turned to, or one of its values changed. *)
SettingsRedraw ==
    /\ AtSettings(settings.view)
    /\ idle' \in {idle, "no"}
    /\ \E shown \in BOOLEAN : Stepped(shown, NoSwitch)
    /\ UNCHANGED <<pinVars, appVars>>

ShowView(view) ==
    /\ Input
    /\ settings' = [settings EXCEPT !.view = view]
    /\ \E shown \in BOOLEAN : Stepped(shown, NoSwitch)
    /\ UNCHANGED <<returnTo, wifiActive>>

OpenView ==
    /\ \/ /\ AtSettings("pages")
          /\ \E view \in {"ssids", "clear", "clearNvs"} : ShowView(view)
       \/ AtSettings("pages") /\ pin.state # "off" /\ ShowView("pinOff")
       \/ AtSettings("pages") /\ settings.returnTo = NoApp /\ ShowView("restart")
    /\ UNCHANGED pinVars

(* Initialize NVS, when it was opened for data that cannot be read, has no    *)
(* way back; opened for an unreadable PIN alone, its way back is out.         *)
CloseView ==
    /\ \/ \E view \in {"ssids", "clear", "restart", "pinOff"} :
            AtSettings(view) /\ ShowView("pages")
       \/ AtSettings("clearNvs") /\ ~MustInitialize /\ settings.direct = "none" /\ ShowView("pages")
       \/ /\ AtSettings("clearNvs") /\ ~MustInitialize /\ settings.direct = "clearNvs"
          /\ Input
          /\ Stepped(TRUE, ReturnTo(settings.returnTo))
          /\ UNCHANGED appVars
    /\ UNCHANGED pinVars

SettingsBack ==
    /\ AtSettings("pages") /\ settings.returnTo # NoApp
    /\ Input
    /\ Stepped(TRUE, ReturnTo(settings.returnTo))
    /\ UNCHANGED <<pinVars, appVars>>

OpenSubscreen ==
    /\ AtSettings("pages")
    /\ Input
    /\ \E app \in OwnSubscreen \ {"settings_pin"} : Stepped(TRUE, SwitchTo(app))
    /\ UNCHANGED <<pinVars, appVars>>

(* The security page: a new PIN, or none. *)
BeginNewPin ==
    /\ AtSettings("pages")
    /\ Input
    /\ pin' = NewPinFlow
    /\ Stepped(TRUE, SwitchTo("settings_pin"))
    /\ UNCHANGED <<flash, direct, report, guesses, appVars>>

TurnOff ==
    /\ AtSettings("pinOff")
    /\ pin' = TurnedOff
    /\ flash' = [flash EXCEPT !.pin = "off", !.fails = 0]
    /\ guesses' = 0
    /\ ShowView("pages")
    /\ UNCHANGED <<direct, report>>

(* Erasing may fail before or after flash has changed. *)
TurnOffFails ==
    /\ AtSettings("pinOff")
    /\ Input
    /\ flash' \in {flash, [flash EXCEPT !.pin = "off", !.fails = 0]}
    /\ Stepped(FALSE, NoSwitch)
    /\ UNCHANGED <<pin, direct, report, guesses, appVars>>

(* Confirmed: something is cleared, and the device restarts; a failure of     *)
(* what was to be cleared keeps it running, one of saving the values does not.*)
Erased == [flash EXCEPT !.pin = "off", !.fails = 0, !.info = FALSE, !.bad = FALSE, !.calibrated = FALSE]

ConfirmRestart ==
    /\ \/ AtSettings("restart") /\ UNCHANGED flash
       \/ AtSettings("clear") /\ flash' \in {[flash EXCEPT !.calibrated = FALSE], [flash EXCEPT !.info = FALSE]}
       \/ AtSettings("clearNvs") /\ flash' = Erased
    /\ PowerOff
    /\ UNCHANGED guesses

ClearFails ==
    /\ \/ AtSettings("clear") /\ ShowView("pages")
       \/ \E view \in {"clear", "clearNvs"} : AtSettings(view) /\ Input /\ Stepped(FALSE, NoSwitch) /\ UNCHANGED appVars
    /\ UNCHANGED pinVars

(* Cancel on the PIN screen, with nowhere to go. *)
CancelRestarts ==
    /\ CanCancel /\ Guarded(CancelGoesTo)
    /\ PowerOff
    /\ UNCHANGED <<flash, guesses>>

-----------------------------------------------------------------------------
PinStep ==
    \/ EnterPin \/ ShowPin \/ CountGuess \/ RightPin \/ WrongPin
    \/ FirstEntry \/ SecondEntryRefused \/ StoreNewPin
    \/ CancelNewPin \/ CancelToOrigin \/ AskProvider

SettingsStep ==
    \/ EnterSettings \/ Relock \/ SettingsRedraw \/ OpenView \/ CloseView \/ SettingsBack
    \/ OpenSubscreen \/ BeginNewPin \/ TurnOff \/ TurnOffFails \/ ConfirmRestart \/ ClearFails
    \/ CancelRestarts

(* app_shell_task(): one loop after another. *)
ShellTask ==
    \/ StartShell
    \/ EndChain /\ UNCHANGED <<pinVars, appVars>>
    \/ ApplySwitch \/ IdleReturn
    \/ EnterClock \/ ClockStep \/ EnterInfo \/ InfoStep \/ EnterCalibration
    \/ EnterWifiSetup \/ WifiSetupStep \/ EnterClockSettings \/ ClockSettingsStep \/ Recovery
    \/ PinStep /\ UNCHANGED appVars
    \/ SettingsStep

Surroundings ==
    \/ Boot \/ PowerCut
    \/ Wait /\ UNCHANGED <<pinVars, appVars>>
    \/ (WaitOver \/ CheckRecovery \/ ReportRecovery) /\ UNCHANGED appVars

Next == ShellTask \/ Surroundings

Spec == Init /\ [][Next]_vars

-----------------------------------------------------------------------------
(* The values of the variables. *)
TypeOK ==
    /\ ShellTypeOK /\ PinTypeOK
    /\ settings \in [view: SettingsViews, returnTo: Apps \cup {NoApp}, direct: Views]
    /\ returnTo \in Apps \cup {NoApp}
    /\ wifiActive \in BOOLEAN

(* With a PIN set, a guarded app is never in front of a user who did not      *)
(* enter it: it is unlocked, or the PIN screen is about to take its place, or *)
(* it is Initialize NVS, opened for data that cannot be read.  With a PIN     *)
(* that cannot be read, nothing but Initialize NVS is.                        *)
OnlyInitialize ==
    /\ active = "settings"
    /\ "clearNvs" = IF shell.at = "enter" THEN direct ELSE settings.view

LockedStaysOut ==
    Guarded(active) =>
        /\ pin.state = "on" =>
            \/ pin.unlocked \/ pending.to = "settings_pin"
            \/ OnlyInitialize /\ MustInitialize
        /\ pin.state = "corrupt" => OnlyInitialize

(* A PIN that was entered is good for the settings and the screens they open, *)
(* and no longer once any other app is in front.                              *)
SessionEndsOutside == pin.unlocked => InArea(active)

(* A wrong guess is never given back, by a restart at any moment either: the  *)
(* count in flash covers every guess made, unless flash failed to take or to  *)
(* give it.                                                                   *)
GuessesOutliveRestart == flash.pin = "on" => guesses <= flash.fails

(* Only who entered the old PIN, or recovered, is asked for a new one.        *)
NewPinIsEarned ==
    AtPin /\ pin.screen # "enter" /\ pin.state = "on" => pin.unlocked \/ pin.task.recovered

(* The lock holds: nobody who does not know the PIN is behind it, enters it   *)
(* for longer than the settings are open, or sets a new one.                  *)
LockHolds == LockedStaysOut /\ SessionEndsOutside /\ NewPinIsEarned

(* Settings never returns into one of the screens it opens itself, wherever   *)
(* the PIN screen, a restart or an idle return came in between.  (The         *)
(* recovery provider's app is not one of them: an idle return from it into a  *)
(* home that is settings makes it the return app.)                            *)
ReturnOutside == settings.returnTo \notin OwnSubscreen \cup {"settings"}

(* An app that keeps failing is left: at every step the errors in a row are   *)
(* within the budget, unless the home app is the one that fails.  The first   *)
(* app of a boot, which the guard may put in front of home, is given one step *)
(* after its enter() failed, even when one error is the whole budget.         *)
ErrorBudget ==
    shell.at = "step" /\ active # home =>
        errors < MaxErrors \/ (shell.round = 0 /\ errors = 1)

(* An app without a step() never rests on the screen, reading no input:       *)
(* whenever it is active another app is about to take its place, whether its  *)
(* enter() worked or not and whoever asked for another switch meanwhile.      *)
SteplessNeverRests ==
    active \in Stepless /\ shell.at # "enter" => pending.to \notin {NoApp, active}
=============================================================================
