------------------------------ MODULE SettingsPin ------------------------------
(***************************************************************************)
(* The PIN in front of the settings, settings_pin_app.c, settings_pin_     *)
(* logic.c and settings_pin_store.c of components/apps/cyd_system_apps.    *)
(*                                                                         *)
(* The shell asks the guard before it enters an app.  The guard lets it    *)
(* through, or remembers where the user was going and puts the PIN screen  *)
(* in front.  A PIN entered stays good until an app outside the settings   *)
(* is entered or the device is idle too long.  Flash keeps the PIN and the *)
(* number of wrong guesses, and both can fail to be read or written.       *)
(***************************************************************************)
EXTENDS AppShell

CONSTANTS
    FreeAttempts,   \* SETTINGS_PIN_FREE_ATTEMPTS
    MaxGuesses      \* bound: guesses in a row are counted no further

ASSUME PinAssumption == FreeAttempts \in Nat /\ MaxGuesses \in Nat \ {0}

VARIABLES
    pin,            \* the module's variables in RAM
    flash,          \* NVS: the PIN record, the failures, whether the info screen is guarded,
                    \* whether anything else in it cannot be read, the touch calibration
    direct,         \* s_settings_pending_direct_view
    report,         \* settings_pin_recovery_succeeded() in the provider's own task
    guesses         \* history: the guesses made since the last right one or new PIN, but for
                    \* those that flash failed to take or to give back

pinVars == <<pin, flash, direct, report, guesses>>

Views == {"none", "clearNvs"}

NoFlow == [flow |-> "none", target |-> NoApp, origin |-> NoApp, recovered |-> FALSE]
PinOff == [state |-> "off", fails |-> 0, wait |-> FALSE, unlocked |-> FALSE,
           screen |-> "enter", guardInfo |-> FALSE, task |-> NoFlow]

PinTypeOK ==
    /\ pin \in [state: {"off", "on", "corrupt"}, fails: 0 .. MaxGuesses, wait: BOOLEAN,
                unlocked: BOOLEAN, screen: {"enter", "new1", "new2"}, guardInfo: BOOLEAN,
                task: [flow: {"none", "unlock", "newPin"}, target: Apps \cup {NoApp},
                       origin: Apps \cup {NoApp}, recovered: BOOLEAN]]
    /\ flash \in [pin: {"off", "on", "unreadable"}, fails: 0 .. MaxGuesses, info: BOOLEAN,
                  bad: BOOLEAN, calibrated: BOOLEAN]
    /\ direct \in Views
    /\ report \in {"no", "checked"}
    /\ guesses \in 0 .. MaxGuesses

-----------------------------------------------------------------------------
(* Who is guarded. *)
Guarded(app) == app \in {"settings", "wifi_setup", "clock_settings"} \/ (app = "info" /\ pin.guardInfo)

InArea(app) == Guarded(app) \/ app \in {"touch_calibration", "settings_pin", "recovery"}

IdleElapsed == idle # "no"

(* nvs_health_requires_initialize(): the boot read what this firmware cannot. *)
MustInitialize == flash.bad \/ flash.pin = "unreadable"

ForcedInitialize == direct = "clearNvs" /\ MustInitialize

Unlocking(target, origin) ==
    [pin EXCEPT !.unlocked = FALSE, !.screen = "enter",
                !.task = [flow |-> "unlock", target |-> target, origin |-> origin,
                          recovered |-> FALSE]]

Locked == [pin EXCEPT !.unlocked = FALSE, !.task = NoFlow]

(* settings_pin_guard(): the app to enter, the module's variables after it,   *)
(* and the view that settings opens.                                          *)
LetIn(app) == [app |-> app, pin |-> pin, direct |-> direct]

\* Mistaken: a switch inside the settings is not looked at.
GuardFromOutside(next, from) ==
    IF pin.state = "off" \/ InArea(active) THEN LetIn(next)
    ELSE IF ~InArea(next) THEN [LetIn(next) EXCEPT !.pin = Locked]
    ELSE IF ~Guarded(next) THEN LetIn(next)
    ELSE IF pin.state = "corrupt" THEN [app |-> "settings", pin |-> pin, direct |-> "clearNvs"]
    ELSE IF next = "settings" /\ ForcedInitialize THEN LetIn(next)
    ELSE IF pin.unlocked /\ ~IdleElapsed THEN LetIn(next)
    ELSE [app |-> "settings_pin", pin |-> Unlocking(next, from), direct |-> direct]

Guard(next, from) ==
    IF pin.state = "off" THEN LetIn(next)
    ELSE IF ~InArea(next) THEN [LetIn(next) EXCEPT !.pin = Locked]
    ELSE IF ~Guarded(next) THEN LetIn(next)
    ELSE IF pin.state = "corrupt" THEN [app |-> "settings", pin |-> pin, direct |-> "clearNvs"]
    ELSE IF next = "settings" /\ ForcedInitialize THEN LetIn(next)
    ELSE IF pin.unlocked /\ ~IdleElapsed THEN LetIn(next)
    ELSE [app |-> "settings_pin", pin |-> Unlocking(next, from), direct |-> direct]

(* settings_pin_relock_if_idle(): settings closes in place when the shell's   *)
(* own idle return cannot take it home.                                       *)
Relocks ==
    /\ pin.state = "on" /\ pin.unlocked
    /\ idle \in (IF home = "settings" THEN {"elapsed", "grace"} ELSE {"grace"})

-----------------------------------------------------------------------------
(* settings_pin_init() at boot: what cannot be read is locked, not open.      *)
Waits(fails) == fails > FreeAttempts

Loaded(readable, counted) ==
    [PinOff EXCEPT
        !.state = IF ~readable \/ flash.pin = "unreadable" THEN "corrupt" ELSE flash.pin,
        !.fails = IF readable /\ flash.pin = "on" /\ counted THEN flash.fails ELSE 0,
        !.wait = readable /\ flash.pin = "on" /\ counted /\ Waits(flash.fails),
        !.guardInfo = flash.info]

-----------------------------------------------------------------------------
(* The PIN screen. *)
AtPin == shell.at = "step" /\ active = "settings_pin"

(* The user touches something.  Bound: not between the provider's look at the *)
(* flow and its answer, two lines apart; the shell's own moves come between.  *)
Input == report = "no" /\ idle' = "no"

(* enter(): back from the recovery provider, it asks for a new PIN or for the *)
(* old one again.                                                             *)
BackFromProvider == pin.task.flow = "unlock" /\ shell.from = "recovery"

EnterPin ==
    /\ shell.at = "enter" /\ active = "settings_pin"
    /\ \E shown \in BOOLEAN :
        IF pin.task.flow = "none" THEN Entered(TRUE, ReturnTo(shell.from)) ELSE Entered(shown, NoSwitch)
    /\ pin' = IF ~BackFromProvider THEN pin
              ELSE [pin EXCEPT !.screen = IF pin.task.recovered THEN "new1" ELSE "enter"]
    /\ UNCHANGED <<idle, flash, direct, report, guesses>>

(* Nothing was pressed, or a digit: the screen is drawn, which may fail. *)
ShowPin ==
    /\ AtPin
    /\ \E shown \in BOOLEAN : Stepped(shown, NoSwitch)
    /\ idle' \in {idle, "no"}
    /\ UNCHANGED pinVars

(* A complete PIN is entered.  The guess is counted in flash before it is     *)
(* checked, so that cutting the power does not give it back.                  *)
OneMore(n) == IF n < MaxGuesses THEN n + 1 ELSE n

\* Mistaken: the guess is counted only in RAM until it was checked.
CountGuessLater ==
    /\ AtPin /\ pin.screen = "enter" /\ ~pin.wait
    /\ Input
    /\ pin' = [pin EXCEPT !.fails = OneMore(@)]
    /\ guesses' = OneMore(guesses)
    /\ shell' = [shell EXCEPT !.at = "check"]
    /\ UNCHANGED <<active, home, pending, errors, flash, direct, report>>

CountGuess ==
    /\ AtPin /\ pin.screen = "enter" /\ ~pin.wait
    /\ Input
    /\ pin' = [pin EXCEPT !.fails = OneMore(@)]
    /\ \/ flash' = [flash EXCEPT !.fails = OneMore(pin.fails)] /\ guesses' = OneMore(guesses)
       \/ UNCHANGED <<flash, guesses>>
    /\ shell' = [shell EXCEPT !.at = "check"]
    /\ UNCHANGED <<active, home, pending, errors, direct, report>>

(* settings_pin_continue_to_target(): the flow ends, and the app that was     *)
(* asked for is entered as if from where it was asked for.                    *)
Accepted(p) == [p EXCEPT !.unlocked = TRUE, !.task = NoFlow]

Continue ==
    IF pin.task.target = NoApp THEN Stepped(FALSE, NoSwitch)
    ELSE Stepped(TRUE, SwitchToFrom(pin.task.target, pin.task.origin))

RightPin ==
    /\ shell.at = "check" /\ pin.state = "on"
    /\ pin' = Accepted([pin EXCEPT !.fails = 0, !.wait = FALSE])
    /\ flash' \in {[flash EXCEPT !.fails = 0], flash}
    /\ guesses' = 0
    /\ Continue
    /\ UNCHANGED <<idle, direct, report>>

WrongPin ==
    /\ shell.at = "check"
    /\ pin' = [pin EXCEPT !.wait = Waits(pin.fails)]
    /\ \E shown \in BOOLEAN : Stepped(shown, NoSwitch)
    /\ UNCHANGED <<idle, flash, direct, report, guesses>>

WaitOver ==
    /\ shell.at # "off" /\ pin.wait
    /\ pin' = [pin EXCEPT !.wait = FALSE]
    /\ UNCHANGED <<shellVars, flash, direct, report, guesses>>

(* The new PIN, entered twice. *)
NewScreen(screen) ==
    /\ \E shown \in BOOLEAN : Stepped(shown, NoSwitch)
    /\ pin' = [pin EXCEPT !.screen = screen]
    /\ UNCHANGED <<flash, guesses>>

FirstEntry ==
    /\ AtPin /\ pin.screen = "new1" /\ Input
    /\ NewScreen("new2")
    /\ UNCHANGED <<direct, report>>

(* The two differ, or the record could not be saved. *)
SecondEntryRefused ==
    /\ AtPin /\ pin.screen = "new2" /\ Input
    /\ NewScreen("new1")
    /\ UNCHANGED <<direct, report>>

BackFromNewPin == SwitchTo(IF pin.task.target = NoApp THEN "settings" ELSE pin.task.target)

StoreNewPin ==
    /\ AtPin /\ pin.screen = "new2" /\ Input
    /\ flash' \in {[flash EXCEPT !.pin = "on", !.fails = 0], [flash EXCEPT !.pin = "on"]}
    /\ pin' = Accepted([pin EXCEPT !.state = "on", !.fails = 0, !.wait = FALSE])
    /\ guesses' = 0
    /\ IF pin.task.flow = "unlock" THEN Continue ELSE Stepped(TRUE, BackFromNewPin)
    /\ UNCHANGED <<direct, report>>

-----------------------------------------------------------------------------
(* Cancel.  A new PIN is given up, for the settings page or for the old PIN;  *)
(* the old PIN is given up for where the user came from, and for a restart    *)
(* when that is guarded as well.                                              *)
CancelNewPin ==
    /\ AtPin /\ Input
    /\ IF pin.task.flow = "newPin"
       THEN /\ pin' = [pin EXCEPT !.task = NoFlow]
            /\ Stepped(TRUE, BackFromNewPin)
       ELSE /\ pin.screen # "enter"
            /\ pin' = [pin EXCEPT !.screen = "enter", !.task.recovered = FALSE]
            /\ \E shown \in BOOLEAN : Stepped(shown, NoSwitch)
    /\ UNCHANGED <<flash, direct, report, guesses>>

CancelGoesTo == IF pin.task.origin = NoApp THEN home ELSE pin.task.origin

CancelDirect == IF pin.task.target = "settings" THEN "none" ELSE direct

CanCancel == AtPin /\ pin.task.flow # "newPin" /\ pin.screen = "enter"

CancelToOrigin ==
    /\ CanCancel /\ ~Guarded(CancelGoesTo) /\ Input
    /\ pin' = [pin EXCEPT !.task = NoFlow]
    /\ direct' = CancelDirect
    /\ Stepped(TRUE, SwitchTo(CancelGoesTo))
    /\ UNCHANGED <<flash, report, guesses>>

(* The recovery button, and the provider's answer. *)
AskProvider ==
    /\ AtPin /\ pin.task.flow = "unlock" /\ pin.screen = "enter" /\ Input
    /\ pin' = [pin EXCEPT !.task.recovered = FALSE]
    /\ Stepped(TRUE, SwitchTo("recovery"))
    /\ UNCHANGED <<flash, direct, report, guesses>>

(* settings_pin_recovery_succeeded(), called from any task for the provider's *)
(* app: the flow is read first, and the answer given after.                   *)
CheckRecovery ==
    /\ report = "no" /\ active = "recovery" /\ pin.task.flow = "unlock" /\ pin.state = "on"
    /\ report' = "checked"
    /\ UNCHANGED <<shellVars, pin, flash, direct, guesses>>

ReportRecovery ==
    /\ report = "checked"
    /\ report' = "no"
    /\ pin' = [pin EXCEPT !.task.recovered = TRUE]
    /\ pending' = SwitchTo("settings_pin")
    /\ UNCHANGED <<shell, active, home, errors, idle, flash, direct, guesses>>

-----------------------------------------------------------------------------
(* For the settings pages. *)
NewPinFlow ==
    [pin EXCEPT !.screen = "new1",
                !.task = [flow |-> "newPin", target |-> "settings", origin |-> NoApp,
                          recovered |-> FALSE]]

TurnedOff ==
    [pin EXCEPT !.state = "off", !.fails = 0, !.wait = FALSE, !.unlocked = FALSE, !.task = NoFlow]
=============================================================================
