--------------------------- MODULE SystemApps_proofs ---------------------------
(***************************************************************************)
(* Proofs about SystemApps, for every set of apps that holds the product's *)
(* own, every length of a chain of switches and every limit: the PIN locks *)
(* the settings, a guess is never given back, an app that fails is left,   *)
(* and one without a step() never stays.                                   *)
(***************************************************************************)
EXTENDS SystemApps, TLAPS

(* The inductive invariant.  The shell: what is running, where it came from,  *)
(* and how many errors it may have had by then.                               *)
ShellShape ==
    /\ shell.at \in {"off", "boot"} =>
        /\ shell.hops = 0 /\ shell.round = 0 /\ shell.from = NoApp
        /\ active = NoApp /\ pending = NoSwitch /\ errors = 0
        /\ returnTo = NoApp /\ settings.returnTo = NoApp
        /\ pin.task = NoFlow /\ ~pin.unlocked /\ pin.screen = "enter" /\ report = "no"
    /\ shell.at = "off" => pin = PinOff
    /\ shell.at \notin {"off", "boot"} => active # NoApp
    /\ shell.at # "off" => home \in {"clock", "settings"}
    /\ shell.at = "check" => active = "settings_pin" /\ report = "no"
    /\ shell.at = "apply" => shell.round # 0
    /\ shell.at = "enter" => shell.hops < MaxChain
    /\ shell.at = "enter" /\ shell.round = 0 =>
        /\ errors = 0 /\ pin.screen = "enter"
        /\ active \in {home, "settings", "settings_pin"}
    /\ shell.at \notin {"off", "boot", "enter"} /\ active # home =>
        \/ errors < MaxErrors
        \/ shell.at \in {"step", "check"} /\ shell.round = 0 /\ errors = 1

(* What may be asked for: only the PIN screen asks for an app as if from      *)
(* elsewhere, and then for a guarded one.                                     *)
Guardable == {"settings", "wifi_setup", "clock_settings", "info"}

SwitchShape ==
    /\ pin.task.target \in Guardable \cup {NoApp}
    /\ pin.task.flow # "unlock" => pin.task.target \in {"settings", NoApp}
    /\ pending.from # Current => pending.to \in Guardable
    /\ pin.task.target = "settings" => pin.task.origin # "settings"
    /\ pending.to = "settings" => pending.from # "settings"
    /\ shell.at = "enter" /\ active = "settings" => shell.from # "settings"
    /\ shell.at = "enter" /\ active = "touch_calibration" => shell.from # "touch_calibration"
    /\ shell.at = "enter" /\ active = "clock" /\ shell.round # 0 => shell.from # NoApp

(* The clock and the info screen are on one side of the lock, and a device    *)
(* whose home is the settings never leaves the other.                         *)
ClockShape ==
    /\ home = "settings" =>
        "clock" \notin {active, pending.to, pending.from, shell.from, returnTo, settings.returnTo,
                        pin.task.target, pin.task.origin}
    /\ active = "info" =>
        /\ home = "clock" /\ report = "no"
        /\ (IF shell.at = "enter" THEN shell.from ELSE returnTo) = "clock"
        /\ pending.to \in {NoApp, "clock"} /\ pending.from = Current
    /\ pending.to = "info" =>
        /\ home = "clock" /\ report = "no" /\ active \in {"clock", "settings_pin"}
        /\ FromApp = "clock"
    /\ pin.task.target = "info" => home = "clock" /\ pin.task.origin = "clock"
    /\ shell.from = "info" => active = "clock"
    /\ "info" \notin {returnTo, settings.returnTo, pin.task.origin, pending.from}

(* The lock: who is behind it without the PIN is on the way out, or erases    *)
(* everything.                                                                *)
LockShape ==
    /\ pin.unlocked => pin.state = "on" /\ InArea(active)
    /\ pin.state = "on" /\ Guarded(active) =>
        \/ pin.unlocked
        \/ shell.at = "apply" /\ shell.hops = 0 /\ pending.to = "settings_pin"
        \/ OnlyInitialize /\ MustInitialize
    /\ pin.state = "on" /\ pin.task.flow = "newPin" => pin.unlocked

(* A PIN that cannot be read: neither its screen nor the recovery is anywhere.*)
CorruptShape ==
    pin.state = "corrupt" =>
        /\ Guarded(active) => OnlyInitialize
        /\ active = "settings" /\ shell.at # "enter" => settings.direct = "clearNvs"
        /\ pin.task.flow = "none" /\ report = "no" /\ pending.from = Current
        /\ {active, pending.to, shell.from, returnTo, settings.returnTo} \cap
               {"settings_pin", "recovery"} = {}

(* A screen that asks for a new PIN and was not earned was left behind: it is *)
(* entered only through the guard, which makes it ask for the old one.        *)
Unearned == pin.state = "on" /\ pin.screen # "enter" /\ ~pin.unlocked /\ ~pin.task.recovered

NewPinShape ==
    Unearned =>
        /\ active \notin {"settings_pin", "recovery", "touch_calibration", "wifi_setup",
                          "clock_settings"}
        /\ pending.to \notin {"settings_pin", "recovery", "touch_calibration"}
        /\ pending.from = Current

(* The guesses, in flash and in RAM. *)
GuessShape ==
    /\ GuessesOutliveRestart
    /\ pin.state = "on" => guesses <= pin.fails
    /\ shell.at # "off" /\ pin.state = "off" => flash.pin = "off"

IInv ==
    /\ TypeOK
    /\ ShellShape /\ SwitchShape /\ ClockShape /\ LockShape /\ CorruptShape
    /\ NewPinShape /\ GuessShape /\ ReturnOutside /\ SteplessNeverRests

USE DEF Current

-----------------------------------------------------------------------------
(* What a move of the shell does, whatever the app says. *)
LEMMA SwitchIsTyped ==
    ASSUME NEW to \in Apps \cup {NoApp}, NEW from \in Apps \cup {NoApp, Current}
    PROVE  SwitchTo(to) \in Switches /\ SwitchToFrom(to, from) \in Switches
BY DEF SwitchTo, SwitchToFrom, Switches

LEMMA SteppedDoes ==
    ASSUME TypeOK, NEW ok \in BOOLEAN, NEW switch \in Switches, Stepped(ok, switch)
    PROVE  /\ shell' = [at |-> "apply", from |-> NoApp, hops |-> 0, round |-> 1]
           /\ active' = active /\ home' = home
           /\ errors' \in 0 .. MaxErrors /\ (active # home => errors' < MaxErrors)
           /\ \/ pending' = Asked(switch)
              \/ active # home /\ pending' = SwitchTo(home)
           /\ ok => pending' = Asked(switch)
           /\ pending' \in Switches
<1>1. shell' = [at |-> "apply", from |-> NoApp, hops |-> 0, round |-> 1]
      /\ active' = active /\ home' = home
    BY DEF Stepped, Chain, At
<1>2. OneMoreError \in 0 .. MaxErrors
    BY ShellAssumption DEF TypeOK, ShellTypeOK, OneMoreError
<1>3. Asked(switch) \in Switches /\ SwitchTo(home) \in Switches
    BY SwitchIsTyped DEF TypeOK, ShellTypeOK, Asked
<1>4. /\ errors' \in 0 .. MaxErrors /\ (active # home => errors' < MaxErrors)
      /\ \/ pending' = Asked(switch)
         \/ active # home /\ pending' = SwitchTo(home)
      /\ ok => pending' = Asked(switch)
    BY <1>2, ShellAssumption DEF Stepped, Count, BudgetSpent
<1> QED BY <1>1, <1>3, <1>4

LEMMA EnteredDoes ==
    ASSUME TypeOK, ShellShape, shell.at = "enter",
           NEW ok \in BOOLEAN, NEW switch \in Switches, Entered(ok, switch)
    PROVE  /\ \/ /\ shell.round = 0
                 /\ shell' = [at |-> "step", from |-> NoApp, hops |-> 0, round |-> 0]
                 /\ pending' = Asked(switch)
                 /\ errors' \in {0, 1}
              \/ /\ shell.round # 0
                 /\ shell' = [at |-> "apply", from |-> NoApp, hops |-> shell.hops + 1,
                              round |-> shell.round]
                 /\ \/ pending' = Asked(switch)
                    \/ active # home /\ pending' = SwitchTo(home)
                 /\ active # home => errors' < MaxErrors
           /\ active' = active /\ home' = home
           /\ errors' \in 0 .. MaxErrors
           /\ pending' \in Switches
<1>1. OneMoreError \in 0 .. MaxErrors /\ (errors = 0 => OneMoreError = 1)
    BY ShellAssumption DEF TypeOK, ShellTypeOK, OneMoreError
<1>2. Asked(switch) \in Switches /\ SwitchTo(home) \in Switches
    BY SwitchIsTyped DEF TypeOK, ShellTypeOK, Asked
<1>3. active' = active /\ home' = home
    BY DEF Entered
<1>4. CASE shell.round = 0
    <2>1. errors = 0 BY <1>4 DEF ShellShape
    <2>2. shell' = [at |-> "step", from |-> NoApp, hops |-> 0, round |-> 0] /\ pending' = Asked(switch)
        BY <1>4 DEF Entered, At
    <2>3. errors' \in 0 .. MaxErrors /\ errors' \in {0, 1}
        BY <1>1, <1>4, <2>1, ShellAssumption DEF Entered, TypeOK, ShellTypeOK
    <2> QED BY <1>2, <1>3, <1>4, <2>2, <2>3
<1>5. CASE shell.round # 0
    <2>1. shell' = [at |-> "apply", from |-> NoApp, hops |-> shell.hops + 1, round |-> shell.round]
        BY <1>5 DEF Entered, TypeOK, ShellTypeOK
    <2>2. /\ errors' \in 0 .. MaxErrors /\ (active # home => errors' < MaxErrors)
          /\ \/ pending' = Asked(switch)
             \/ active # home /\ pending' = SwitchTo(home)
        BY <1>1, <1>5, ShellAssumption DEF Entered, Count, BudgetSpent
    <2> QED BY <1>2, <1>3, <1>5, <2>1, <2>2
<1> QED BY <1>4, <1>5

-----------------------------------------------------------------------------
(* A step() that asks for an app, or for none, and leaves the lock as it is.  *)
MayAskFor(app) ==
    /\ app \in Apps \cup {NoApp}
    /\ home = "settings" => app # "clock"
    /\ active = "info" => app \in {NoApp, "clock"}
    /\ app = "info" => active = "clock" /\ report = "no"
    /\ pin.state = "corrupt" => app \notin {"settings_pin", "recovery"}
    /\ Unearned => app \notin {"settings_pin", "recovery", "touch_calibration"}

PinKept ==
    /\ pin' \in [state: {pin.state}, fails: {pin.fails}, wait: BOOLEAN, unlocked: {pin.unlocked},
                 screen: {"enter", "new1", "new2"}, guardInfo: {pin.guardInfo}, task: {pin.task}]
    /\ pin.screen = "enter" => pin'.screen = "enter"
    /\ UNCHANGED <<flash, direct, report, guesses>>

SettingsKept ==
    /\ settings' \in [view: SettingsViews, returnTo: {settings.returnTo}, direct: {settings.direct}]
    /\ settings.view = "clearNvs" /\ (MustInitialize \/ settings.direct = "clearNvs") =>
         settings'.view = "clearNvs"
    /\ returnTo' = returnTo
    /\ wifiActive' \in BOOLEAN

LEMMA StepKeepsLock ==
    ASSUME IInv, shell.at \in {"step", "check"}, active # "touch_calibration",
           NEW ok \in BOOLEAN, NEW app, MayAskFor(app), Stepped(ok, SwitchTo(app)),
           PinKept, SettingsKept, idle' \in {"no", "elapsed", "grace"}
    PROVE  IInv'
<1> USE ShellAssumption, PinAssumption, AppsAssumption
<1>1. SwitchTo(app) \in Switches
    BY SwitchIsTyped DEF MayAskFor
<1>2. /\ shell' = [at |-> "apply", from |-> NoApp, hops |-> 0, round |-> 1]
      /\ active' = active /\ home' = home
      /\ errors' \in 0 .. MaxErrors /\ (active # home => errors' < MaxErrors)
      /\ \/ pending' = Asked(SwitchTo(app))
         \/ active # home /\ pending' = SwitchTo(home)
      /\ pending' \in Switches
    BY <1>1, SteppedDoes DEF IInv
<1>3. home \in {"clock", "settings"} /\ active # NoApp
    BY DEF IInv, ShellShape
<1>4. \/ pending' = pending
      \/ pending' = [to |-> app, from |-> "current"]
      \/ pending' = [to |-> home, from |-> "current"]
    BY <1>2 DEF Asked, SwitchTo
<1>5. /\ pin' \in [state: {"off", "on", "corrupt"}, fails: 0 .. MaxGuesses, wait: BOOLEAN,
                   unlocked: BOOLEAN, screen: {"enter", "new1", "new2"}, guardInfo: BOOLEAN,
                   task: [flow: {"none", "unlock", "newPin"}, target: Apps \cup {NoApp},
                          origin: Apps \cup {NoApp}, recovered: BOOLEAN]]
      /\ pin'.state = pin.state /\ pin'.fails = pin.fails /\ pin'.unlocked = pin.unlocked
      /\ pin'.guardInfo = pin.guardInfo /\ pin'.task = pin.task
      /\ (pin'.screen # "enter" => pin.screen # "enter")
      /\ flash' = flash /\ direct' = direct /\ report' = report /\ guesses' = guesses
    BY DEF PinKept, IInv, TypeOK, PinTypeOK
<1>6. /\ settings'.returnTo = settings.returnTo /\ settings'.direct = settings.direct
      /\ settings' \in [view: SettingsViews, returnTo: Apps \cup {NoApp}, direct: Views]
      /\ (settings.view = "clearNvs" /\ (MustInitialize \/ settings.direct = "clearNvs") =>
            settings'.view = "clearNvs")
      /\ returnTo' = returnTo /\ wifiActive' \in BOOLEAN
    BY DEF SettingsKept, IInv, TypeOK
<1>a. TypeOK'
    BY <1>2, <1>5, <1>6 DEF IInv, TypeOK, ShellTypeOK, PinTypeOK, Switches
<1>b. ShellShape'
    BY <1>2, <1>3 DEF ShellShape
<1>c. SwitchShape'
    BY <1>2, <1>4, <1>5 DEF IInv, SwitchShape, Guardable
<1>d. ClockShape'
    BY <1>2, <1>3, <1>4, <1>5, <1>6 DEF IInv, ClockShape, FromApp, MayAskFor
<1>e. (OnlyInitialize /\ (MustInitialize \/ settings.direct = "clearNvs") => OnlyInitialize')
      /\ (MustInitialize' <=> MustInitialize)
    BY <1>2, <1>5, <1>6 DEF OnlyInitialize, MustInitialize
<1>f. \A a : (Guarded(a)' <=> Guarded(a)) /\ (InArea(a)' <=> InArea(a))
    BY <1>5 DEF Guarded, InArea
<1>g. LockShape'
    BY <1>2, <1>5, <1>e, <1>f DEF IInv, LockShape
<1>h. CorruptShape'
    BY <1>2, <1>3, <1>4, <1>5, <1>6, <1>e, <1>f DEF IInv, CorruptShape, MayAskFor, OnlyInitialize
<1>i. NewPinShape'
    BY <1>2, <1>3, <1>4, <1>5 DEF IInv, NewPinShape, Unearned, MayAskFor
<1>j. GuessShape'
    BY <1>2, <1>5 DEF IInv, GuessShape, GuessesOutliveRestart
<1>k. ReturnOutside' /\ SteplessNeverRests'
    BY <1>2, <1>6 DEF IInv, ReturnOutside, OwnSubscreen, SteplessNeverRests
<1> QED BY <1>a, <1>b, <1>c, <1>d, <1>g, <1>h, <1>i, <1>j, <1>k DEF IInv

(* An enter() that asks for an app, or for none.  The settings take over the  *)
(* view that was asked for, and the app they come from.                       *)
PinEntered ==
    /\ pin' \in [state: {pin.state}, fails: {pin.fails}, wait: {pin.wait}, unlocked: {pin.unlocked},
                 screen: {"enter", "new1", "new2"}, guardInfo: {pin.guardInfo}, task: {pin.task}]
    /\ pin.screen = "enter" /\ ~pin.task.recovered => pin'.screen = "enter"
    /\ flash' \in [pin: {flash.pin}, fails: {flash.fails}, info: {flash.info}, bad: {flash.bad},
                   calibrated: BOOLEAN]
    /\ UNCHANGED <<report, guesses>>

SettingsEntered ==
    /\ \/ active # "settings" /\ UNCHANGED <<settings, direct>>
       \/ /\ active = "settings" /\ direct' = "none"
          /\ settings'.view = (IF direct = "none" THEN "pages" ELSE direct)
          /\ settings'.direct = direct
          /\ settings' \in [view: SettingsViews, returnTo: Apps \cup {NoApp}, direct: Views]
          /\ \/ settings'.returnTo = settings.returnTo
             \/ shell.from \notin OwnSubscreen /\ settings'.returnTo = shell.from
    /\ returnTo' \in {returnTo, shell.from}
    /\ active = "info" => returnTo' = shell.from
    /\ active = "clock" => returnTo' = returnTo
    /\ wifiActive' \in BOOLEAN

LEMMA EnterKeepsLock ==
    ASSUME IInv, shell.at = "enter",
           NEW ok \in BOOLEAN, NEW app, MayAskFor(app), Entered(ok, SwitchTo(app)),
           active = "touch_calibration" => app \notin {NoApp, "touch_calibration"},
           PinEntered, SettingsEntered, idle' \in {"no", "elapsed", "grace"}
    PROVE  IInv'
<1> USE ShellAssumption, PinAssumption, AppsAssumption
<1>1. SwitchTo(app) \in Switches
    BY SwitchIsTyped DEF MayAskFor
<1>2. /\ \/ /\ shell.round = 0
            /\ shell' = [at |-> "step", from |-> NoApp, hops |-> 0, round |-> 0]
            /\ pending' = Asked(SwitchTo(app))
            /\ errors' \in {0, 1}
         \/ /\ shell.round # 0
            /\ shell' = [at |-> "apply", from |-> NoApp, hops |-> shell.hops + 1,
                         round |-> shell.round]
            /\ \/ pending' = Asked(SwitchTo(app))
               \/ active # home /\ pending' = SwitchTo(home)
            /\ active # home => errors' < MaxErrors
      /\ active' = active /\ home' = home
      /\ errors' \in 0 .. MaxErrors
      /\ pending' \in Switches
    BY <1>1, EnteredDoes DEF IInv
<1>3. home \in {"clock", "settings"} /\ active # NoApp
    BY DEF IInv, ShellShape
<1>4. \/ pending' = pending /\ app = NoApp
      \/ pending' = [to |-> app, from |-> "current"]
      \/ active # home /\ pending' = [to |-> home, from |-> "current"]
    BY <1>2 DEF Asked, SwitchTo, NoSwitch
<1>5. /\ pin' \in [state: {"off", "on", "corrupt"}, fails: 0 .. MaxGuesses, wait: BOOLEAN,
                   unlocked: BOOLEAN, screen: {"enter", "new1", "new2"}, guardInfo: BOOLEAN,
                   task: [flow: {"none", "unlock", "newPin"}, target: Apps \cup {NoApp},
                          origin: Apps \cup {NoApp}, recovered: BOOLEAN]]
      /\ pin'.state = pin.state /\ pin'.fails = pin.fails /\ pin'.unlocked = pin.unlocked
      /\ pin'.guardInfo = pin.guardInfo /\ pin'.task = pin.task
      /\ (pin'.screen # "enter" => pin.screen # "enter" \/ pin.task.recovered)
      /\ report' = report /\ guesses' = guesses
    BY DEF PinEntered, IInv, TypeOK, PinTypeOK
<1>6. /\ flash' \in [pin: {"off", "on", "unreadable"}, fails: 0 .. MaxGuesses, info: BOOLEAN,
                     bad: BOOLEAN, calibrated: BOOLEAN]
      /\ flash'.pin = flash.pin /\ flash'.fails = flash.fails /\ flash'.bad = flash.bad
    BY DEF PinEntered, IInv, TypeOK, PinTypeOK
<1>7. /\ settings' \in [view: SettingsViews, returnTo: Apps \cup {NoApp}, direct: Views]
      /\ returnTo' \in Apps \cup {NoApp} /\ wifiActive' \in BOOLEAN /\ direct' \in Views
    BY DEF SettingsEntered, IInv, TypeOK, ShellTypeOK, PinTypeOK, Views
<1>a. TypeOK'
    <2>1. shell.round = 0 \/ shell.hops + 1 \in 0 .. MaxChain
        BY DEF IInv, ShellShape, TypeOK, ShellTypeOK
    <2>2. ShellTypeOK'
        BY <1>2, <2>1, IInv DEF IInv, TypeOK, ShellTypeOK
    <2> QED BY <1>5, <1>6, <1>7, <2>2, IInv DEF IInv, TypeOK, PinTypeOK
<1>b. ShellShape'
    BY <1>2, <1>3, IInv DEF IInv, ShellShape
<1>c. SwitchShape'
    BY <1>2, <1>4, <1>5, IInv DEF IInv, SwitchShape, Guardable
<1>8. /\ "info" \notin {returnTo', settings'.returnTo}
      /\ home = "settings" => "clock" \notin {returnTo', settings'.returnTo}
      /\ pin.state = "corrupt" => {returnTo', settings'.returnTo} \cap {"settings_pin", "recovery"} = {}
      /\ settings'.returnTo \notin OwnSubscreen \cup {"settings"}
      /\ active = "info" => returnTo' = "clock"
    <2>1. shell.from # "info" \/ active = "clock"
        BY IInv DEF IInv, ClockShape
    <2> QED BY <2>1, IInv DEF IInv, SettingsEntered, ClockShape, CorruptShape, SwitchShape, ReturnOutside, OwnSubscreen
<1>d. ClockShape'
    BY <1>2, <1>3, <1>4, <1>5, <1>8, IInv DEF IInv, ClockShape, FromApp, MayAskFor
<1>e. (MustInitialize' <=> MustInitialize) /\ (OnlyInitialize => OnlyInitialize')
    BY <1>2, <1>6, IInv DEF OnlyInitialize, MustInitialize, SettingsEntered, IInv, TypeOK
<1>f. \A a : (Guarded(a)' <=> Guarded(a)) /\ (InArea(a)' <=> InArea(a))
    BY <1>5 DEF Guarded, InArea
<1>g. LockShape'
    BY <1>2, <1>5, <1>e, <1>f, IInv DEF IInv, LockShape
<1>h. CorruptShape'
    <2>1. ASSUME pin.state = "corrupt", active = "settings" PROVE settings'.direct = "clearNvs"
        BY <2>1, IInv DEF IInv, CorruptShape, Guarded, OnlyInitialize, SettingsEntered
    <2> QED BY <1>2, <1>3, <1>4, <1>5, <1>8, <1>e, <1>f, <2>1, IInv DEF IInv, CorruptShape, MayAskFor
<1>i. NewPinShape'
    BY <1>2, <1>3, <1>4, <1>5, IInv DEF IInv, NewPinShape, Unearned, MayAskFor
<1>j. GuessShape'
    BY <1>2, <1>5, <1>6, IInv DEF IInv, GuessShape, GuessesOutliveRestart
<1>k. SteplessNeverRests'
    BY <1>2, <1>3, <1>4 DEF SteplessNeverRests
<1>l. ReturnOutside'
    BY <1>8 DEF ReturnOutside, OwnSubscreen
<1> QED BY <1>a, <1>b, <1>c, <1>d, <1>g, <1>h, <1>i, <1>j, <1>k, <1>l DEF IInv

-----------------------------------------------------------------------------
(* The actions, one at a time.  Those that enter an app come first. *)
LEMMA NothingAsked == IInv => MayAskFor(NoApp) /\ NoSwitch = SwitchTo(NoApp)
BY ShellAssumption, AppsAssumption DEF IInv, MayAskFor, NoSwitch, SwitchTo

LEMMA PinStays ==
    ASSUME IInv, UNCHANGED pinVars
    PROVE  PinKept /\ PinEntered /\ direct' = direct
BY DEF IInv, TypeOK, PinTypeOK, PinKept, PinEntered, pinVars

LEMMA SettingsStay ==
    ASSUME IInv, UNCHANGED settings, wifiActive' \in BOOLEAN
    PROVE  /\ returnTo' = returnTo => SettingsKept
           /\ active # "settings" /\ UNCHANGED direct /\ active # "clock" /\ Remember => SettingsEntered
           /\ active \notin {"settings", "info"} /\ UNCHANGED direct /\ returnTo' = returnTo =>
                SettingsEntered
BY DEF IInv, TypeOK, SettingsKept, SettingsEntered, Remember

LEMMA EnterClockStep ==
    ASSUME IInv, EnterClock PROVE IInv'
<1>1. /\ shell.at = "enter" /\ active = "clock"
      /\ UNCHANGED <<idle, pinVars, appVars>>
    BY DEF EnterClock, AtEnter
<1>2. PinEntered /\ SettingsEntered /\ idle' \in {"no", "elapsed", "grace"}
    BY <1>1, PinStays, SettingsStay DEF appVars, IInv, TypeOK, ShellTypeOK
<1> PICK subscribed \in BOOLEAN :
        Entered(subscribed, IF subscribed /\ shell.from = NoApp /\ ~flash.calibrated
                            THEN SwitchTo("touch_calibration") ELSE NoSwitch)
    BY DEF EnterClock
<1>3. CASE subscribed /\ shell.from = NoApp /\ ~flash.calibrated
    <2>1. Entered(subscribed, SwitchTo("touch_calibration"))
        BY <1>3
    <2>2. MayAskFor("touch_calibration")
        BY <1>1, <1>3, AppsAssumption DEF IInv, ShellShape, SwitchShape, NewPinShape, Unearned, MayAskFor
    <2> QED BY <1>1, <1>2, <2>1, <2>2, EnterKeepsLock
<1>4. CASE ~(subscribed /\ shell.from = NoApp /\ ~flash.calibrated)
    <2>1. Entered(subscribed, NoSwitch)
        BY <1>4
    <2> QED BY <1>1, <1>2, <2>1, NothingAsked, EnterKeepsLock
<1> QED BY <1>3, <1>4

LEMMA EnterInfoStep ==
    ASSUME IInv, EnterInfo PROVE IInv'
<1>1. /\ shell.at = "enter" /\ active = "info" /\ Remember
      /\ UNCHANGED <<idle, pinVars, settings, wifiActive>>
    BY DEF EnterInfo, AtEnter
<1>2. PinEntered /\ SettingsEntered /\ idle' \in {"no", "elapsed", "grace"}
    BY <1>1, PinStays, SettingsStay DEF IInv, TypeOK, ShellTypeOK
<1>3. PICK ok \in BOOLEAN : Entered(ok, NoSwitch)
    BY DEF EnterInfo
<1> QED BY <1>1, <1>2, <1>3, NothingAsked, EnterKeepsLock

LEMMA EnterCalibrationStep ==
    ASSUME IInv, EnterCalibration PROVE IInv'
<1>1. /\ shell.at = "enter" /\ active = "touch_calibration"
      /\ UNCHANGED <<idle, pin, direct, report, guesses, appVars>>
    BY DEF EnterCalibration, AtEnter
<1>2. PICK done \in BOOLEAN :
        Entered(done, ReturnTo(shell.from)) /\ flash' = [flash EXCEPT !.calibrated = @ \/ done]
    BY DEF EnterCalibration
<1>3. PinEntered
    BY <1>1, <1>2 DEF IInv, TypeOK, PinTypeOK, PinEntered
<1>4. SettingsEntered /\ idle' \in {"no", "elapsed", "grace"}
    BY <1>1, SettingsStay DEF appVars, IInv, TypeOK, ShellTypeOK
<1>5. PICK app : ReturnTo(shell.from) = SwitchTo(app) /\ app = IF shell.from = NoApp THEN home ELSE shell.from
    BY DEF ReturnTo
<1>6. MayAskFor(app)
    BY <1>1, <1>5, ShellAssumption, AppsAssumption
    DEF IInv, TypeOK, ShellTypeOK, ShellShape, ClockShape, CorruptShape, NewPinShape, Unearned, MayAskFor
<1>7. app \notin {NoApp, "touch_calibration"}
    BY <1>1, <1>5, ShellAssumption, AppsAssumption DEF IInv, ShellShape, SwitchShape
<1> QED BY <1>1, <1>2, <1>3, <1>4, <1>5, <1>6, <1>7, EnterKeepsLock

LEMMA EnterWifiSetupStep ==
    ASSUME IInv, EnterWifiSetup PROVE IInv'
<1>1. /\ shell.at = "enter" /\ active = "wifi_setup" /\ Remember
      /\ UNCHANGED <<idle, pinVars, settings>>
    BY DEF EnterWifiSetup, AtEnter
<1>2. PICK begun \in {TRUE, wifiActive} : Entered(begun, NoSwitch) /\ wifiActive' = begun
    BY DEF EnterWifiSetup
<1>3. begun \in BOOLEAN
    BY DEF IInv, TypeOK
<1>4. PinEntered /\ SettingsEntered /\ idle' \in {"no", "elapsed", "grace"}
    BY <1>1, <1>2, <1>3, PinStays, SettingsStay DEF IInv, TypeOK, ShellTypeOK
<1> QED BY <1>1, <1>2, <1>3, <1>4, NothingAsked, EnterKeepsLock

LEMMA EnterClockSettingsStep ==
    ASSUME IInv, EnterClockSettings PROVE IInv'
<1>1. /\ shell.at = "enter" /\ active = "clock_settings" /\ Remember
      /\ UNCHANGED <<idle, pinVars, settings, wifiActive>>
    BY DEF EnterClockSettings, AtEnter
<1>2. PinEntered /\ SettingsEntered /\ idle' \in {"no", "elapsed", "grace"}
    BY <1>1, PinStays, SettingsStay DEF IInv, TypeOK, ShellTypeOK
<1>3. PICK ok \in BOOLEAN : Entered(ok, NoSwitch)
    <2>1. PICK shown \in BOOLEAN : Entered(shown /\ shell.from # NoApp, NoSwitch)
        BY DEF EnterClockSettings
    <2>2. (shown /\ shell.from # NoApp) \in BOOLEAN
        OBVIOUS
    <2> QED BY <2>1, <2>2
<1> QED BY <1>1, <1>2, <1>3, NothingAsked, EnterKeepsLock

LEMMA EnterSettingsStep ==
    ASSUME IInv, EnterSettings PROVE IInv'
<1>1. /\ shell.at = "enter" /\ active = "settings" /\ direct' = "none"
      /\ settings' = [view |-> IF direct = "none" THEN "pages" ELSE direct,
                      returnTo |-> IF shell.from \in OwnSubscreen \cup {NoApp}
                                   THEN settings.returnTo ELSE shell.from,
                      direct |-> direct]
      /\ UNCHANGED <<idle, pin, flash, report, guesses, returnTo, wifiActive>>
    BY DEF EnterSettings, AtEnter
<1>2. PinEntered
    BY <1>1 DEF IInv, TypeOK, PinTypeOK, PinEntered
<1>3. SettingsEntered /\ idle' \in {"no", "elapsed", "grace"}
    BY <1>1 DEF SettingsEntered, IInv, TypeOK, ShellTypeOK, PinTypeOK, Views, SettingsViews
<1>4. PICK ok \in BOOLEAN : Entered(ok, NoSwitch)
    BY DEF EnterSettings
<1> QED BY <1>1, <1>2, <1>3, <1>4, NothingAsked, EnterKeepsLock

LEMMA EnterPinStep ==
    ASSUME IInv, EnterPin, UNCHANGED appVars PROVE IInv'
<1>1. /\ shell.at = "enter" /\ active = "settings_pin"
      /\ UNCHANGED <<idle, flash, direct, report, guesses, appVars>>
      /\ pin' = IF ~BackFromProvider THEN pin
                ELSE [pin EXCEPT !.screen = IF pin.task.recovered THEN "new1" ELSE "enter"]
    BY DEF EnterPin
<1>2. PinEntered
    BY <1>1 DEF IInv, TypeOK, PinTypeOK, PinEntered
<1>3. SettingsEntered /\ idle' \in {"no", "elapsed", "grace"}
    BY <1>1, SettingsStay DEF appVars, IInv, TypeOK, ShellTypeOK
<1>4. CASE pin.task.flow = "none"
    <2>1. Entered(TRUE, ReturnTo(shell.from))
        BY <1>4 DEF EnterPin
    <2>2. PICK app : ReturnTo(shell.from) = SwitchTo(app) /\ app = IF shell.from = NoApp THEN home ELSE shell.from
        BY DEF ReturnTo
    <2>3. MayAskFor(app)
        BY <1>1, <2>2, ShellAssumption, AppsAssumption
        DEF IInv, TypeOK, ShellTypeOK, ShellShape, ClockShape, CorruptShape, NewPinShape, Unearned, MayAskFor
    <2> QED BY <1>1, <1>2, <1>3, <2>1, <2>2, <2>3, EnterKeepsLock
<1>5. CASE pin.task.flow # "none"
    <2>1. PICK ok \in BOOLEAN : Entered(ok, NoSwitch)
        BY <1>5 DEF EnterPin
    <2> QED BY <1>1, <1>2, <1>3, <2>1, NothingAsked, EnterKeepsLock
<1> QED BY <1>4, <1>5

(* Those that step an app, and leave the lock alone. *)
LEMMA ClockStepStep ==
    ASSUME IInv, ClockStep PROVE IInv'
<1>1. shell.at = "step" /\ active = "clock" /\ UNCHANGED <<pinVars, appVars>>
    BY DEF ClockStep, AtStep
<1>2. PinKept /\ SettingsKept
    BY <1>1, PinStays, SettingsStay DEF appVars, IInv, TypeOK
<1>3. idle' \in {"no", "elapsed", "grace"}
    BY DEF ClockStep, Input, IInv, TypeOK, ShellTypeOK
<1>4. PICK app \in {NoApp, "settings", "info", "wifi_setup"}, shown \in BOOLEAN :
        Stepped(shown, SwitchTo(app)) /\ (app = "info" => report = "no")
    <2>1. CASE \E shown \in BOOLEAN : Stepped(shown, NoSwitch)
        BY <2>1, NothingAsked, AppsAssumption, ShellAssumption
    <2>2. CASE Input /\ \E app \in {"settings", "info", "wifi_setup"}, shown \in BOOLEAN :
                Stepped(shown, SwitchTo(app))
        BY <2>2 DEF Input
    <2>3. CASE Stepped(TRUE, SwitchTo("wifi_setup"))
        BY <2>3
    <2> QED BY <2>1, <2>2, <2>3 DEF ClockStep
<1>5. MayAskFor(app)
    BY <1>1, <1>4, ShellAssumption, AppsAssumption
    DEF IInv, ClockShape, MayAskFor
<1> QED BY <1>1, <1>2, <1>3, <1>4, <1>5, StepKeepsLock

LEMMA InfoStepStep ==
    ASSUME IInv, InfoStep PROVE IInv'
<1>1. shell.at = "step" /\ active = "info" /\ UNCHANGED <<pinVars, appVars>>
    BY DEF InfoStep, AtStep
<1>2. PinKept /\ SettingsKept
    BY <1>1, PinStays, SettingsStay DEF appVars, IInv, TypeOK
<1>3. idle' \in {"no", "elapsed", "grace"}
    BY DEF InfoStep, Input, IInv, TypeOK, ShellTypeOK
<1>4. returnTo = "clock" /\ returnTo # NoApp
    BY <1>1, ShellAssumption, AppsAssumption DEF IInv, ClockShape
<1>5. PICK ok \in BOOLEAN, app \in {NoApp, "clock"} : Stepped(ok, SwitchTo(app))
    BY <1>4, NothingAsked DEF InfoStep, ReturnTo
<1>6. MayAskFor(app)
    BY <1>1, <1>5, ShellAssumption, AppsAssumption DEF IInv, ClockShape, MayAskFor
<1> QED BY <1>1, <1>2, <1>3, <1>5, <1>6, StepKeepsLock

LEMMA WifiSetupStepStep ==
    ASSUME IInv, WifiSetupStep PROVE IInv'
<1>1. shell.at = "step" /\ active = "wifi_setup" /\ UNCHANGED <<pinVars, settings, returnTo>>
    BY DEF WifiSetupStep, AtStep
<1>2. wifiActive' \in BOOLEAN /\ idle' \in {"no", "elapsed", "grace"}
    BY DEF WifiSetupStep, Input, IInv, TypeOK, ShellTypeOK
<1>3. PinKept /\ SettingsKept
    BY <1>1, <1>2, PinStays, SettingsStay
<1>4. PICK ok \in BOOLEAN, app \in {NoApp, IF returnTo = NoApp THEN home ELSE returnTo} :
        Stepped(ok, SwitchTo(app))
    BY NothingAsked DEF WifiSetupStep, ReturnTo
<1>5. MayAskFor(app)
    BY <1>1, <1>4, ShellAssumption, AppsAssumption
    DEF IInv, TypeOK, ShellShape, ClockShape, CorruptShape, NewPinShape, Unearned, MayAskFor
<1> QED BY <1>1, <1>2, <1>3, <1>4, <1>5, StepKeepsLock

LEMMA ReturnFromClockSettings ==
    ASSUME IInv, AtStep("clock_settings") PROVE MayAskFor(IF returnTo = NoApp THEN home ELSE returnTo)
BY ShellAssumption, AppsAssumption
DEF AtStep, IInv, TypeOK, ShellShape, ClockShape, CorruptShape, NewPinShape, Unearned, MayAskFor

LEMMA RecoveryStep ==
    ASSUME IInv, Recovery PROVE IInv'
<1>1. active = "recovery" /\ UNCHANGED <<pinVars, appVars>>
    BY DEF Recovery, AtEnter, AtStep
<1>2. PinKept /\ SettingsKept /\ PinEntered /\ SettingsEntered
    BY <1>1, PinStays, SettingsStay DEF appVars, IInv, TypeOK
<1>3. idle' \in {"no", "elapsed", "grace"}
    BY DEF Recovery, Input, IInv, TypeOK, ShellTypeOK
<1>4. CASE shell.at = "enter"
    <2>1. Entered(TRUE, NoSwitch)
        BY <1>4 DEF Recovery, AtStep
    <2> QED BY <1>1, <1>2, <1>3, <1>4, <2>1, NothingAsked, EnterKeepsLock
<1>5. CASE shell.at # "enter"
    <2>1. shell.at = "step"
        BY <1>5 DEF Recovery, AtEnter, AtStep
    <2>2. PICK app \in {NoApp, "settings_pin"} : Stepped(TRUE, SwitchTo(app))
        BY <1>5, NothingAsked DEF Recovery, AtEnter
    <2>3. MayAskFor(app)
        BY <1>1, <2>2, ShellAssumption, AppsAssumption
        DEF IInv, CorruptShape, NewPinShape, Unearned, MayAskFor
    <2> QED BY <1>1, <1>2, <1>3, <2>1, <2>2, <2>3, StepKeepsLock
<1> QED BY <1>4, <1>5

(* The settings' own screens. *)
LEMMA ViewKept ==
    ASSUME IInv, NEW view \in SettingsViews, settings' = [settings EXCEPT !.view = view],
           settings.view = "clearNvs" => ~MustInitialize /\ settings.direct # "clearNvs",
           UNCHANGED <<returnTo, wifiActive>>
    PROVE  SettingsKept
BY DEF SettingsKept, IInv, TypeOK

LEMMA ShowViewStep ==
    ASSUME IInv, shell.at = "step", active = "settings", NEW view \in SettingsViews, ShowView(view),
           settings.view = "clearNvs" => ~MustInitialize /\ settings.direct # "clearNvs",
           PinKept
    PROVE  IInv'
<1>1. SettingsKept
    BY ViewKept DEF ShowView
<1>2. PICK ok \in BOOLEAN : Stepped(ok, NoSwitch)
    BY DEF ShowView
<1>3. idle' \in {"no", "elapsed", "grace"}
    BY DEF ShowView, Input
<1> QED BY <1>1, <1>2, <1>3, NothingAsked, StepKeepsLock

LEMMA SettingsRedrawStep ==
    ASSUME IInv, SettingsRedraw PROVE IInv'
<1>1. shell.at = "step" /\ active = "settings" /\ UNCHANGED <<pinVars, appVars>>
    BY DEF SettingsRedraw, AtSettings, AtStep
<1>2. PinKept /\ SettingsKept /\ idle' \in {"no", "elapsed", "grace"}
    BY <1>1, PinStays, SettingsStay DEF SettingsRedraw, appVars, IInv, TypeOK, ShellTypeOK
<1>3. PICK ok \in BOOLEAN : Stepped(ok, NoSwitch)
    BY DEF SettingsRedraw
<1> QED BY <1>1, <1>2, <1>3, NothingAsked, StepKeepsLock

LEMMA OpenViewStep ==
    ASSUME IInv, OpenView PROVE IInv'
<1>1. PinKept /\ shell.at = "step" /\ active = "settings" /\ settings.view = "pages"
    BY PinStays DEF OpenView, AtSettings, AtStep
<1>2. PICK view \in SettingsViews : ShowView(view)
    BY DEF OpenView, SettingsViews
<1> QED BY <1>1, <1>2, ShowViewStep

(* Who may go back from the settings, and where to. *)
LEMMA SettingsMayReturn ==
    ASSUME IInv, AtStep("settings"),
           settings.view # "clearNvs" \/ ~MustInitialize
    PROVE  MayAskFor(IF settings.returnTo = NoApp THEN home ELSE settings.returnTo)
<1>1. ~Unearned
    BY DEF IInv, LockShape, Guarded, OnlyInitialize, Unearned, AtStep
<1> QED BY <1>1, ShellAssumption, AppsAssumption
    DEF AtStep, IInv, TypeOK, ShellShape, ClockShape, CorruptShape, MayAskFor

LEMMA CloseViewStep ==
    ASSUME IInv, CloseView PROVE IInv'
<1>1. PinKept /\ shell.at = "step" /\ active = "settings"
    BY PinStays DEF CloseView, AtSettings, AtStep
<1>2. CASE \E view \in {"ssids", "clear", "restart", "pinOff"} : AtSettings(view) /\ ShowView("pages")
    BY <1>1, <1>2, ShowViewStep DEF AtSettings, SettingsViews
<1>3. CASE AtSettings("clearNvs") /\ ~MustInitialize /\ settings.direct = "none" /\ ShowView("pages")
    BY <1>1, <1>3, ShowViewStep DEF SettingsViews
<1>4. CASE /\ AtSettings("clearNvs") /\ ~MustInitialize
           /\ Input /\ Stepped(TRUE, ReturnTo(settings.returnTo)) /\ UNCHANGED appVars
    <2>1. SettingsKept /\ idle' \in {"no", "elapsed", "grace"}
        BY <1>4, SettingsStay DEF appVars, Input, IInv, TypeOK
    <2>2. MayAskFor(IF settings.returnTo = NoApp THEN home ELSE settings.returnTo)
        BY <1>4, SettingsMayReturn DEF AtSettings
    <2> QED BY <1>1, <1>4, <2>1, <2>2, StepKeepsLock DEF ReturnTo
<1> QED BY <1>2, <1>3, <1>4 DEF CloseView

LEMMA SettingsBackStep ==
    ASSUME IInv, SettingsBack PROVE IInv'
<1>1. AtStep("settings") /\ shell.at = "step" /\ active = "settings" /\ settings.view = "pages"
    BY DEF SettingsBack, AtSettings, AtStep
<1>2. PinKept /\ SettingsKept /\ idle' \in {"no", "elapsed", "grace"}
    BY PinStays, SettingsStay DEF SettingsBack, Input, appVars, IInv, TypeOK
<1>3. MayAskFor(IF settings.returnTo = NoApp THEN home ELSE settings.returnTo)
    BY <1>1, SettingsMayReturn
<1>4. Stepped(TRUE, SwitchTo(IF settings.returnTo = NoApp THEN home ELSE settings.returnTo))
    BY DEF SettingsBack, ReturnTo
<1> QED BY <1>1, <1>2, <1>3, <1>4, StepKeepsLock

LEMMA OpenSubscreenStep ==
    ASSUME IInv, OpenSubscreen PROVE IInv'
<1>1. shell.at = "step" /\ active = "settings" /\ settings.view = "pages"
    BY DEF OpenSubscreen, AtSettings, AtStep
<1>2. PinKept /\ SettingsKept /\ idle' \in {"no", "elapsed", "grace"}
    BY PinStays, SettingsStay DEF OpenSubscreen, Input, appVars, IInv, TypeOK
<1>3. PICK app \in {"wifi_setup", "touch_calibration", "clock_settings"} : Stepped(TRUE, SwitchTo(app))
    BY DEF OpenSubscreen, OwnSubscreen
<1>4. ~Unearned
    BY <1>1 DEF IInv, LockShape, Guarded, OnlyInitialize, Unearned
<1>5. MayAskFor(app)
    BY <1>1, <1>3, <1>4, AppsAssumption DEF MayAskFor
<1> QED BY <1>1, <1>2, <1>3, <1>5, StepKeepsLock

LEMMA ClearFailsStep ==
    ASSUME IInv, ClearFails PROVE IInv'
<1>1. PinKept /\ shell.at = "step" /\ active = "settings"
    BY PinStays DEF ClearFails, AtSettings, AtStep
<1>2. CASE AtSettings("clear") /\ ShowView("pages")
    BY <1>1, <1>2, ShowViewStep DEF AtSettings, SettingsViews
<1>3. CASE Input /\ Stepped(FALSE, NoSwitch) /\ UNCHANGED appVars
    <2>1. SettingsKept /\ idle' \in {"no", "elapsed", "grace"}
        BY <1>3, SettingsStay DEF appVars, Input, IInv, TypeOK
    <2> QED BY <1>1, <1>3, <2>1, NothingAsked, StepKeepsLock
<1> QED BY <1>2, <1>3 DEF ClearFails

(* The PIN screen, while the lock stays as it is. *)
LEMMA PinScreenStays ==
    ASSUME IInv, ShowPin \/ WrongPin \/ FirstEntry \/ SecondEntryRefused, UNCHANGED appVars PROVE IInv'
<1>1. shell.at \in {"step", "check"} /\ active = "settings_pin"
    BY DEF ShowPin, WrongPin, FirstEntry, SecondEntryRefused, AtPin, IInv, ShellShape
<1>2. PinKept
    <2>1. CASE ShowPin
        BY <2>1, PinStays DEF ShowPin
    <2>2. CASE WrongPin
        <3>1. Waits(pin.fails) \in BOOLEAN
            BY DEF Waits
        <3> QED BY <2>2, <3>1 DEF WrongPin, IInv, TypeOK, PinTypeOK, PinKept
    <2>3. CASE FirstEntry \/ SecondEntryRefused
        BY <2>3 DEF FirstEntry, SecondEntryRefused, NewScreen, IInv, TypeOK, PinTypeOK, PinKept
    <2> QED BY <2>1, <2>2, <2>3
<1>3. SettingsKept /\ idle' \in {"no", "elapsed", "grace"}
    BY SettingsStay DEF appVars, ShowPin, WrongPin, FirstEntry, SecondEntryRefused, Input,
                        IInv, TypeOK, ShellTypeOK
<1>4. PICK ok \in BOOLEAN : Stepped(ok, NoSwitch)
    BY DEF ShowPin, WrongPin, FirstEntry, SecondEntryRefused, NewScreen
<1> QED BY <1>1, <1>2, <1>3, <1>4, NothingAsked, StepKeepsLock

-----------------------------------------------------------------------------
(* Those that step an app and change the lock. *)
LEMMA StepShape ==
    ASSUME IInv, NEW ok \in BOOLEAN, NEW switch \in Switches, Stepped(ok, switch),
           idle' \in {"no", "elapsed", "grace"}
    PROVE  ShellTypeOK' /\ ((shell.at # "off" /\ active # NoApp) => ShellShape')
<1>1. /\ shell' = [at |-> "apply", from |-> NoApp, hops |-> 0, round |-> 1]
      /\ active' = active /\ home' = home
      /\ errors' \in 0 .. MaxErrors /\ (active # home => errors' < MaxErrors)
      /\ pending' \in Switches
    BY SteppedDoes DEF IInv
<1>2. ShellTypeOK'
    BY <1>1, ShellAssumption DEF IInv, TypeOK, ShellTypeOK
<1>3. ASSUME shell.at # "off", active # NoApp PROVE ShellShape'
    BY <1>1, <1>3, ShellAssumption DEF IInv, ShellShape
<1> QED BY <1>2, <1>3

LEMMA RelockStep ==
    ASSUME IInv, Relock PROVE IInv'
<1> USE ShellAssumption, PinAssumption, AppsAssumption
<1>1. /\ shell.at = "step" /\ active = "settings" /\ pin.state = "on" /\ pin.unlocked
      /\ pin' = Unlocking("settings", NoApp)
      /\ UNCHANGED <<idle, flash, direct, report, guesses, settings, returnTo, wifiActive>>
    BY DEF Relock, Relocks, AtStep, appVars
<1>2. /\ Stepped(TRUE, SwitchTo("settings_pin")) /\ SwitchTo("settings_pin") \in Switches
      /\ SwitchTo("settings_pin") = [to |-> "settings_pin", from |-> "current"]
    BY SwitchIsTyped DEF Relock, SwitchTo
<1>3. /\ shell' = [at |-> "apply", from |-> NoApp, hops |-> 0, round |-> 1]
      /\ active' = active /\ home' = home
      /\ pending' = [to |-> "settings_pin", from |-> "current"]
    BY <1>2, SteppedDoes DEF IInv, Asked, NoSwitch
<1>4. ShellTypeOK' /\ ShellShape'
    BY <1>1, <1>2, StepShape DEF IInv, TypeOK, ShellTypeOK
<1>5. /\ PinTypeOK'
      /\ pin'.state = "on" /\ ~pin'.unlocked /\ pin'.screen = "enter" /\ pin'.fails = pin.fails
      /\ pin'.guardInfo = pin.guardInfo
      /\ pin'.task = [flow |-> "unlock", target |-> "settings", origin |-> NoApp, recovered |-> FALSE]
    BY <1>1 DEF IInv, TypeOK, PinTypeOK, Unlocking
<1>a. TypeOK'
    BY <1>1, <1>4, <1>5 DEF IInv, TypeOK
<1>b. SwitchShape' /\ ClockShape'
    BY <1>1, <1>3, <1>5 DEF IInv, SwitchShape, ClockShape, Guardable, FromApp
<1>c. LockShape' /\ CorruptShape'
    BY <1>1, <1>3, <1>5 DEF IInv, LockShape, CorruptShape
<1>d. NewPinShape'
    BY <1>5 DEF NewPinShape, Unearned
<1>e. GuessShape' /\ ReturnOutside' /\ SteplessNeverRests'
    BY <1>1, <1>3, <1>5 DEF IInv, GuessShape, GuessesOutliveRestart, ReturnOutside, SteplessNeverRests
<1> QED BY <1>4, <1>a, <1>b, <1>c, <1>d, <1>e DEF IInv

LEMMA BeginNewPinStep ==
    ASSUME IInv, BeginNewPin PROVE IInv'
<1> USE ShellAssumption, PinAssumption, AppsAssumption
<1>1. /\ shell.at = "step" /\ active = "settings" /\ settings.view = "pages" /\ idle' = "no"
      /\ pin' = NewPinFlow
      /\ UNCHANGED <<flash, direct, report, guesses, settings, returnTo, wifiActive>>
    BY DEF BeginNewPin, AtSettings, AtStep, Input, appVars
<1>2. /\ Stepped(TRUE, SwitchTo("settings_pin")) /\ SwitchTo("settings_pin") \in Switches
      /\ SwitchTo("settings_pin") = [to |-> "settings_pin", from |-> "current"]
    BY SwitchIsTyped DEF BeginNewPin, SwitchTo
<1>3. /\ shell' = [at |-> "apply", from |-> NoApp, hops |-> 0, round |-> 1]
      /\ active' = active /\ home' = home
      /\ pending' = [to |-> "settings_pin", from |-> "current"]
    BY <1>2, SteppedDoes DEF IInv, Asked, NoSwitch
<1>4. ShellTypeOK' /\ ShellShape'
    BY <1>1, <1>2, StepShape
<1>5. /\ PinTypeOK'
      /\ pin'.state = pin.state /\ pin'.unlocked = pin.unlocked /\ pin'.fails = pin.fails
      /\ pin'.guardInfo = pin.guardInfo
      /\ pin'.task = [flow |-> "newPin", target |-> "settings", origin |-> NoApp, recovered |-> FALSE]
    BY <1>1 DEF IInv, TypeOK, PinTypeOK, NewPinFlow
<1>6. pin.state # "corrupt" /\ (pin.state = "on" => pin.unlocked)
    BY <1>1 DEF IInv, LockShape, CorruptShape, Guarded, OnlyInitialize
<1>a. TypeOK'
    BY <1>1, <1>4, <1>5 DEF IInv, TypeOK
<1>b. SwitchShape' /\ ClockShape'
    BY <1>1, <1>3, <1>5 DEF IInv, SwitchShape, ClockShape, Guardable, FromApp
<1>c. LockShape' /\ CorruptShape' /\ NewPinShape'
    BY <1>1, <1>3, <1>5, <1>6 DEF IInv, LockShape, CorruptShape, NewPinShape, Unearned, InArea, Guarded
<1>e. GuessShape' /\ ReturnOutside' /\ SteplessNeverRests'
    BY <1>1, <1>3, <1>5 DEF IInv, GuessShape, GuessesOutliveRestart, ReturnOutside, SteplessNeverRests
<1> QED BY <1>4, <1>a, <1>b, <1>c, <1>e DEF IInv

(* What the first of these steps leaves pending. *)
LEMMA NothingNewPending ==
    ASSUME IInv, NEW ok \in BOOLEAN, Stepped(ok, NoSwitch)
    PROVE  /\ shell' = [at |-> "apply", from |-> NoApp, hops |-> 0, round |-> 1]
           /\ active' = active /\ home' = home
           /\ \/ pending' = pending
              \/ pending' = [to |-> home, from |-> "current"]
<1>1. NoSwitch \in Switches
    BY DEF NoSwitch, Switches
<1> QED BY <1>1, SteppedDoes DEF IInv, Asked, SwitchTo

LEMMA NoGuesses == 0 \in 0 .. MaxGuesses
BY PinAssumption

LEMMA PinErased ==
    ASSUME PinTypeOK, flash' = [flash EXCEPT !.pin = "off", !.fails = 0]
    PROVE  /\ flash' \in [pin: {"off", "on", "unreadable"}, fails: 0 .. MaxGuesses, info: BOOLEAN,
                           bad: BOOLEAN, calibrated: BOOLEAN]
           /\ flash'.pin = "off" /\ flash'.fails = 0
BY NoGuesses DEF PinTypeOK

LEMMA TurnOffStep ==
    ASSUME IInv, TurnOff PROVE IInv'
<1> USE ShellAssumption, PinAssumption, AppsAssumption
<1>1. /\ shell.at = "step" /\ active = "settings" /\ idle' = "no" /\ guesses' = 0
      /\ pin' = TurnedOff /\ flash' = [flash EXCEPT !.pin = "off", !.fails = 0]
      /\ settings' = [settings EXCEPT !.view = "pages"]
      /\ UNCHANGED <<direct, report, returnTo, wifiActive>>
    BY DEF TurnOff, AtSettings, AtStep, Input, ShowView
<1>2. PICK ok \in BOOLEAN : Stepped(ok, NoSwitch)
    BY DEF TurnOff, ShowView
<1>3. NoSwitch \in Switches
    BY DEF NoSwitch, Switches
<1>4. /\ shell' = [at |-> "apply", from |-> NoApp, hops |-> 0, round |-> 1]
      /\ active' = active /\ home' = home
      /\ \/ pending' = pending
         \/ pending' = [to |-> home, from |-> "current"]
    BY <1>2, NothingNewPending
<1>5. ShellTypeOK' /\ ShellShape'
    BY <1>1, <1>2, <1>3, StepShape
<1>6. /\ PinTypeOK' /\ settings' \in [view: SettingsViews, returnTo: Apps \cup {NoApp}, direct: Views]
      /\ pin'.state = "off" /\ ~pin'.unlocked /\ flash'.pin = "off"
      /\ settings'.returnTo = settings.returnTo
      /\ pin'.task = [flow |-> "none", target |-> NoApp, origin |-> NoApp, recovered |-> FALSE]
    <2>1. /\ pin'.state = "off" /\ ~pin'.unlocked /\ flash'.pin = "off"
          /\ pin'.task = [flow |-> "none", target |-> NoApp, origin |-> NoApp, recovered |-> FALSE]
        BY <1>1 DEF IInv, TypeOK, PinTypeOK, TurnedOff, NoFlow
    <2>2. PinTypeOK'
        BY <1>1, NoGuesses DEF IInv, TypeOK, PinTypeOK, TurnedOff, NoFlow
    <2>3. /\ settings' \in [view: SettingsViews, returnTo: Apps \cup {NoApp}, direct: Views]
          /\ settings'.returnTo = settings.returnTo
        BY <1>1 DEF IInv, TypeOK, SettingsViews
    <2> QED BY <2>1, <2>2, <2>3
<1>a. TypeOK'
    BY <1>1, <1>5, <1>6 DEF IInv, TypeOK
<1>b. SwitchShape' /\ ClockShape'
    BY <1>1, <1>4, <1>6 DEF IInv, ShellShape, SwitchShape, ClockShape, Guardable, FromApp
<1>c. LockShape' /\ CorruptShape' /\ NewPinShape' /\ GuessShape'
    BY <1>6 DEF LockShape, CorruptShape, NewPinShape, Unearned, GuessShape, GuessesOutliveRestart
<1>d. ReturnOutside' /\ SteplessNeverRests'
    BY <1>1, <1>4, <1>6 DEF IInv, ReturnOutside, SteplessNeverRests
<1> QED BY <1>5, <1>a, <1>b, <1>c, <1>d DEF IInv

LEMMA TurnOffFailsStep ==
    ASSUME IInv, TurnOffFails PROVE IInv'
<1> USE ShellAssumption, PinAssumption, AppsAssumption
<1>1. /\ shell.at = "step" /\ active = "settings" /\ settings.view = "pinOff" /\ idle' = "no"
      /\ flash' \in {flash, [flash EXCEPT !.pin = "off", !.fails = 0]}
      /\ UNCHANGED <<pin, direct, report, guesses, settings, returnTo, wifiActive>>
      /\ Stepped(FALSE, NoSwitch)
    BY DEF TurnOffFails, AtSettings, AtStep, Input, appVars
<1>3. NoSwitch \in Switches
    BY DEF NoSwitch, Switches
<1>4. /\ shell' = [at |-> "apply", from |-> NoApp, hops |-> 0, round |-> 1]
      /\ active' = active /\ home' = home
      /\ \/ pending' = pending
         \/ pending' = [to |-> home, from |-> "current"]
    BY <1>1, NothingNewPending
<1>5. ShellTypeOK' /\ ShellShape'
    BY <1>1, <1>3, StepShape
<1>6. PinTypeOK' /\ ((flash'.pin = flash.pin /\ flash'.fails = flash.fails) \/ flash'.pin = "off")
    <2>1. CASE flash' = flash
        BY <1>1, <2>1 DEF IInv, TypeOK, PinTypeOK
    <2>2. CASE flash' = [flash EXCEPT !.pin = "off", !.fails = 0]
        BY <1>1, <2>2, PinErased DEF IInv, TypeOK, PinTypeOK
    <2> QED BY <1>1, <2>1, <2>2
<1>7. pin.state # "corrupt" /\ (pin.state = "on" => pin.unlocked)
    BY <1>1 DEF IInv, LockShape, CorruptShape, Guarded, OnlyInitialize
<1>a. TypeOK'
    BY <1>1, <1>5, <1>6 DEF IInv, TypeOK
<1>b. SwitchShape' /\ ClockShape'
    BY <1>1, <1>4 DEF IInv, ShellShape, SwitchShape, ClockShape, Guardable, FromApp
<1>c. LockShape' /\ CorruptShape' /\ NewPinShape'
    BY <1>1, <1>4, <1>7 DEF IInv, LockShape, CorruptShape, NewPinShape, Unearned, InArea, Guarded
<1>d. GuessShape'
    BY <1>1, <1>4, <1>6 DEF IInv, GuessShape, GuessesOutliveRestart
<1>e. ReturnOutside' /\ SteplessNeverRests'
    BY <1>1, <1>4 DEF IInv, ReturnOutside, SteplessNeverRests
<1> QED BY <1>5, <1>a, <1>b, <1>c, <1>d, <1>e DEF IInv

LEMMA GuardInfoStep ==
    ASSUME IInv, AtStep("clock_settings"), Input,
           flash' = [flash EXCEPT !.info = ~pin.guardInfo],
           pin' = [pin EXCEPT !.guardInfo = ~pin.guardInfo],
           NEW ok \in BOOLEAN, Stepped(ok, NoSwitch),
           UNCHANGED <<direct, report, guesses, appVars>>
    PROVE  IInv'
<1> USE ShellAssumption, PinAssumption, AppsAssumption
<1>1. /\ shell.at = "step" /\ active = "clock_settings" /\ idle' = "no"
      /\ UNCHANGED <<direct, report, guesses, settings, returnTo, wifiActive>>
    BY DEF AtStep, Input, appVars
<1>2. NoSwitch \in Switches
    BY DEF NoSwitch, Switches
<1>3. /\ shell' = [at |-> "apply", from |-> NoApp, hops |-> 0, round |-> 1]
      /\ active' = active /\ home' = home
      /\ \/ pending' = pending
         \/ pending' = [to |-> home, from |-> "current"]
    BY NothingNewPending
<1>4. ShellTypeOK' /\ ShellShape'
    BY <1>1, <1>2, StepShape
<1>5. /\ PinTypeOK'
      /\ pin'.state = pin.state /\ pin'.unlocked = pin.unlocked /\ pin'.fails = pin.fails
      /\ pin'.screen = pin.screen /\ pin'.task = pin.task
      /\ flash'.pin = flash.pin /\ flash'.fails = flash.fails
    BY <1>1 DEF IInv, TypeOK, PinTypeOK
<1>a. TypeOK'
    BY <1>1, <1>4, <1>5 DEF IInv, TypeOK
<1>b. SwitchShape' /\ ClockShape'
    BY <1>1, <1>3, <1>5 DEF IInv, ShellShape, SwitchShape, ClockShape, Guardable, FromApp
<1>c. LockShape' /\ CorruptShape' /\ NewPinShape'
    BY <1>1, <1>3, <1>5 DEF IInv, ShellShape, LockShape, CorruptShape, NewPinShape, Unearned, InArea,
                            Guarded, OnlyInitialize
<1>d. GuessShape' /\ ReturnOutside' /\ SteplessNeverRests'
    BY <1>1, <1>3, <1>5 DEF IInv, GuessShape, GuessesOutliveRestart, ReturnOutside, SteplessNeverRests
<1> QED BY <1>4, <1>a, <1>b, <1>c, <1>d DEF IInv

LEMMA ClockSettingsStepStep ==
    ASSUME IInv, ClockSettingsStep PROVE IInv'
<1>1. /\ AtStep("clock_settings") /\ shell.at = "step" /\ active = "clock_settings"
      /\ UNCHANGED <<direct, report, guesses, appVars>>
    BY DEF ClockSettingsStep, AtStep
<1>2. SettingsKept
    BY <1>1, SettingsStay DEF appVars, IInv, TypeOK
<1>3. CASE /\ idle' \in {idle, "no"}
           /\ \E done \in BOOLEAN : Stepped(done, NoSwitch)
           /\ UNCHANGED <<pin, flash>>
    <2>1. PinKept /\ idle' \in {"no", "elapsed", "grace"}
        BY <1>1, <1>3, PinStays DEF pinVars, IInv, TypeOK, ShellTypeOK
    <2> QED BY <1>1, <1>2, <1>3, <2>1, NothingAsked, StepKeepsLock
<1>4. CASE /\ Input /\ Stepped(TRUE, ReturnTo(returnTo))
           /\ UNCHANGED <<pin, flash>>
    <2>1. PinKept /\ idle' \in {"no", "elapsed", "grace"}
        BY <1>1, <1>4, PinStays DEF pinVars, Input
    <2>2. MayAskFor(IF returnTo = NoApp THEN home ELSE returnTo)
        BY <1>1, ReturnFromClockSettings
    <2> QED BY <1>1, <1>2, <1>4, <2>1, <2>2, StepKeepsLock DEF ReturnTo
<1>5. CASE /\ Input
           /\ flash' = [flash EXCEPT !.info = ~pin.guardInfo]
           /\ pin' = [pin EXCEPT !.guardInfo = ~pin.guardInfo]
           /\ \E shown \in BOOLEAN : Stepped(shown, NoSwitch)
    BY <1>1, <1>5, GuardInfoStep
<1> QED BY <1>3, <1>4, <1>5 DEF ClockSettingsStep

LEMMA OneMoreGuess ==
    ASSUME NEW n \in 0 .. MaxGuesses
    PROVE  OneMore(n) \in 0 .. MaxGuesses
BY PinAssumption DEF OneMore

LEMMA CountGuessStep ==
    ASSUME IInv, CountGuess, UNCHANGED appVars PROVE IInv'
<1> USE ShellAssumption, PinAssumption, AppsAssumption
<1>1. /\ shell.at = "step" /\ active = "settings_pin" /\ report = "no" /\ idle' = "no"
      /\ pin' = [pin EXCEPT !.fails = OneMore(@)]
      /\ shell' = [shell EXCEPT !.at = "check"]
      /\ UNCHANGED <<active, home, pending, errors, direct, report, settings, returnTo, wifiActive>>
    BY DEF CountGuess, AtPin, Input, appVars
<1>2. OneMore(pin.fails) \in 0 .. MaxGuesses /\ OneMore(guesses) \in 0 .. MaxGuesses
    BY OneMoreGuess DEF IInv, TypeOK, PinTypeOK
<1>3. guesses <= pin.fails => OneMore(guesses) <= OneMore(pin.fails)
    BY DEF IInv, TypeOK, PinTypeOK, OneMore
<1>4. \/ /\ flash' = [flash EXCEPT !.fails = OneMore(pin.fails)] /\ flash'.fails = OneMore(pin.fails)
         /\ guesses' = OneMore(guesses)
      \/ UNCHANGED <<flash, guesses>>
    BY DEF CountGuess, IInv, TypeOK, PinTypeOK
<1>5. PinTypeOK'
    BY <1>1, <1>2, <1>4 DEF IInv, TypeOK, PinTypeOK
<1>6. /\ pin'.state = pin.state /\ pin'.unlocked = pin.unlocked /\ pin'.fails = OneMore(pin.fails)
      /\ pin'.screen = pin.screen /\ pin'.task = pin.task /\ pin'.guardInfo = pin.guardInfo
    BY <1>1 DEF IInv, TypeOK, PinTypeOK
<1>7. /\ shell'.at = "check" /\ shell'.from = shell.from /\ shell'.round = shell.round
      /\ shell'.hops = shell.hops
    BY <1>1 DEF IInv, TypeOK, ShellTypeOK
<1>8. flash'.pin = flash.pin
    BY <1>4 DEF IInv, TypeOK, PinTypeOK
<1>a. TypeOK'
    BY <1>1, <1>5 DEF IInv, TypeOK, ShellTypeOK
<1>b. ShellShape'
    BY <1>1, <1>6, <1>7 DEF IInv, ShellShape
<1>c. SwitchShape' /\ ClockShape'
    BY <1>1, <1>6, <1>7 DEF IInv, SwitchShape, ClockShape, FromApp
<1>d. LockShape' /\ CorruptShape' /\ NewPinShape'
    BY <1>1, <1>6, <1>7 DEF IInv, LockShape, CorruptShape, NewPinShape, Unearned, InArea, Guarded
<1>e. GuessShape'
    <2>1. pin.state # "corrupt" /\ (pin.state = "on" => guesses <= pin.fails)
          /\ (pin.state = "off" => flash.pin = "off")
        BY <1>1 DEF IInv, CorruptShape, GuessShape
    <2>2. pin.state \in {"off", "on", "corrupt"}
        BY DEF IInv, TypeOK, PinTypeOK
    <2>3. pin.fails <= OneMore(pin.fails)
        BY DEF IInv, TypeOK, PinTypeOK, OneMore
    <2>4. pin'.state = "on" => guesses' <= pin'.fails
        BY <1>2, <1>3, <1>4, <1>6, <2>1, <2>3 DEF IInv, TypeOK, PinTypeOK
    <2>5. flash'.pin = "on" => guesses' <= flash'.fails
        BY <1>3, <1>4, <1>8, <2>1, <2>2 DEF IInv, GuessShape, GuessesOutliveRestart
    <2> QED BY <1>6, <1>8, <2>1, <2>4, <2>5 DEF GuessShape, GuessesOutliveRestart
<1>f. ReturnOutside' /\ SteplessNeverRests'
    BY <1>1, <1>7 DEF IInv, ReturnOutside, SteplessNeverRests
<1> QED BY <1>a, <1>b, <1>c, <1>d, <1>e, <1>f DEF IInv

(* The PIN screen hands the user on, the flow over. *)
LEMMA ContinueDoes ==
    ASSUME IInv, shell.at \in {"step", "check"}, active = "settings_pin", report = "no", Continue
    PROVE  /\ shell' = [at |-> "apply", from |-> NoApp, hops |-> 0, round |-> 1]
           /\ active' = active /\ home' = home
           /\ \/ pending' = pending
              \/ pending' = [to |-> home, from |-> "current"]
              \/ /\ pin.task.target # NoApp
                 /\ pending' = [to |-> pin.task.target, from |-> pin.task.origin]
           /\ idle' \in {"no", "elapsed", "grace"} => ShellTypeOK' /\ ShellShape'
<1> USE ShellAssumption, AppsAssumption
<1>1. active # NoApp /\ shell.at # "off"
    OBVIOUS
<1>2. CASE pin.task.target = NoApp
    <2>1. Stepped(FALSE, NoSwitch)
        BY <1>2 DEF Continue
    <2>2. NoSwitch \in Switches
        BY DEF NoSwitch, Switches
    <2>3. idle' \in {"no", "elapsed", "grace"} => ShellTypeOK' /\ ShellShape'
        BY <1>1, <2>1, <2>2, StepShape
    <2>4. /\ shell' = [at |-> "apply", from |-> NoApp, hops |-> 0, round |-> 1]
          /\ active' = active /\ home' = home
          /\ \/ pending' = pending
             \/ pending' = [to |-> home, from |-> "current"]
        BY <2>1, NothingNewPending
    <2> QED BY <2>3, <2>4
<1>3. CASE pin.task.target # NoApp
    <2> DEFINE switch == SwitchToFrom(pin.task.target, pin.task.origin)
    <2>1. Stepped(TRUE, switch)
        BY <1>3 DEF Continue
    <2>2. switch \in Switches
        BY SwitchIsTyped DEF IInv, TypeOK, PinTypeOK
    <2>3. switch = [to |-> pin.task.target, from |-> pin.task.origin]
        BY DEF SwitchToFrom
    <2>4. switch # NoSwitch
        BY <1>3, <2>3 DEF NoSwitch
    <2> HIDE DEF switch
    <2>5. idle' \in {"no", "elapsed", "grace"} => ShellTypeOK' /\ ShellShape'
        BY <1>1, <2>1, <2>2, StepShape
    <2>6. /\ shell' = [at |-> "apply", from |-> NoApp, hops |-> 0, round |-> 1]
          /\ active' = active /\ home' = home
          /\ pending' = switch
        BY <2>1, <2>2, <2>4, SteppedDoes DEF IInv, Asked
    <2> QED BY <1>3, <2>3, <2>5, <2>6
<1> QED BY <1>2, <1>3

(* RightPin and StoreNewPin both unlock, and forget the flow. *)
LEMMA UnlockStep ==
    ASSUME IInv, shell.at \in {"step", "check"}, active = "settings_pin", report = "no",
           idle' \in {"no", "elapsed", "grace"},
           pin' = Accepted([pin EXCEPT !.state = "on", !.fails = 0, !.wait = FALSE]),
           flash' \in [pin: {"off", "on", "unreadable"}, fails: 0 .. MaxGuesses, info: BOOLEAN,
                       bad: BOOLEAN, calibrated: BOOLEAN],
           guesses' = 0,
           \/ Continue
           \/ pin.task.flow # "unlock" /\ Stepped(TRUE, BackFromNewPin),
           UNCHANGED <<direct, report, appVars>>
    PROVE  IInv'
<1> USE ShellAssumption, PinAssumption, AppsAssumption
<1>1. /\ PinTypeOK'
      /\ pin'.state = "on" /\ pin'.unlocked /\ pin'.fails = 0 /\ pin'.guardInfo = pin.guardInfo
      /\ pin'.task = [flow |-> "none", target |-> NoApp, origin |-> NoApp, recovered |-> FALSE]
    BY NoGuesses DEF IInv, TypeOK, PinTypeOK, Accepted, NoFlow
<1>2. UNCHANGED <<direct, report, settings, returnTo, wifiActive>>
    BY DEF appVars
<1>3. /\ shell' = [at |-> "apply", from |-> NoApp, hops |-> 0, round |-> 1]
      /\ active' = active /\ home' = home
      /\ \/ pending' = pending
         \/ pending' = [to |-> home, from |-> "current"]
         \/ /\ pin.task.target # NoApp
            /\ pending' = [to |-> pin.task.target, from |-> pin.task.origin]
         \/ pending' = [to |-> "settings", from |-> "current"]
      /\ ShellTypeOK' /\ ShellShape'
    <2>1. CASE Continue
        BY <2>1, ContinueDoes
    <2>2. CASE pin.task.flow # "unlock" /\ Stepped(TRUE, BackFromNewPin)
        <3>1. pin.task.target \in {"settings", NoApp}
            BY <2>2 DEF IInv, SwitchShape
        <3>2. BackFromNewPin = SwitchTo("settings")
            BY <3>1 DEF BackFromNewPin
        <3>3. SwitchTo("settings") \in Switches /\ SwitchTo("settings") # NoSwitch
              /\ SwitchTo("settings") = [to |-> "settings", from |-> "current"]
            BY SwitchIsTyped DEF SwitchTo, NoSwitch
        <3>4. /\ shell' = [at |-> "apply", from |-> NoApp, hops |-> 0, round |-> 1]
              /\ active' = active /\ home' = home
              /\ pending' = [to |-> "settings", from |-> "current"]
            BY <2>2, <3>2, <3>3, SteppedDoes DEF IInv, Asked
        <3>5. ShellTypeOK' /\ ShellShape'
            BY <2>2, <3>2, <3>3, StepShape
        <3> QED BY <3>4, <3>5
    <2> QED BY <2>1, <2>2
<1>a. TypeOK'
    BY <1>1, <1>2, <1>3 DEF IInv, TypeOK
<1>b. SwitchShape'
    BY <1>1, <1>3 DEF IInv, ShellShape, SwitchShape, Guardable
<1>c. ClockShape'
    BY <1>1, <1>2, <1>3 DEF IInv, ShellShape, ClockShape, FromApp
<1>d. LockShape' /\ CorruptShape' /\ NewPinShape'
    BY <1>1, <1>3 DEF LockShape, CorruptShape, NewPinShape, Unearned, InArea
<1>e. GuessShape'
    BY <1>1 DEF IInv, TypeOK, PinTypeOK, GuessShape, GuessesOutliveRestart
<1>f. ReturnOutside' /\ SteplessNeverRests'
    BY <1>2, <1>3 DEF IInv, ReturnOutside, SteplessNeverRests
<1> QED BY <1>3, <1>a, <1>b, <1>c, <1>d, <1>e, <1>f DEF IInv

LEMMA RightPinStep ==
    ASSUME IInv, RightPin, UNCHANGED appVars PROVE IInv'
<1>1. /\ shell.at = "check" /\ active = "settings_pin" /\ report = "no" /\ pin.state = "on"
      /\ guesses' = 0 /\ Continue /\ UNCHANGED <<idle, direct, report, appVars>>
    BY DEF RightPin, IInv, ShellShape
<1>2. pin' = Accepted([pin EXCEPT !.state = "on", !.fails = 0, !.wait = FALSE])
    BY <1>1 DEF RightPin, Accepted, IInv, TypeOK, PinTypeOK
<1>3. flash' \in [pin: {"off", "on", "unreadable"}, fails: 0 .. MaxGuesses, info: BOOLEAN,
                  bad: BOOLEAN, calibrated: BOOLEAN]
    BY NoGuesses DEF RightPin, IInv, TypeOK, PinTypeOK
<1>4. idle' \in {"no", "elapsed", "grace"}
    BY <1>1 DEF IInv, TypeOK, ShellTypeOK
<1> QED BY <1>1, <1>2, <1>3, <1>4, UnlockStep

LEMMA StoreNewPinStep ==
    ASSUME IInv, StoreNewPin, UNCHANGED appVars PROVE IInv'
<1>1. /\ shell.at = "step" /\ active = "settings_pin" /\ report = "no" /\ idle' = "no"
      /\ guesses' = 0 /\ UNCHANGED <<direct, report, appVars>>
      /\ pin' = Accepted([pin EXCEPT !.state = "on", !.fails = 0, !.wait = FALSE])
      /\ \/ Continue
         \/ pin.task.flow # "unlock" /\ Stepped(TRUE, BackFromNewPin)
    BY DEF StoreNewPin, AtPin, Input
<1>2. flash' \in [pin: {"off", "on", "unreadable"}, fails: 0 .. MaxGuesses, info: BOOLEAN,
                  bad: BOOLEAN, calibrated: BOOLEAN]
    BY NoGuesses DEF StoreNewPin, IInv, TypeOK, PinTypeOK
<1> QED BY <1>1, <1>2, UnlockStep

(* Cancel, and the way to the recovery provider: a switch away from the PIN   *)
(* screen, or none, and the flow over or begun again.                         *)
LEMMA LeavePinStep ==
    ASSUME IInv, shell.at = "step", active = "settings_pin", report = "no", idle' = "no",
           NEW ok \in BOOLEAN, NEW app, Stepped(ok, SwitchTo(app)),
           app \in {NoApp, "settings", "recovery", CancelGoesTo},
           pin' \in [state: {pin.state}, fails: {pin.fails}, wait: {pin.wait}, unlocked: {pin.unlocked},
                     screen: {"enter", "new1", "new2"}, guardInfo: {pin.guardInfo},
                     task: [flow: {"none", "unlock", "newPin"}, target: Apps \cup {NoApp},
                            origin: Apps \cup {NoApp}, recovered: BOOLEAN]],
           pin'.screen = "enter" \/ pin.state # "on" \/ pin.unlocked,
           pin'.task \in {NoFlow, [pin.task EXCEPT !.recovered = FALSE]},
           direct' \in Views,
           UNCHANGED <<flash, report, guesses, appVars>>
    PROVE  IInv'
<1> USE ShellAssumption, PinAssumption, AppsAssumption
<1>1. UNCHANGED <<settings, returnTo, wifiActive>>
    BY DEF appVars
<1>2. home \in {"clock", "settings"} /\ pin.task.origin \in Apps \cup {NoApp}
      /\ home \in Apps
    BY DEF IInv, ShellShape, TypeOK, PinTypeOK
<1>3. app \in Apps \cup {NoApp} /\ app # "info" /\ (home = "settings" => app # "clock")
    BY <1>2 DEF CancelGoesTo, IInv, ClockShape
<1>4. SwitchTo(app) \in Switches
    BY <1>3, SwitchIsTyped
<1>5. /\ shell' = [at |-> "apply", from |-> NoApp, hops |-> 0, round |-> 1]
      /\ active' = active /\ home' = home
      /\ \/ pending' = pending
         \/ pending' = [to |-> home, from |-> "current"]
         \/ pending' = [to |-> app, from |-> "current"]
    BY <1>4, SteppedDoes DEF IInv, Asked, SwitchTo
<1>6. ShellTypeOK' /\ ShellShape'
    BY <1>4, StepShape
<1>7. /\ PinTypeOK'
      /\ pin'.state = pin.state /\ pin'.fails = pin.fails /\ pin'.unlocked = pin.unlocked
      /\ pin'.guardInfo = pin.guardInfo
    BY DEF IInv, TypeOK, PinTypeOK
<1>8. /\ pin'.task.flow \in {"none", pin.task.flow}
      /\ \/ pin'.task.target = NoApp /\ pin'.task.origin = NoApp
         \/ /\ pin'.task.flow = pin.task.flow
            /\ pin'.task.target = pin.task.target /\ pin'.task.origin = pin.task.origin
    BY DEF NoFlow, IInv, TypeOK, PinTypeOK
<1>9. pin.state # "corrupt"
    BY DEF IInv, CorruptShape
<1>a. TypeOK'
    BY <1>1, <1>6, <1>7 DEF IInv, TypeOK
<1>b. SwitchShape'
    BY <1>3, <1>5, <1>8 DEF IInv, ShellShape, SwitchShape, Guardable
<1>c. ClockShape'
    BY <1>1, <1>2, <1>3, <1>5, <1>8 DEF IInv, ClockShape, FromApp
<1>d. LockShape' /\ CorruptShape'
    BY <1>5, <1>7, <1>8, <1>9 DEF IInv, LockShape, CorruptShape, InArea, Guarded
<1>e. NewPinShape'
    BY <1>7 DEF NewPinShape, Unearned
<1>f. GuessShape'
    BY <1>5, <1>7 DEF IInv, GuessShape, GuessesOutliveRestart
<1>g. ReturnOutside' /\ SteplessNeverRests'
    BY <1>1, <1>5 DEF IInv, ReturnOutside, SteplessNeverRests
<1> QED BY <1>6, <1>a, <1>b, <1>c, <1>d, <1>e, <1>f, <1>g DEF IInv

LEMMA CancelNewPinStep ==
    ASSUME IInv, CancelNewPin, UNCHANGED appVars PROVE IInv'
<1>1. /\ shell.at = "step" /\ active = "settings_pin" /\ report = "no" /\ idle' = "no"
      /\ direct' \in Views /\ UNCHANGED <<flash, report, guesses, appVars>>
    BY DEF CancelNewPin, AtPin, Input, IInv, TypeOK, PinTypeOK
<1>2. CASE pin.task.flow = "newPin"
    <2>1. pin.task.target \in {"settings", NoApp} /\ (pin.state = "on" => pin.unlocked)
        BY <1>2 DEF IInv, SwitchShape, LockShape
    <2>2. Stepped(TRUE, SwitchTo("settings"))
        BY <1>2, <2>1 DEF CancelNewPin, BackFromNewPin
    <2>3. /\ pin' \in [state: {pin.state}, fails: {pin.fails}, wait: {pin.wait}, unlocked: {pin.unlocked},
                       screen: {"enter", "new1", "new2"}, guardInfo: {pin.guardInfo},
                       task: [flow: {"none", "unlock", "newPin"}, target: Apps \cup {NoApp},
                              origin: Apps \cup {NoApp}, recovered: BOOLEAN]]
          /\ pin'.task = NoFlow
        <3>1. pin' = [pin EXCEPT !.task = NoFlow]
            BY <1>2 DEF CancelNewPin
        <3> QED BY <3>1 DEF NoFlow, IInv, TypeOK, PinTypeOK
    <2>4. pin.state # "on" \/ pin.unlocked
        BY <2>1
    <2> QED BY <1>1, <2>2, <2>3, <2>4, LeavePinStep
<1>3. CASE pin.task.flow # "newPin"
    <2>1. PICK ok \in BOOLEAN : Stepped(ok, SwitchTo(NoApp))
        BY <1>3, NothingAsked DEF CancelNewPin
    <2>2. pin' = [pin EXCEPT !.screen = "enter", !.task.recovered = FALSE]
        BY <1>3 DEF CancelNewPin
    <2>3. /\ pin' \in [state: {pin.state}, fails: {pin.fails}, wait: {pin.wait}, unlocked: {pin.unlocked},
                       screen: {"enter", "new1", "new2"}, guardInfo: {pin.guardInfo},
                       task: [flow: {"none", "unlock", "newPin"}, target: Apps \cup {NoApp},
                              origin: Apps \cup {NoApp}, recovered: BOOLEAN]]
          /\ pin'.task = [pin.task EXCEPT !.recovered = FALSE] /\ pin'.screen = "enter"
        BY <2>2 DEF IInv, TypeOK, PinTypeOK
    <2> QED BY <1>1, <2>1, <2>3, LeavePinStep
<1> QED BY <1>2, <1>3

LEMMA CancelToOriginStep ==
    ASSUME IInv, CancelToOrigin, UNCHANGED appVars PROVE IInv'
<1>1. /\ shell.at = "step" /\ active = "settings_pin" /\ report = "no" /\ idle' = "no"
      /\ direct' \in Views /\ UNCHANGED <<flash, report, guesses, appVars>>
      /\ pin.screen = "enter" /\ pin' = [pin EXCEPT !.task = NoFlow]
      /\ Stepped(TRUE, SwitchTo(CancelGoesTo))
    BY DEF CancelToOrigin, CanCancel, CancelDirect, AtPin, Input, IInv, TypeOK, PinTypeOK, Views
<1>2. /\ pin' \in [state: {pin.state}, fails: {pin.fails}, wait: {pin.wait}, unlocked: {pin.unlocked},
                   screen: {"enter", "new1", "new2"}, guardInfo: {pin.guardInfo},
                   task: [flow: {"none", "unlock", "newPin"}, target: Apps \cup {NoApp},
                          origin: Apps \cup {NoApp}, recovered: BOOLEAN]]
      /\ pin'.task = NoFlow /\ pin'.screen = "enter"
    BY <1>1 DEF NoFlow, IInv, TypeOK, PinTypeOK
<1> QED BY <1>1, <1>2, LeavePinStep

LEMMA AskProviderStep ==
    ASSUME IInv, AskProvider, UNCHANGED appVars PROVE IInv'
<1>1. /\ shell.at = "step" /\ active = "settings_pin" /\ report = "no" /\ idle' = "no"
      /\ direct' \in Views /\ UNCHANGED <<flash, report, guesses, appVars>>
      /\ pin.screen = "enter" /\ pin' = [pin EXCEPT !.task.recovered = FALSE]
      /\ Stepped(TRUE, SwitchTo("recovery"))
    BY DEF AskProvider, AtPin, Input, IInv, TypeOK, PinTypeOK
<1>2. /\ pin' \in [state: {pin.state}, fails: {pin.fails}, wait: {pin.wait}, unlocked: {pin.unlocked},
                   screen: {"enter", "new1", "new2"}, guardInfo: {pin.guardInfo},
                   task: [flow: {"none", "unlock", "newPin"}, target: Apps \cup {NoApp},
                          origin: Apps \cup {NoApp}, recovered: BOOLEAN]]
      /\ pin'.task = [pin.task EXCEPT !.recovered = FALSE] /\ pin'.screen = "enter"
    BY <1>1 DEF IInv, TypeOK, PinTypeOK
<1> QED BY <1>1, <1>2, LeavePinStep

-----------------------------------------------------------------------------
(* What happens beside the apps: time, the timer of the PIN screen, and the   *)
(* recovery provider.                                                         *)
LEMMA TimeStep ==
    ASSUME IInv, idle' \in {"no", "elapsed", "grace"},
           UNCHANGED <<shell, active, home, pending, errors, flash, direct, report, guesses, appVars>>,
           pin' \in {pin, [pin EXCEPT !.wait = FALSE]}
    PROVE  IInv'
<1>1. /\ PinTypeOK'
      /\ pin'.state = pin.state /\ pin'.fails = pin.fails /\ pin'.unlocked = pin.unlocked
      /\ pin'.guardInfo = pin.guardInfo /\ pin'.task = pin.task /\ pin'.screen = pin.screen
    BY DEF IInv, TypeOK, PinTypeOK
<1>2. UNCHANGED <<settings, returnTo, wifiActive>>
    BY DEF appVars
<1>3. pin'.task = PinOff.task /\ pin'.screen = PinOff.screen => (shell.at = "off" => pin' = PinOff)
    BY DEF IInv, TypeOK, PinTypeOK, ShellShape, PinOff, NoFlow
<1>a. TypeOK' /\ ShellShape'
    BY <1>1, <1>2, <1>3 DEF IInv, TypeOK, ShellTypeOK, ShellShape
<1>b. SwitchShape' /\ ClockShape'
    BY <1>1, <1>2 DEF IInv, SwitchShape, ClockShape, FromApp
<1>c. LockShape' /\ CorruptShape' /\ NewPinShape'
    BY <1>1, <1>2 DEF IInv, LockShape, CorruptShape, NewPinShape, Unearned, InArea, Guarded,
                      OnlyInitialize, MustInitialize
<1>d. GuessShape' /\ ReturnOutside' /\ SteplessNeverRests'
    BY <1>1, <1>2 DEF IInv, GuessShape, GuessesOutliveRestart, ReturnOutside, SteplessNeverRests
<1> QED BY <1>a, <1>b, <1>c, <1>d DEF IInv

LEMMA WaitStep ==
    ASSUME IInv, Wait, UNCHANGED <<pinVars, appVars>> PROVE IInv'
BY TimeStep DEF Wait, pinVars

LEMMA WaitOverStep ==
    ASSUME IInv, WaitOver, UNCHANGED appVars PROVE IInv'
BY TimeStep DEF WaitOver, shellVars, IInv, TypeOK, ShellTypeOK

LEMMA CheckRecoveryStep ==
    ASSUME IInv, CheckRecovery, UNCHANGED appVars PROVE IInv'
<1> USE ShellAssumption, AppsAssumption
<1>1. /\ active = "recovery" /\ pin.state = "on" /\ report' = "checked"
      /\ UNCHANGED <<shell, active, home, pending, errors, idle, pin, flash, direct, guesses,
                     settings, returnTo, wifiActive>>
    BY DEF CheckRecovery, shellVars, appVars
<1>a. TypeOK' /\ ShellShape'
    BY <1>1 DEF IInv, TypeOK, ShellTypeOK, PinTypeOK, ShellShape
<1>b. SwitchShape' /\ ClockShape'
    BY <1>1 DEF IInv, SwitchShape, ClockShape, FromApp
<1>c. LockShape' /\ CorruptShape' /\ NewPinShape'
    BY <1>1 DEF IInv, LockShape, CorruptShape, NewPinShape, Unearned, InArea, Guarded,
                OnlyInitialize, MustInitialize
<1>d. GuessShape' /\ ReturnOutside' /\ SteplessNeverRests'
    BY <1>1 DEF IInv, GuessShape, GuessesOutliveRestart, ReturnOutside, SteplessNeverRests
<1> QED BY <1>a, <1>b, <1>c, <1>d DEF IInv

LEMMA ReportRecoveryStep ==
    ASSUME IInv, ReportRecovery, UNCHANGED appVars PROVE IInv'
<1> USE ShellAssumption, AppsAssumption
<1>1. /\ report = "checked" /\ report' = "no"
      /\ pending' = [to |-> "settings_pin", from |-> "current"] /\ pending' \in Switches
      /\ UNCHANGED <<shell, active, home, errors, idle, flash, direct, guesses,
                     settings, returnTo, wifiActive>>
    BY SwitchIsTyped DEF ReportRecovery, SwitchTo, appVars
<1>2. /\ PinTypeOK'
      /\ pin'.state = pin.state /\ pin'.fails = pin.fails /\ pin'.unlocked = pin.unlocked
      /\ pin'.guardInfo = pin.guardInfo /\ pin'.screen = pin.screen
      /\ pin'.task.flow = pin.task.flow /\ pin'.task.target = pin.task.target
      /\ pin'.task.origin = pin.task.origin /\ pin'.task.recovered
    BY <1>1 DEF ReportRecovery, IInv, TypeOK, PinTypeOK
<1>a. TypeOK' /\ ShellShape'
    BY <1>1, <1>2 DEF IInv, TypeOK, ShellTypeOK, ShellShape, PinOff
<1>b. SwitchShape' /\ ClockShape'
    BY <1>1, <1>2 DEF IInv, SwitchShape, ClockShape, FromApp, Guardable
<1>c. LockShape' /\ CorruptShape' /\ NewPinShape'
    BY <1>1, <1>2 DEF IInv, LockShape, CorruptShape, NewPinShape, Unearned, InArea, Guarded,
                      OnlyInitialize, MustInitialize
<1>d. GuessShape' /\ ReturnOutside' /\ SteplessNeverRests'
    BY <1>1, <1>2 DEF IInv, GuessShape, GuessesOutliveRestart, ReturnOutside, SteplessNeverRests
<1> QED BY <1>a, <1>b, <1>c, <1>d DEF IInv

-----------------------------------------------------------------------------
(* The power, and the shell's own moves. *)
LEMMA PowerOffStep ==
    ASSUME IInv, PowerOff, guesses' = guesses,
           flash' \in {flash, [flash EXCEPT !.calibrated = FALSE], [flash EXCEPT !.info = FALSE], Erased}
    PROVE  IInv'
<1> USE ShellAssumption, PinAssumption, AppsAssumption
<1>1. /\ shell' = [at |-> "off", from |-> NoApp, hops |-> 0, round |-> 0]
      /\ active' = NoApp /\ home' = NoApp /\ pending' = NoSwitch /\ errors' = 0 /\ idle' = "no"
      /\ settings' = [view |-> "pages", returnTo |-> NoApp, direct |-> "none"]
      /\ returnTo' = NoApp /\ wifiActive' = FALSE
      /\ pin' = PinOff /\ direct' = "none" /\ report' = "no"
    BY DEF PowerOff, ShellLost, NoShell, NoSettings
<1>2. /\ flash' \in [pin: {"off", "on", "unreadable"}, fails: 0 .. MaxGuesses, info: BOOLEAN,
                     bad: BOOLEAN, calibrated: BOOLEAN]
      /\ flash'.pin = "off" \/ (flash'.pin = flash.pin /\ flash'.fails = flash.fails)
    <2>1. CASE flash' = flash
        BY <2>1 DEF IInv, TypeOK, PinTypeOK
    <2>3. CASE flash' = [flash EXCEPT !.calibrated = FALSE]
        BY <2>3 DEF IInv, TypeOK, PinTypeOK
    <2>4. CASE flash' = [flash EXCEPT !.info = FALSE]
        BY <2>4 DEF IInv, TypeOK, PinTypeOK
    <2>2. CASE flash' = Erased
        BY <2>2, NoGuesses DEF IInv, TypeOK, PinTypeOK, Erased
    <2> QED BY <2>1, <2>2, <2>3, <2>4
<1>3. /\ pin'.state = "off" /\ ~pin'.unlocked /\ pin'.screen = "enter" /\ pin' = PinOff
      /\ pin'.task = [flow |-> "none", target |-> NoApp, origin |-> NoApp, recovered |-> FALSE]
      /\ pin' \in [state: {"off", "on", "corrupt"}, fails: 0 .. MaxGuesses, wait: BOOLEAN,
                   unlocked: BOOLEAN, screen: {"enter", "new1", "new2"}, guardInfo: BOOLEAN,
                   task: [flow: {"none", "unlock", "newPin"}, target: Apps \cup {NoApp},
                          origin: Apps \cup {NoApp}, recovered: BOOLEAN]]
    BY <1>1, NoGuesses DEF PinOff, NoFlow
<1>4. pending' = [to |-> NoApp, from |-> "current"]
    BY <1>1 DEF NoSwitch
<1>a. TypeOK'
    <2>1. ShellTypeOK'
        BY <1>1, <1>4 DEF ShellTypeOK, Switches
    <2>2. PinTypeOK'
        BY <1>1, <1>2, <1>3 DEF PinTypeOK, IInv, TypeOK, Views
    <2> QED BY <1>1, <2>1, <2>2 DEF TypeOK, SettingsViews, Views
<1>b. ShellShape'
    BY <1>1, <1>3, <1>4 DEF ShellShape, NoFlow, NoSwitch
<1>c. SwitchShape' /\ ClockShape'
    BY <1>1, <1>3, <1>4 DEF SwitchShape, ClockShape
<1>d. LockShape' /\ CorruptShape' /\ NewPinShape'
    BY <1>3 DEF LockShape, CorruptShape, NewPinShape, Unearned
<1>e. GuessShape' /\ ReturnOutside' /\ SteplessNeverRests'
    BY <1>1, <1>2, <1>3 DEF IInv, GuessShape, GuessesOutliveRestart, ReturnOutside, OwnSubscreen, SteplessNeverRests
<1> QED BY <1>a, <1>b, <1>c, <1>d, <1>e DEF IInv

LEMMA RestartStep ==
    ASSUME IInv, PowerCut \/ ConfirmRestart \/ CancelRestarts PROVE IInv'
BY PowerOffStep DEF PowerCut, ConfirmRestart, CancelRestarts

LEMMA EndChainStep ==
    ASSUME IInv, EndChain, UNCHANGED <<pinVars, appVars>> PROVE IInv'
<1> USE ShellAssumption, AppsAssumption
<1>1. /\ shell.at = "apply" /\ ~HasSwitch
      /\ pending' = (IF shell.hops = MaxChain THEN pending ELSE NoSwitch)
      /\ shell' = ChainDone
      /\ UNCHANGED <<active, home, errors, idle, pin, flash, direct, report, guesses,
                     settings, returnTo, wifiActive>>
    BY DEF EndChain, pinVars, appVars
<1>2. shell'.at \in {"idle", "step"} /\ shell'.from = NoApp
      /\ shell' = [at |-> shell'.at, from |-> NoApp, hops |-> 0, round |-> 1]
    BY <1>1 DEF ChainDone, At
<1>3. pending' \in {pending, [to |-> NoApp, from |-> "current"]}
    BY <1>1 DEF NoSwitch
<1>4. pending.to = "settings_pin" /\ shell.hops = 0 => active = "settings_pin"
    BY <1>1 DEF HasSwitch
<1>a. TypeOK'
    BY <1>1, <1>2, <1>3 DEF IInv, TypeOK, ShellTypeOK, PinTypeOK, Switches
<1>b. ShellShape'
    BY <1>1, <1>2 DEF IInv, ShellShape
<1>c. SwitchShape' /\ ClockShape'
    BY <1>1, <1>2, <1>3 DEF IInv, SwitchShape, ClockShape, FromApp
<1>d. LockShape'
    BY <1>1, <1>2, <1>4 DEF IInv, LockShape, InArea, Guarded, OnlyInitialize, MustInitialize
<1>e. CorruptShape' /\ NewPinShape'
    BY <1>1, <1>2, <1>3 DEF IInv, CorruptShape, NewPinShape, Unearned, InArea, Guarded, OnlyInitialize
<1>f. GuessShape' /\ ReturnOutside'
    BY <1>1, <1>2 DEF IInv, GuessShape, GuessesOutliveRestart, ReturnOutside
<1>g. SteplessNeverRests'
    BY <1>1, <1>2 DEF IInv, TypeOK, ShellTypeOK, SteplessNeverRests, HasSwitch
<1> QED BY <1>a, <1>b, <1>c, <1>d, <1>e, <1>f, <1>g DEF IInv

LEMMA IdleReturnStep ==
    ASSUME IInv, IdleReturn PROVE IInv'
<1> USE ShellAssumption, AppsAssumption
<1>1. /\ shell.at = "idle"
      /\ UNCHANGED <<active, home, errors, idle, pin, flash, direct, report, guesses,
                     settings, returnTo, wifiActive>>
    BY DEF IdleReturn, GoHome, pinVars, appVars
<1>2. \/ /\ shell' = [at |-> "step", from |-> NoApp, hops |-> 0, round |-> 1]
         /\ pending' = pending
      \/ /\ shell' = [at |-> "apply", from |-> NoApp, hops |-> 0, round |-> 2]
         /\ active # home /\ pending' = [to |-> home, from |-> "current"]
    BY DEF IdleReturn, GoHome, Timeout, Chain, At, SwitchTo
<1>3. home \in {"clock", "settings"}
    BY <1>1 DEF IInv, ShellShape
<1>4. shell'.at \in {"apply", "step"} /\ shell'.from = NoApp
    BY <1>2
<1>a. TypeOK'
    BY <1>1, <1>2, <1>3 DEF IInv, TypeOK, ShellTypeOK, PinTypeOK, Switches
<1>b. ShellShape'
    BY <1>1, <1>2 DEF IInv, ShellShape
<1>c. SwitchShape' /\ ClockShape'
    BY <1>1, <1>2, <1>3 DEF IInv, SwitchShape, ClockShape, FromApp
<1>d. LockShape'
    BY <1>1, <1>4 DEF IInv, LockShape, InArea, Guarded, OnlyInitialize, MustInitialize
<1>e. CorruptShape' /\ NewPinShape'
    BY <1>1, <1>2, <1>3 DEF IInv, CorruptShape, NewPinShape, Unearned, InArea, Guarded, OnlyInitialize
<1>f. GuessShape' /\ ReturnOutside' /\ SteplessNeverRests'
    BY <1>1, <1>2, <1>3 DEF IInv, GuessShape, GuessesOutliveRestart, ReturnOutside, SteplessNeverRests
<1> QED BY <1>a, <1>b, <1>c, <1>d, <1>e, <1>f DEF IInv

LEMMA BootStep ==
    ASSUME IInv, Boot PROVE IInv'
<1> USE ShellAssumption, PinAssumption, AppsAssumption
<1>1. /\ shell.at = "off" /\ shell' = [shell EXCEPT !.at = "boot"]
      /\ home' \in {"clock", "settings"}
      /\ direct' \in Views
      /\ UNCHANGED <<active, pending, errors, idle, flash, report, settings, returnTo, wifiActive>>
    BY DEF Boot, appVars, Views
<1>2. PICK readable \in BOOLEAN, counted \in BOOLEAN :
        /\ pin' = Loaded(readable, counted)
        /\ guesses' = IF counted THEN guesses ELSE 0
    BY DEF Boot
<1>3. /\ shell'.at = "boot" /\ shell'.from = NoApp /\ shell'.hops = 0 /\ shell'.round = 0
      /\ shell' = [at |-> "boot", from |-> NoApp, hops |-> 0, round |-> 0]
      /\ active' = NoApp /\ pending' = [to |-> NoApp, from |-> "current"] /\ errors' = 0
      /\ returnTo' = NoApp /\ settings'.returnTo = NoApp /\ report' = "no"
    BY <1>1 DEF IInv, TypeOK, ShellTypeOK, ShellShape, NoSwitch
<1>4. /\ pin' \in [state: {"off", "on", "corrupt"}, fails: 0 .. MaxGuesses, wait: BOOLEAN,
                   unlocked: BOOLEAN, screen: {"enter", "new1", "new2"}, guardInfo: BOOLEAN,
                   task: [flow: {"none", "unlock", "newPin"}, target: Apps \cup {NoApp},
                          origin: Apps \cup {NoApp}, recovered: BOOLEAN]]
      /\ ~pin'.unlocked /\ pin'.screen = "enter" /\ pin'.task = NoFlow
      /\ pin'.task = [flow |-> "none", target |-> NoApp, origin |-> NoApp, recovered |-> FALSE]
      /\ pin'.state = (IF ~readable \/ flash.pin = "unreadable" THEN "corrupt" ELSE flash.pin)
      /\ pin'.fails = (IF readable /\ flash.pin = "on" /\ counted THEN flash.fails ELSE 0)
    <2>1. Waits(flash.fails) \in BOOLEAN
        BY DEF Waits
    <2>2. pin' = [state |-> IF ~readable \/ flash.pin = "unreadable" THEN "corrupt" ELSE flash.pin,
                  fails |-> IF readable /\ flash.pin = "on" /\ counted THEN flash.fails ELSE 0,
                  wait |-> readable /\ flash.pin = "on" /\ counted /\ Waits(flash.fails),
                  unlocked |-> FALSE, screen |-> "enter", guardInfo |-> flash.info, task |-> NoFlow]
        BY <1>2 DEF Loaded, PinOff
    <2>3. (IF ~readable \/ flash.pin = "unreadable" THEN "corrupt" ELSE flash.pin)
             \in {"off", "on", "corrupt"}
          /\ (IF readable /\ flash.pin = "on" /\ counted THEN flash.fails ELSE 0) \in 0 .. MaxGuesses
          /\ (readable /\ flash.pin = "on" /\ counted /\ Waits(flash.fails)) \in BOOLEAN
          /\ flash.info \in BOOLEAN
        BY <2>1, NoGuesses DEF IInv, TypeOK, PinTypeOK
    <2> QED BY <2>2, <2>3 DEF NoFlow
<1>a. TypeOK'
    <2>1. ShellTypeOK'
        BY <1>1, <1>3 DEF IInv, TypeOK, ShellTypeOK, Switches
    <2>2. guesses' \in 0 .. MaxGuesses
        BY <1>2, NoGuesses DEF IInv, TypeOK, PinTypeOK
    <2> QED BY <1>1, <1>4, <2>1, <2>2 DEF IInv, TypeOK, PinTypeOK
<1>b. ShellShape'
    BY <1>1, <1>3, <1>4 DEF ShellShape, NoSwitch
<1>c. SwitchShape' /\ ClockShape'
    BY <1>3, <1>4 DEF SwitchShape, ClockShape
<1>d. LockShape' /\ CorruptShape' /\ NewPinShape'
    BY <1>3, <1>4 DEF LockShape, CorruptShape, NewPinShape, Unearned, Guarded
<1>e. GuessShape'
    <2>1. pin'.state = "on" => guesses' <= pin'.fails
        BY <1>2, <1>4 DEF IInv, TypeOK, PinTypeOK, GuessShape, GuessesOutliveRestart
    <2>2. GuessesOutliveRestart'
        BY <1>1, <1>2 DEF IInv, TypeOK, PinTypeOK, GuessShape, GuessesOutliveRestart
    <2> QED BY <1>1, <1>4, <2>1, <2>2 DEF GuessShape
<1>f. ReturnOutside' /\ SteplessNeverRests'
    BY <1>3 DEF ReturnOutside, OwnSubscreen, SteplessNeverRests
<1> QED BY <1>a, <1>b, <1>c, <1>d, <1>e, <1>f DEF IInv

(* What the guard may choose, and what it leaves of the lock. *)
Chosen(next, from, choice) ==
    \/ /\ choice = [app |-> next, pin |-> pin, direct |-> direct]
       /\ \/ pin.state = "off"
          \/ InArea(next) /\ ~Guarded(next)
          \/ next = "settings" /\ direct = "clearNvs" /\ MustInitialize /\ pin.state = "on"
          \/ Guarded(next) /\ pin.unlocked /\ pin.state = "on"
    \/ /\ choice = [app |-> next, direct |-> direct,
                    pin |-> [pin EXCEPT !.unlocked = FALSE, !.task = NoFlow]]
       /\ ~InArea(next) /\ pin.state # "off"
    \/ /\ choice = [app |-> "settings", pin |-> pin, direct |-> "clearNvs"]
       /\ Guarded(next) /\ pin.state = "corrupt"
    \/ /\ choice = [app |-> "settings_pin", pin |-> Unlocking(next, from), direct |-> direct]
       /\ Guarded(next) /\ pin.state = "on"

LEMMA GuardChooses ==
    ASSUME IInv, NEW next, NEW from
    PROVE  Chosen(next, from, Guard(next, from))
<1>1. pin.state \in {"off", "on", "corrupt"}
    BY DEF IInv, TypeOK, PinTypeOK
<1>2. Guarded(next) => InArea(next)
    BY DEF InArea
<1>3. CASE pin.state = "off"
    BY <1>3 DEF Guard, LetIn, Chosen
<1>4. CASE pin.state # "off" /\ ~InArea(next)
    BY <1>4 DEF Guard, LetIn, Locked, Chosen
<1>5. CASE pin.state # "off" /\ InArea(next) /\ ~Guarded(next)
    BY <1>5 DEF Guard, LetIn, Chosen
<1>6. CASE Guarded(next) /\ pin.state = "corrupt"
    BY <1>2, <1>6 DEF Guard, LetIn, Chosen
<1>7. CASE Guarded(next) /\ pin.state = "on"
    BY <1>2, <1>7 DEF Guard, LetIn, Chosen, ForcedInitialize
<1> QED BY <1>1, <1>3, <1>4, <1>5, <1>6, <1>7

LEMMA ChosenApp ==
    ASSUME NEW next, NEW from, NEW choice, Chosen(next, from, choice)
    PROVE  \/ choice.app = next
           \/ choice.app = "settings" /\ pin.state = "corrupt"
           \/ choice.app = "settings_pin" /\ pin.state = "on"
BY DEF Chosen

LEMMA LockAfterGuard ==
    ASSUME IInv, NEW next \in Apps, NEW from \in Apps \cup {NoApp}, NEW choice,
           Chosen(next, from, choice), pin' = choice.pin, direct' = choice.direct,
           UNCHANGED <<flash, report, guesses>>
    PROVE  /\ PinTypeOK' /\ choice.app \in Apps
           /\ pin'.state = pin.state /\ pin'.fails = pin.fails /\ pin'.guardInfo = pin.guardInfo
           /\ \/ pin'.task = pin.task /\ pin'.unlocked = pin.unlocked /\ pin'.screen = pin.screen
              \/ /\ ~pin'.unlocked /\ pin'.screen = pin.screen /\ ~InArea(next)
                 /\ pin'.task = [flow |-> "none", target |-> NoApp, origin |-> NoApp, recovered |-> FALSE]
              \/ /\ ~pin'.unlocked /\ pin'.screen = "enter" /\ Guarded(next)
                 /\ choice.app = "settings_pin"
                 /\ pin'.task = [flow |-> "unlock", target |-> next, origin |-> from, recovered |-> FALSE]
<1> USE AppsAssumption
<1>1. pin \in [state: {"off", "on", "corrupt"}, fails: 0 .. MaxGuesses, wait: BOOLEAN,
               unlocked: BOOLEAN, screen: {"enter", "new1", "new2"}, guardInfo: BOOLEAN,
               task: [flow: {"none", "unlock", "newPin"}, target: Apps \cup {NoApp},
                      origin: Apps \cup {NoApp}, recovered: BOOLEAN]]
    BY DEF IInv, TypeOK, PinTypeOK
<1>2. direct' \in Views /\ choice.app \in Apps
    BY DEF Chosen, IInv, TypeOK, PinTypeOK, Views
<1>3. CASE pin' = pin
    BY <1>1, <1>2, <1>3 DEF IInv, TypeOK, PinTypeOK
<1>4. CASE pin' = [pin EXCEPT !.unlocked = FALSE, !.task = NoFlow] /\ ~InArea(next)
    <2>1. /\ ~pin'.unlocked /\ pin'.screen = pin.screen /\ pin'.state = pin.state
          /\ pin'.fails = pin.fails /\ pin'.guardInfo = pin.guardInfo /\ pin'.task = NoFlow
        BY <1>1, <1>4
    <2>2. PinTypeOK'
        <3>1. pin' \in [state: {"off", "on", "corrupt"}, fails: 0 .. MaxGuesses, wait: BOOLEAN,
                    unlocked: BOOLEAN, screen: {"enter", "new1", "new2"}, guardInfo: BOOLEAN,
                    task: [flow: {"none", "unlock", "newPin"}, target: Apps \cup {NoApp},
                           origin: Apps \cup {NoApp}, recovered: BOOLEAN]]
            <4>1. NoFlow \in [flow: {"none", "unlock", "newPin"}, target: Apps \cup {NoApp},
                              origin: Apps \cup {NoApp}, recovered: BOOLEAN]
                BY DEF NoFlow
            <4> QED BY <1>1, <1>4, <4>1
        <3> QED BY <1>2, <3>1 DEF IInv, TypeOK, PinTypeOK
    <2> QED BY <1>2, <1>4, <2>1, <2>2 DEF NoFlow
<1>5. CASE pin' = Unlocking(next, from) /\ Guarded(next) /\ choice.app = "settings_pin"
    <2>1. /\ ~pin'.unlocked /\ pin'.screen = "enter" /\ pin'.state = pin.state
          /\ pin'.fails = pin.fails /\ pin'.guardInfo = pin.guardInfo
          /\ pin'.task = [flow |-> "unlock", target |-> next, origin |-> from, recovered |-> FALSE]
        BY <1>1, <1>5 DEF Unlocking
    <2>2. PinTypeOK'
        <3>1. pin' \in [state: {"off", "on", "corrupt"}, fails: 0 .. MaxGuesses, wait: BOOLEAN,
                    unlocked: BOOLEAN, screen: {"enter", "new1", "new2"}, guardInfo: BOOLEAN,
                    task: [flow: {"none", "unlock", "newPin"}, target: Apps \cup {NoApp},
                           origin: Apps \cup {NoApp}, recovered: BOOLEAN]]
            <4>1. [flow |-> "unlock", target |-> next, origin |-> from, recovered |-> FALSE]
                  \in [flow: {"none", "unlock", "newPin"}, target: Apps \cup {NoApp},
                              origin: Apps \cup {NoApp}, recovered: BOOLEAN]
                OBVIOUS
            <4> QED BY <1>1, <1>5, <4>1 DEF Unlocking
        <3> QED BY <1>2, <3>1 DEF IInv, TypeOK, PinTypeOK
    <2> QED BY <1>2, <1>5, <2>1, <2>2
<1> QED BY <1>3, <1>4, <1>5 DEF Chosen

LEMMA StartShellStep ==
    ASSUME IInv, StartShell PROVE IInv'
<1> USE ShellAssumption, AppsAssumption
<1> DEFINE choice == Guard(home, NoApp)
<1>1. /\ shell.at = "boot" /\ shell.hops = 0 /\ shell.round = 0 /\ shell.from = NoApp
      /\ home \in {"clock", "settings"} /\ active = NoApp /\ pending = NoSwitch /\ errors = 0
      /\ returnTo = NoApp /\ settings.returnTo = NoApp /\ report = "no"
      /\ ~pin.unlocked /\ pin.screen = "enter" /\ pin.task = NoFlow
    BY DEF StartShell, Start, IInv, ShellShape
<1>2. /\ Chosen(home, NoApp, choice)
      /\ pin' = choice.pin /\ direct' = choice.direct
      /\ UNCHANGED <<home, pending, errors, idle, flash, report, guesses, settings, returnTo, wifiActive>>
      /\ shell' = [shell EXCEPT !.at = "enter"] /\ active' = choice.app
    BY GuardChooses DEF StartShell, Start, Guarding, appVars
<1> HIDE DEF choice
<1>3. /\ PinTypeOK' /\ choice.app \in Apps
      /\ pin'.state = pin.state /\ pin'.fails = pin.fails /\ pin'.guardInfo = pin.guardInfo
      /\ \/ pin'.task = pin.task /\ pin'.unlocked = pin.unlocked /\ pin'.screen = pin.screen
         \/ /\ ~pin'.unlocked /\ pin'.screen = pin.screen /\ ~InArea(home)
            /\ pin'.task = [flow |-> "none", target |-> NoApp, origin |-> NoApp, recovered |-> FALSE]
         \/ /\ ~pin'.unlocked /\ pin'.screen = "enter" /\ Guarded(home)
            /\ choice.app = "settings_pin"
            /\ pin'.task = [flow |-> "unlock", target |-> home, origin |-> NoApp, recovered |-> FALSE]
    BY <1>1, <1>2, LockAfterGuard
<1>4. /\ shell'.at = "enter" /\ shell'.hops = 0 /\ shell'.round = 0 /\ shell'.from = NoApp
      /\ shell' \in [at: {"enter"}, from: {NoApp}, hops: {0}, round: {0}]
    BY <1>1, <1>2 DEF IInv, TypeOK, ShellTypeOK
<1>5. pending' = [to |-> NoApp, from |-> "current"]
    BY <1>1, <1>2 DEF NoSwitch
<1>6. \A a : Guarded(a)' <=> Guarded(a)
    BY <1>3 DEF Guarded
<1>7. Guarded(home) <=> home = "settings"
    BY <1>1 DEF Guarded
<1>8. /\ active' \in {home, "settings", "settings_pin"} /\ (home = "settings" => active' # "clock")
      /\ pin'.task.target \in {"settings", NoApp} /\ pin'.task.origin = NoApp
      /\ ~pin'.unlocked /\ pin'.screen = "enter"
      /\ pin'.task.flow # "newPin"
      /\ (pin'.task.flow = "none" \/ pin.state = "on")
    BY <1>1, <1>2, <1>3, <1>7 DEF Chosen, NoFlow
<1>a. TypeOK'
    BY <1>2, <1>3, <1>4 DEF IInv, TypeOK, ShellTypeOK
<1>b. ShellShape'
    BY <1>1, <1>2, <1>3, <1>4, <1>8 DEF ShellShape
<1>c. SwitchShape' /\ ClockShape'
    BY <1>1, <1>2, <1>4, <1>5, <1>8 DEF SwitchShape, ClockShape, Guardable
<1>d. LockShape'
    <2>1. ASSUME pin.state = "on", Guarded(active') PROVE direct' = "clearNvs" /\ active' = "settings" /\ MustInitialize'
        BY <1>1, <1>2, <1>7, <2>1 DEF Chosen, InArea, MustInitialize, Guarded
    <2> QED BY <1>3, <1>4, <1>6, <1>8, <2>1 DEF LockShape, OnlyInitialize, Guarded
<1>e. CorruptShape'
    <2>1. ASSUME pin.state = "corrupt" PROVE active' # "settings_pin" /\ (Guarded(active') => direct' = "clearNvs" /\ active' = "settings")
        BY <1>1, <1>2, <1>7, <2>1 DEF Chosen, InArea
    <2> QED BY <1>1, <1>2, <1>3, <1>4, <1>5, <1>6, <1>8, <2>1 DEF CorruptShape, OnlyInitialize, Guarded
<1>f. NewPinShape'
    BY <1>8 DEF NewPinShape, Unearned
<1>g. GuessShape' /\ ReturnOutside' /\ SteplessNeverRests'
    BY <1>1, <1>2, <1>3, <1>4 DEF IInv, GuessShape, GuessesOutliveRestart, ReturnOutside, SteplessNeverRests
<1> QED BY <1>a, <1>b, <1>c, <1>d, <1>e, <1>f, <1>g DEF IInv

(* A switch: where it comes from, what the guard makes of it, and how the old *)
(* app is left.                                                               *)
LEMMA ApplySwitchStep ==
    ASSUME IInv, ApplySwitch PROVE IInv'
<1> USE ShellAssumption, AppsAssumption
<1> DEFINE choice == Guard(pending.to, FromApp)
<1>1. /\ shell.at = "apply" /\ shell.round # 0 /\ shell.hops < MaxChain
      /\ pending.to \in Apps /\ pending.to # active /\ active \in Apps
      /\ home \in {"clock", "settings"} /\ (active # home => errors < MaxErrors)
    BY DEF ApplySwitch, Take, HasSwitch, IInv, TypeOK, ShellTypeOK, ShellShape, Switches
<1>2. PICK left \in BOOLEAN :
        /\ Take(choice.app, left) /\ Guarding(choice)
        /\ IF choice.app = active THEN left /\ UNCHANGED appVars ELSE Leave(left)
    BY DEF ApplySwitch
<1>3. /\ Chosen(pending.to, FromApp, choice)
      /\ pin' = choice.pin /\ direct' = choice.direct
      /\ UNCHANGED <<home, idle, flash, report, guesses>>
      /\ pending' = [to |-> NoApp, from |-> "current"]
    BY <1>2, GuardChooses DEF Take, Guarding, NoSwitch, ApplySwitch
<1>4. \/ /\ choice.app = active /\ shell' = ChainDone
         /\ UNCHANGED <<active, errors, settings, returnTo, wifiActive>>
      \/ /\ choice.app # active /\ shell' = [shell EXCEPT !.at = "enter", !.from = FromApp]
         /\ active' = choice.app /\ errors' = (IF left THEN errors ELSE OneMoreError)
         /\ settings' = [NoSettings EXCEPT !.returnTo = settings.returnTo]
         /\ returnTo' = NoApp
         /\ wifiActive' = (wifiActive /\ (active = "wifi_setup" => ~left))
    BY <1>2 DEF Take, Leave, appVars
<1>5. FromApp \in Apps \cup {NoApp} /\ (pending.from = "current" => FromApp = active)
      /\ (pending.from # "current" => FromApp = pending.from)
    BY <1>1 DEF FromApp, IInv, TypeOK, ShellTypeOK, Switches
<1> HIDE DEF choice
<1>6. /\ PinTypeOK' /\ choice.app \in Apps
      /\ pin'.state = pin.state /\ pin'.fails = pin.fails /\ pin'.guardInfo = pin.guardInfo
      /\ \/ pin'.task = pin.task /\ pin'.unlocked = pin.unlocked /\ pin'.screen = pin.screen
         \/ /\ ~pin'.unlocked /\ pin'.screen = pin.screen /\ ~InArea(pending.to)
            /\ pin'.task = [flow |-> "none", target |-> NoApp, origin |-> NoApp, recovered |-> FALSE]
         \/ /\ ~pin'.unlocked /\ pin'.screen = "enter" /\ Guarded(pending.to)
            /\ choice.app = "settings_pin"
            /\ pin'.task = [flow |-> "unlock", target |-> pending.to, origin |-> FromApp,
                            recovered |-> FALSE]
    BY <1>1, <1>3, <1>5, LockAfterGuard
<1>7. \/ /\ choice.app = active
         /\ shell'.at \in {"idle", "step"} /\ shell'.from = NoApp
         /\ shell' = [at |-> shell'.at, from |-> NoApp, hops |-> 0, round |-> 1]
      \/ /\ choice.app # active
         /\ shell'.at = "enter" /\ shell'.from = FromApp /\ shell'.round = shell.round
         /\ shell' = [at |-> "enter", from |-> FromApp, hops |-> shell.hops, round |-> shell.round]
    <2>1. CASE choice.app = active /\ shell' = ChainDone
        BY <2>1 DEF ChainDone, At
    <2>2. CASE choice.app # active /\ shell' = [shell EXCEPT !.at = "enter", !.from = FromApp]
        BY <2>2 DEF IInv, TypeOK, ShellTypeOK
    <2> QED BY <1>4, <2>1, <2>2
<1>8. /\ settings' \in [view: SettingsViews, returnTo: Apps \cup {NoApp}, direct: Views]
      /\ settings'.returnTo = settings.returnTo /\ returnTo' \in {returnTo, NoApp}
      /\ wifiActive' \in BOOLEAN
      /\ (choice.app = active => settings' = settings)
    BY <1>4 DEF IInv, TypeOK, NoSettings, SettingsViews, Views
<1>9. /\ active' = choice.app
      /\ \/ choice.app = pending.to
         \/ choice.app = "settings" /\ pin.state = "corrupt"
         \/ choice.app = "settings_pin" /\ pin.state = "on"
    <2>1. active' = choice.app
        BY <1>4
    <2> QED BY <1>3, <2>1, ChosenApp
<1>10. \A a : (Guarded(a)' <=> Guarded(a)) /\ (InArea(a)' <=> InArea(a))
    BY <1>6 DEF Guarded, InArea
<1>11. Guarded(pending.to) => pending.to \in Guardable
    BY DEF Guarded, Guardable
<1>a. TypeOK'
    <2>1. errors' \in 0 .. MaxErrors
        BY <1>4 DEF OneMoreError, IInv, TypeOK, ShellTypeOK
    <2>2. ShellTypeOK'
        BY <1>3, <1>5, <1>6, <1>7, <1>9, <2>1 DEF IInv, TypeOK, ShellTypeOK, Switches
    <2> QED BY <1>6, <1>8, <2>2 DEF IInv, TypeOK
<1>b. ShellShape'
    BY <1>1, <1>3, <1>4, <1>6, <1>7, <1>9 DEF ShellShape
<1>c. SwitchShape'
    <2>1. /\ pending.to = "settings" => FromApp # "settings"
          /\ pending.from # "current" => pending.to \in Guardable
        BY <1>1, <1>5 DEF IInv, SwitchShape
    <2>2. pin.state = "corrupt" => pending.from = "current"
        BY DEF IInv, CorruptShape
    <2>3. /\ pin'.task.target \in Guardable \cup {NoApp}
          /\ pin'.task.flow # "unlock" => pin'.task.target \in {"settings", NoApp}
          /\ pin'.task.target = "settings" => pin'.task.origin # "settings"
        BY <1>6, <1>11, <2>1 DEF IInv, SwitchShape
    <2>4. ASSUME shell'.at = "enter" 
          PROVE  /\ active' = "settings" => shell'.from # "settings"
                 /\ active' = "touch_calibration" => shell'.from # "touch_calibration"
                 /\ active' = "clock" => shell'.from # NoApp
        BY <1>1, <1>5, <1>7, <1>9, <2>1, <2>2, <2>4 DEF Guardable
    <2> QED BY <1>3, <2>3, <2>4 DEF SwitchShape
<1>d. ClockShape'
    <2>1. home = "settings" => "clock" \notin {active, pending.to, FromApp}
        BY <1>5 DEF IInv, ClockShape
    <2>2. FromApp = "info" => active = "info" /\ pending.to = "clock"
        BY <1>1, <1>5 DEF IInv, ClockShape
    <2>3. /\ home = "settings" =>
                "clock" \notin {active', shell'.from, returnTo', settings'.returnTo,
                                pin'.task.target, pin'.task.origin}
        BY <1>1, <1>6, <1>7, <1>8, <1>9, <2>1 DEF IInv, ClockShape
    <2>4. active' = "info" => /\ choice.app # active /\ home = "clock" /\ report = "no"
                              /\ FromApp = "clock"
        BY <1>1, <1>9 DEF IInv, ClockShape
    <2>5. pin'.task.target = "info" => home = "clock" /\ pin'.task.origin = "clock"
        BY <1>6 DEF IInv, ClockShape
    <2>6. shell'.from = "info" => active' = "clock"
        <3>1. SUFFICES ASSUME shell'.from = "info" PROVE active' = "clock"
            OBVIOUS
        <3>2. pending.to = "clock" /\ ~InArea("clock")
            BY <1>7, <2>2, <3>1 DEF InArea, Guarded
        <3> QED BY <1>3, <1>9, <3>2 DEF Chosen, InArea
    <2>7. "info" \notin {returnTo', settings'.returnTo, pin'.task.origin}
        BY <1>6, <1>8, <2>2 DEF IInv, ClockShape, Guarded
    <2> QED BY <1>3, <1>7, <2>3, <2>4, <2>5, <2>6, <2>7 DEF ClockShape
<1>e. LockShape'
    <2>1. ASSUME pin'.unlocked PROVE pin.state = "on" /\ InArea(active')
        <3>1. pin.unlocked /\ pin.state = "on"
            BY <1>6, <2>1 DEF IInv, LockShape
        <3>2. choice.pin # Unlocking(pending.to, FromApp)
              /\ choice.pin # [pin EXCEPT !.unlocked = FALSE, !.task = NoFlow]
            <4>1. ~Unlocking(pending.to, FromApp).unlocked
                  /\ ~[pin EXCEPT !.unlocked = FALSE, !.task = NoFlow].unlocked
                BY DEF Unlocking, IInv, TypeOK, PinTypeOK
            <4> QED BY <1>3, <2>1, <4>1
        <3> QED BY <1>3, <1>9, <3>1, <3>2 DEF Chosen, InArea, Guarded
    <2>2. ASSUME pin.state = "on", Guarded(active'), ~pin'.unlocked
          PROVE  active' = "settings" /\ shell'.at = "enter" /\ direct' = "clearNvs" /\ MustInitialize
        <3>1. pending.to = "settings" /\ choice.app = "settings" /\ direct = "clearNvs" /\ MustInitialize
              /\ choice.direct = direct
            BY <1>3, <1>6, <1>9, <2>2 DEF Chosen, Guarded, InArea
        <3> QED BY <1>1, <1>3, <1>7, <1>9, <3>1
    <2>3. MustInitialize' <=> MustInitialize
        BY <1>3 DEF MustInitialize
    <2>4. pin.state = "on" /\ pin'.task.flow = "newPin" => pin'.unlocked
        BY <1>6 DEF IInv, LockShape
    <2> QED BY <1>6, <1>10, <2>1, <2>2, <2>3, <2>4 DEF LockShape, OnlyInitialize
<1>f. CorruptShape'
    <2>1. SUFFICES ASSUME pin.state = "corrupt"
                   PROVE  /\ Guarded(active)' => OnlyInitialize'
                          /\ active' = "settings" /\ shell'.at # "enter" => settings'.direct = "clearNvs"
                          /\ pin'.task.flow = "none" /\ report' = "no" /\ pending'.from = "current"
                          /\ {active', pending'.to, shell'.from, returnTo', settings'.returnTo}
                                \cap {"settings_pin", "recovery"} = {}
        BY <1>6 DEF CorruptShape
    <2>2. /\ Guarded(active) => OnlyInitialize
          /\ active = "settings" => settings.direct = "clearNvs"
          /\ pin.task.flow = "none" /\ report = "no" /\ pending.from = "current"
          /\ {active, pending.to, returnTo, settings.returnTo} \cap {"settings_pin", "recovery"} = {}
        BY <1>1, <2>1 DEF IInv, CorruptShape
    <2>3. /\ choice.app \in {pending.to, "settings"}
          /\ Guarded(choice.app) => choice.app = "settings" /\ direct' = "clearNvs"
        BY <1>3, <2>1 DEF Chosen, IInv, LockShape, Guarded, InArea
    <2>4. Guarded(active)' => OnlyInitialize'
        BY <1>1, <1>7, <1>8, <1>9, <1>10, <2>2, <2>3 DEF OnlyInitialize, Guarded
    <2>5. pin'.task.flow = "none"
        BY <1>6, <2>2, <2>3
    <2> QED BY <1>3, <1>5, <1>7, <1>8, <1>9, <2>2, <2>3, <2>4, <2>5
<1>g. NewPinShape'
    <2>1. SUFFICES ASSUME Unearned'
                   PROVE  active' \notin {"settings_pin", "recovery", "touch_calibration", "wifi_setup",
                                          "clock_settings"}
        BY <1>3 DEF NewPinShape
    <2>2. CASE ~InArea(pending.to)
        BY <1>3, <1>9, <2>2 DEF Chosen, InArea, Guarded
    <2>3. CASE pin'.task = pin.task /\ pin'.unlocked = pin.unlocked /\ pin'.screen = pin.screen
        <3>1. Unearned
            BY <1>6, <2>1, <2>3 DEF Unearned
        <3>2. pending.to \notin {"settings_pin", "recovery", "touch_calibration"} /\ ~pin.unlocked
            BY <3>1 DEF IInv, NewPinShape, Unearned
        <3>3. pin.state = "on"
            BY <3>1 DEF Unearned
        <3>4. choice.pin # Unlocking(pending.to, FromApp)
            BY <1>3, <2>1 DEF Unlocking, Unearned, IInv, TypeOK, PinTypeOK
        <3> QED BY <1>3, <1>9, <2>2, <3>2, <3>3, <3>4 DEF Chosen, Guarded, InArea
    <2> QED BY <1>6, <2>1, <2>2, <2>3 DEF Unearned
<1>h. GuessShape' /\ ReturnOutside'
    BY <1>1, <1>3, <1>6, <1>8 DEF IInv, GuessShape, GuessesOutliveRestart, ReturnOutside
<1>i. SteplessNeverRests'
    BY <1>7, <1>9, <1>1 DEF SteplessNeverRests
<1> QED BY <1>a, <1>b, <1>c, <1>d, <1>e, <1>f, <1>g, <1>h, <1>i DEF IInv

-----------------------------------------------------------------------------
(* The invariant holds when the device is off, and every step keeps it.       *)
LEMMA InitInv == Init => IInv
<1> SUFFICES ASSUME Init PROVE IInv
    OBVIOUS
<1> USE ShellAssumption, PinAssumption, AppsAssumption
<1>1. /\ shell = [at |-> "off", from |-> NoApp, hops |-> 0, round |-> 0]
      /\ active = NoApp /\ home = NoApp /\ pending = [to |-> NoApp, from |-> "current"]
      /\ errors = 0 /\ idle = "no"
      /\ settings = [view |-> "pages", returnTo |-> NoApp, direct |-> "none"]
      /\ returnTo = NoApp /\ wifiActive = FALSE
      /\ pin = PinOff /\ direct = "none" /\ report = "no" /\ guesses = 0
      /\ pending = NoSwitch
    BY DEF Init, ShellInit, NoShell, NoSwitch, NoSettings
<1>2. flash \in [pin: {"off", "on", "unreadable"}, fails: 0 .. MaxGuesses, info: BOOLEAN,
                 bad: BOOLEAN, calibrated: BOOLEAN]
    <2>1. {0} \subseteq 0 .. MaxGuesses
        BY NoGuesses
    <2> QED BY <2>1 DEF Init
<1>3. /\ pin.state = "off" /\ ~pin.unlocked /\ pin.screen = "enter" /\ pin.task = NoFlow
      /\ pin.task = [flow |-> "none", target |-> NoApp, origin |-> NoApp, recovered |-> FALSE]
      /\ pin \in [state: {"off", "on", "corrupt"}, fails: 0 .. MaxGuesses, wait: BOOLEAN,
                  unlocked: BOOLEAN, screen: {"enter", "new1", "new2"}, guardInfo: BOOLEAN,
                  task: [flow: {"none", "unlock", "newPin"}, target: Apps \cup {NoApp},
                         origin: Apps \cup {NoApp}, recovered: BOOLEAN]]
    BY <1>1, NoGuesses DEF PinOff, NoFlow
<1>a. TypeOK
    <2>1. ShellTypeOK
        BY <1>1 DEF ShellTypeOK, Switches
    <2>2. PinTypeOK
        BY <1>1, <1>2, <1>3, NoGuesses DEF PinTypeOK, Views
    <2> QED BY <1>1, <2>1, <2>2 DEF TypeOK, SettingsViews, Views
<1>b. ShellShape
    BY <1>1, <1>3 DEF ShellShape
<1>c. SwitchShape /\ ClockShape
    BY <1>1, <1>3 DEF SwitchShape, ClockShape
<1>d. LockShape /\ CorruptShape /\ NewPinShape
    BY <1>3 DEF LockShape, CorruptShape, NewPinShape, Unearned
<1>e. GuessShape
    BY <1>1, <1>2, <1>3 DEF GuessShape, GuessesOutliveRestart
<1>f. ReturnOutside /\ SteplessNeverRests
    BY <1>1 DEF ReturnOutside, OwnSubscreen, SteplessNeverRests
<1> QED BY <1>a, <1>b, <1>c, <1>d, <1>e, <1>f DEF IInv

LEMMA SettingsStepInv == IInv /\ SettingsStep => IInv'
BY EnterSettingsStep, RelockStep, SettingsRedrawStep, OpenViewStep, CloseViewStep, SettingsBackStep,
   OpenSubscreenStep, BeginNewPinStep, TurnOffStep, TurnOffFailsStep, RestartStep, ClearFailsStep
DEF SettingsStep

LEMMA PinStepInv == IInv /\ PinStep /\ UNCHANGED appVars => IInv'
BY EnterPinStep, PinScreenStays, CountGuessStep, RightPinStep, StoreNewPinStep, CancelNewPinStep,
   CancelToOriginStep, AskProviderStep
DEF PinStep

LEMMA ShellTaskInv == IInv /\ ShellTask => IInv'
BY StartShellStep, EndChainStep, ApplySwitchStep, IdleReturnStep, EnterClockStep, ClockStepStep,
   EnterInfoStep, InfoStepStep, EnterCalibrationStep, EnterWifiSetupStep, WifiSetupStepStep,
   EnterClockSettingsStep, ClockSettingsStepStep, RecoveryStep, PinStepInv, SettingsStepInv
DEF ShellTask

LEMMA StutterInv == IInv /\ UNCHANGED vars => IInv'
<1> SUFFICES ASSUME IInv, UNCHANGED vars PROVE IInv'
    OBVIOUS
<1>1. UNCHANGED <<shell, active, home, pending, errors, flash, direct, report, guesses, appVars, idle, pin>>
    BY DEF vars, shellVars, pinVars
<1>2. idle' \in {"no", "elapsed", "grace"}
    BY <1>1 DEF IInv, TypeOK, ShellTypeOK
<1> QED BY <1>1, <1>2, TimeStep

LEMMA NextInv == IInv /\ [Next]_vars => IInv'
<1>1. IInv /\ Surroundings => IInv'
    BY BootStep, RestartStep, WaitStep, WaitOverStep, CheckRecoveryStep, ReportRecoveryStep
    DEF Surroundings
<1> QED BY <1>1, ShellTaskInv, StutterInv DEF Next

LEMMA Invariance == Spec => []IInv
BY InitInv, NextInv, PTL DEF Spec

-----------------------------------------------------------------------------
(* What it says. *)

(* The values of the variables, whatever was asked for and failed.            *)
THEOREM TypeCorrect == Spec => []TypeOK
<1>1. IInv => TypeOK
    BY DEF IInv
<1> QED BY <1>1, Invariance, PTL

(* The PIN locks: no guarded app is in front of a user who did not enter it,  *)
(* but Initialize NVS; it is good inside the settings only; and only who      *)
(* entered the old PIN or recovered sets a new one (settings_pin_guard()).    *)
THEOREM TheLockHolds == Spec => []LockHolds
<1>1. IInv => LockedStaysOut
    BY DEF IInv, LockShape, CorruptShape, LockedStaysOut
<1>2. IInv => SessionEndsOutside
    BY DEF IInv, LockShape, SessionEndsOutside
<1>3. IInv => NewPinIsEarned
    BY DEF IInv, NewPinShape, Unearned, NewPinIsEarned, AtPin
<1>4. IInv => LockHolds
    BY <1>1, <1>2, <1>3 DEF LockHolds
<1> QED BY <1>4, Invariance, PTL

(* The count of guesses in flash covers every guess made, wherever the power  *)
(* was cut, unless flash failed to take or to give it (settings_pin_app.c:    *)
(* the count is written before the PIN is compared).                          *)
THEOREM GuessesAreNeverGivenBack == Spec => []GuessesOutliveRestart
<1>1. IInv => GuessesOutliveRestart
    BY DEF IInv, GuessShape
<1> QED BY <1>1, Invariance, PTL

(* An app without a step() is never active but on its way out.                *)
THEOREM SteplessAlwaysLeaves == Spec => []SteplessNeverRests
<1>1. IInv => SteplessNeverRests
    BY DEF IInv
<1> QED BY <1>1, Invariance, PTL

(* The settings never return into a screen they open themselves.              *)
THEOREM ReturnsOutside == Spec => []ReturnOutside
<1>1. IInv => ReturnOutside
    BY DEF IInv
<1> QED BY <1>1, Invariance, PTL

(* An app that is not the home app is left before its errors in a row reach   *)
(* CONFIG_APP_SHELL_MAX_CONSECUTIVE_ERRORS, any limit from 1 on; only the     *)
(* first app of a boot, whose failed enter() counts and gives nothing up, is  *)
(* stepped once whatever the limit.                                           *)
THEOREM BudgetIsKept == Spec => []ErrorBudget
<1>1. IInv => ErrorBudget
    BY DEF IInv, ShellShape, ErrorBudget
<1> QED BY <1>1, Invariance, PTL
=============================================================================
