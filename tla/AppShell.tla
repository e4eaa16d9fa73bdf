------------------------------- MODULE AppShell -------------------------------
(***************************************************************************)
(* The shell that runs one app at a time, components/framework/app_shell.  *)
(*                                                                         *)
(* One task runs the active app's step(), then applies the switches that   *)
(* were asked for, then takes an idle device home.  A switch is only       *)
(* noted when it is asked for, by any task; the last one asked for wins,   *)
(* and it is applied later: the guard may choose another app, the old app  *)
(* is left, the new one entered.  Each of the three may fail.              *)
(*                                                                         *)
(* This module is the shell's state and its own moves; SystemApps, which   *)
(* extends it, has the apps and the behaviour of the whole.                *)
(***************************************************************************)
EXTENDS Naturals

CONSTANTS
    Apps,           \* the apps of the product
    NoApp,          \* NULL
    Stepless,       \* the apps without a step()
    MaxErrors,      \* CONFIG_APP_SHELL_MAX_CONSECUTIVE_ERRORS
    MaxChain        \* APP_SHELL_MAX_SWITCH_CHAIN

ASSUME ShellAssumption ==
    /\ NoApp \notin Apps /\ Stepless \subseteq Apps
    /\ MaxErrors \in Nat \ {0} /\ MaxChain \in Nat \ {0}

VARIABLES
    shell,          \* the task: its place, what enter() is given, the switches of this
                    \* chain, and which chain of the loop it is (0: before the first one);
                    \* what is no longer read is forgotten
    active,         \* s_app_shell_active_app
    home,           \* s_app_shell_home_app
    pending,        \* s_app_shell_pending_app, _from, _has_from
    errors,         \* s_app_shell_consecutive_errors, no further than MaxErrors
    idle            \* the time since the last input, against the idle timeout

shellVars == <<shell, active, home, pending, errors, idle>>

Current == "current"    \* has_from is false: enter() is given the app that is left
NoSwitch == [to |-> NoApp, from |-> Current]
Switches == [to: Apps \cup {NoApp}, from: Apps \cup {NoApp, Current}]

ShellTypeOK ==
    /\ shell \in [at: {"off", "boot", "step", "check", "apply", "enter", "idle"}, from: Apps \cup {NoApp},
                  hops: 0 .. MaxChain, round: 0 .. 2]
    /\ active \in Apps \cup {NoApp} /\ home \in Apps \cup {NoApp}
    /\ pending \in Switches
    /\ errors \in 0 .. MaxErrors
    /\ idle \in {"no", "elapsed", "grace"}

(* The device is off. *)
NoShell == [at |-> "off", from |-> NoApp, hops |-> 0, round |-> 0]

ShellInit ==
    /\ shell = NoShell
    /\ active = NoApp /\ home = NoApp /\ pending = NoSwitch /\ errors = 0 /\ idle = "no"

ShellLost ==
    /\ shell' = NoShell
    /\ active' = NoApp /\ home' = NoApp /\ pending' = NoSwitch /\ errors' = 0 /\ idle' = "no"

-----------------------------------------------------------------------------
(* What an app asks for: the value of pending. *)
SwitchTo(app) == [to |-> app, from |-> Current]
SwitchToFrom(app, from) == [to |-> app, from |-> from]
ReturnTo(app) == SwitchTo(IF app = NoApp THEN home ELSE app)

At(place) == [at |-> place, from |-> NoApp, hops |-> 0, round |-> 1]
Chain(round) == [At("apply") EXCEPT !.round = round]

Asked(switch) == IF switch = NoSwitch THEN pending ELSE switch

(* The consecutive errors after one more; from MaxErrors on they make no      *)
(* difference.                                                                *)
OneMoreError == IF errors < MaxErrors THEN errors + 1 ELSE errors

(* An app that failed too often is left for the home app; a failing home app  *)
(* stays, and only the backoff slows it.                                      *)
Count(ok, giveUp, switch) ==
    IF ok THEN errors' = 0 /\ pending' = Asked(switch)
    ELSE IF giveUp /\ active # home THEN errors' = 0 /\ pending' = SwitchTo(home)
    ELSE errors' = OneMoreError /\ pending' = Asked(switch)

BudgetSpent == OneMoreError = MaxErrors

(* A step() of the active app has returned. *)
Stepped(ok, switch) ==
    /\ Count(ok, BudgetSpent, switch)
    /\ shell' = Chain(1)
    /\ UNCHANGED <<active, home>>

(* An enter() has returned.  The first app of a boot is not given up, however *)
(* small the budget.  An app without step() is given up at once, unless it    *)
(* asked for a switch itself.                                                 *)
Entered(ok, switch) ==
    /\ IF shell.round = 0
       THEN /\ errors' = (IF ok THEN errors ELSE OneMoreError)
            /\ pending' = Asked(switch)
            /\ shell' = [At("step") EXCEPT !.round = 0]
       ELSE /\ Count(ok, BudgetSpent \/ (active \in Stepless /\ Asked(switch) = NoSwitch), switch)
            /\ shell' = [shell EXCEPT !.at = "apply", !.from = NoApp, !.hops = @ + 1]
    /\ UNCHANGED <<active, home>>

-----------------------------------------------------------------------------
(* Applying what was asked for. *)
HasSwitch == shell.hops < MaxChain /\ pending.to \notin {NoApp, active}

FromApp == IF pending.from = Current THEN active ELSE pending.from

ChainDone == At(IF shell.round = 1 THEN "idle" ELSE "step")

(* Nothing to switch to, or too many switches in a row: what is pending then  *)
(* waits for the next loop.                                                   *)
EndChain ==
    /\ shell.at = "apply" /\ ~HasSwitch
    /\ pending' = IF shell.hops = MaxChain THEN pending ELSE NoSwitch
    /\ shell' = ChainDone
    /\ UNCHANGED <<active, home, errors, idle>>

(* The switch is taken off, the guard has chosen, and the active app is left; *)
(* its leave() may fail, and is left all the same.                            *)
Take(chosen, left) ==
    /\ shell.at = "apply" /\ HasSwitch
    /\ pending' = NoSwitch
    /\ IF chosen = active
       THEN /\ shell' = ChainDone
            /\ UNCHANGED <<active, errors>>
       ELSE /\ shell' = [shell EXCEPT !.at = "enter", !.from = FromApp]
            /\ active' = chosen
            /\ errors' = IF left THEN errors ELSE OneMoreError
    /\ UNCHANGED <<home, idle>>

(* app_shell_request_home_if_idle(): the shell goes home when nobody touched  *)
(* the device, unless the app or the product keeps it.                        *)
Timeout(suppressed) == active # home /\ ~suppressed /\ idle # "no"

GoHome(suppressed, allowed) ==
    /\ shell.at = "idle"
    /\ IF Timeout(suppressed) /\ allowed
       THEN /\ pending' = SwitchTo(home)
            /\ shell' = Chain(2)
       ELSE /\ shell' = At("step")
            /\ UNCHANGED pending
    /\ UNCHANGED <<active, home, errors, idle>>

(* Time passes without input: the timeout, and RELOCK_GRACE_MS more.  With    *)
(* the timeout at "never" it does not.                                        *)
Wait ==
    /\ shell.at \notin {"off", "boot"} /\ idle # "grace"
    /\ idle' = IF idle = "no" THEN "elapsed" ELSE "grace"
    /\ UNCHANGED <<shell, active, home, pending, errors>>

(* app_shell_start(): the first app is home even when the guard puts another  *)
(* one in front of it.                                                        *)
Start(chosen) ==
    /\ shell.at = "boot"
    /\ shell' = [shell EXCEPT !.at = "enter"]
    /\ active' = chosen
    /\ UNCHANGED <<home, pending, errors, idle>>
=============================================================================
