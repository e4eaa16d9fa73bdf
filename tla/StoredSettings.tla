------------------------------ MODULE StoredSettings ------------------------------
(* One setting of the system settings, from its record in flash to its stepper and *)
(* back: read at start or when it is first asked for, by whichever task asks,      *)
(* changed in RAM by the settings screen, and written when that screen is left.    *)
(* Which setting is followed is chosen at the start of a behaviour; the others     *)
(* matter only through the order in which they are saved.                          *)
EXTENDS Integers, Sequences, FiniteSets

CONSTANTS
    Zones,          \* time zones of the list (system_settings_view_timezone_count)
    IdleReturnMax   \* CYD_SETTINGS_IDLE_RETURN_MAX

ASSUME StoredAssumption ==
    /\ Zones \in Nat \ {0}
    /\ IdleReturnMax \in Nat /\ IdleReturnMax % 10 = 0

VARIABLES
    setting,        \* the setting that is followed
    value,          \* its value in RAM
    loaded,         \* it has been read since the start (s_idle_timeout_loaded and the like)
    flash,          \* its record: a value, NoRecord or Unreadable
    nvs,            \* NVS is initialised (a failed erase leaves it closed)
    cached,         \* s_cyd_ui_saved_theme: what the theme's record is known to hold, or NoRecord
    loader,         \* per task: [at, got], where its first read of the setting is
    stage,          \* "boot", "out" of the settings, "in" them, "forced" to initialise
    mustInitialize, \* nvs_health_requires_initialize()
    stepped,        \* the value in RAM was set by the stepper
    unsaved         \* the last write met a failure

storedVars ==
    <<setting, value, loaded, flash, nvs, cached, loader, stage, mustInitialize, stepped, unsaved>>

NoRecord == -1
Unreadable == -2
Tasks == {"main", "manager"}

(* The order of cyd_settings_save_pending_values. *)
SaveOrder == <<"brightness", "theme", "idleReturn", "interval", "timezone", "wifiIdle">>

-----------------------------------------------------------------------------
(* What a record means. *)
Default ==
    [brightness |-> 192, theme |-> 0, idleReturn |-> 60, interval |-> 60, timezone |-> 1, wifiIdle |-> 30]
MinBrightness == 13
Themes == 4
MinInterval == 1
MaxInterval == 1440

Clamped(v, low, high) == IF v < low THEN low ELSE IF v > high THEN high ELSE v

(* A record that is missing or cannot be read leaves the default. *)
Decoded(record) ==
    IF record \in {NoRecord, Unreadable}
    THEN Default[setting]
    ELSE CASE setting = "brightness" -> Clamped(record, MinBrightness, 255)
           [] setting = "theme"      -> IF record < Themes THEN record ELSE Default.theme
           [] setting = "interval"   -> Clamped(record, MinInterval, MaxInterval)
           [] OTHER                  -> record

(* Records of this firmware and, beyond its range, of others. *)
Records ==
    [brightness |-> {5, 13, 100, 255}, theme |-> {0, Themes - 1, Themes},
     idleReturn |-> {0, 25, IdleReturnMax + 5}, interval |-> {0, 1, 60, 1440, 2000},
     timezone |-> 0..Zones, wifiIdle |-> {0, 45, 3600, 5000}]

-----------------------------------------------------------------------------
(* The steppers. *)
BrightnessLevels == <<255, 191, 128, 102, 77, 64, 51, 38, 26, 13>>
IdleSeconds == <<0, 30, 60, 180, 300, 600, 900, 1200, 1800, 2700, 3600>>

Distance(a, b) == IF a > b THEN a - b ELSE b - a

(* The first of the levels that are nearest. *)
NearestLevel(v) ==
    CHOOSE i \in DOMAIN BrightnessLevels :
        \A j \in DOMAIN BrightnessLevels :
            LET di == Distance(BrightnessLevels[i], v) dj == Distance(BrightnessLevels[j], v)
            IN  di < dj \/ (di = dj /\ i <= j)

LastAtOrBelow(v) ==
    CHOOSE i \in DOMAIN IdleSeconds :
        /\ IdleSeconds[i] <= v
        /\ \A j \in DOMAIN IdleSeconds : IdleSeconds[j] <= v => j <= i

Snapped(v) == IF v > IdleReturnMax THEN IdleReturnMax ELSE v - (v % 10)

ZoneIndex(v) == IF v \in 1..Zones THEN v ELSE 1

Bounded(i, n) == Clamped(i, 1, n)

IntervalStep(v) ==
    IF v >= 360 THEN 180 ELSE IF v >= 120 THEN 60 ELSE IF v >= 60 THEN 30 ELSE IF v >= 10 THEN 5 ELSE 1

Increased(v) ==
    IF v >= MaxInterval - IntervalStep(v) THEN MaxInterval ELSE v + IntervalStep(v)

Decreased(v) ==
    LET step == IF v > 360 THEN 180 ELSE IF v > 120 THEN 60 ELSE IF v > 60 THEN 30
                ELSE IF v > 10 THEN 5 ELSE 1
    IN  IF v <= MinInterval + step - 1 THEN MinInterval ELSE v - step

(* What a tap on the one or the other side of the stepper makes of v. *)
SteppedUp(v) ==
    CASE setting = "brightness" -> BrightnessLevels[Bounded(NearestLevel(v) - 1, Len(BrightnessLevels))]
      [] setting = "theme"      -> Clamped(v + 1, 0, Themes - 1)
      [] setting = "idleReturn" -> IF Snapped(v) < IdleReturnMax THEN Snapped(v) + 10 ELSE Snapped(v)
      [] setting = "interval"   -> Increased(v)
      [] setting = "timezone"   -> Bounded(ZoneIndex(v) + 1, Zones)
      [] setting = "wifiIdle"   -> IdleSeconds[Bounded(LastAtOrBelow(v) + 1, Len(IdleSeconds))]

SteppedDown(v) ==
    CASE setting = "brightness" -> BrightnessLevels[Bounded(NearestLevel(v) + 1, Len(BrightnessLevels))]
      [] setting = "theme"      -> Clamped(v - 1, 0, Themes - 1)
      [] setting = "idleReturn" -> IF Snapped(v) >= 10 THEN Snapped(v) - 10 ELSE 0
      [] setting = "interval"   -> Decreased(v)
      [] setting = "timezone"   -> Bounded(ZoneIndex(v) - 1, Zones)
      [] setting = "wifiIdle"   -> IdleSeconds[Bounded(LastAtOrBelow(v) - 1, Len(IdleSeconds))]

-----------------------------------------------------------------------------
(* Start and first read. *)
Idle == [at |-> "idle", got |-> NoRecord]

StoredInit ==
    /\ \E s \in {SaveOrder[i] : i \in DOMAIN SaveOrder} :
        /\ setting = s
        /\ value = Default[s]
        /\ flash \in Records[s] \cup {NoRecord, Unreadable}
    /\ loaded = FALSE
    /\ nvs = TRUE
    /\ cached = NoRecord
    /\ loader = [t \in Tasks |-> Idle]
    /\ stage = "boot"
    /\ mustInitialize = FALSE
    /\ stepped = FALSE
    /\ unsaved = FALSE

(* The task finds the setting not read yet. Only the radio manager's own loop asks beside the    *)
(* main task, and only for its idle timeout; the other settings are read once, in their init.   *)
Look(t) ==
    /\ loader[t].at = "idle"
    /\ t = "main" => stage = "boot"
    /\ t = "manager" => setting = "wifiIdle"
    /\ ~loaded
    /\ loader' = [loader EXCEPT ![t].at = "read"]
    /\ UNCHANGED <<setting, value, loaded, flash, nvs, cached, stage, mustInitialize, stepped, unsaved>>

(* A record that cannot be read is reported, except that of the theme. *)
ReadRecord(t) ==
    /\ loader[t].at = "read"
    /\ loader' = [loader EXCEPT ![t] = [at |-> "settle", got |-> Decoded(flash)]]
    /\ cached' = IF setting = "theme" /\ flash \in 0..Themes - 1 THEN flash ELSE cached
    /\ mustInitialize' = (mustInitialize \/ (flash = Unreadable /\ setting # "theme"))
    /\ UNCHANGED <<setting, value, loaded, flash, nvs, stage, stepped, unsaved>>

(* Mistaken: what was read is taken although the setting has been read meanwhile. *)
SettleAnyway(t) ==
    /\ loader[t].at = "settle"
    /\ value' = loader[t].got
    /\ loaded' = TRUE
    /\ loader' = [loader EXCEPT ![t] = Idle]
    /\ UNCHANGED <<setting, flash, nvs, cached, stage, mustInitialize, stepped, unsaved>>

Settle(t) ==
    /\ loader[t].at = "settle"
    /\ value' = IF loaded THEN value ELSE loader[t].got
    /\ loaded' = TRUE
    /\ loader' = [loader EXCEPT ![t] = Idle]
    /\ UNCHANGED <<setting, flash, nvs, cached, stage, mustInitialize, stepped, unsaved>>

(* The shell starts after the settings have been read: on the screen that initialises NVS when   *)
(* one of them could not be, in the settings when a finger was held on the panel, or outside.    *)
StartShell ==
    /\ stage = "boot"
    /\ loaded
    /\ loader["main"].at = "idle"
    /\ stage' \in IF mustInitialize THEN {"forced"} ELSE {"in", "out"}
    /\ UNCHANGED <<setting, value, loaded, flash, nvs, cached, loader, mustInitialize, stepped, unsaved>>

-----------------------------------------------------------------------------
(* The settings screen. *)
EnterSettings ==
    /\ stage = "out"
    /\ stage' = "in"
    /\ UNCHANGED <<setting, value, loaded, flash, nvs, cached, loader, mustInitialize, stepped, unsaved>>

Step ==
    /\ stage = "in"
    /\ value' \in {SteppedUp(value), SteppedDown(value)}
    /\ stepped' = TRUE
    /\ UNCHANGED <<setting, loaded, flash, nvs, cached, loader, stage, mustInitialize, unsaved>>

(* cyd_settings_save_pending_values, as far as this setting goes: an earlier one fails and this   *)
(* is not tried, its own write fails and may still have reached the flash, or it is written. A    *)
(* theme that the record is known to hold is not written.                                        *)
MayWrite == nvs /\ ~(setting = "theme" /\ cached = value)

Save ==
    \/ /\ setting # SaveOrder[1] \/ ~nvs
       /\ unsaved' = TRUE
       /\ UNCHANGED <<flash, cached>>
    \/ /\ MayWrite
       /\ flash' \in {flash, value}
       /\ unsaved' = TRUE
       /\ UNCHANGED cached
    \/ /\ MayWrite
       /\ flash' = value
       /\ cached' = IF setting = "theme" THEN value ELSE cached
       /\ unsaved' = FALSE
    \/ /\ setting = "theme" /\ cached = value
       /\ UNCHANGED <<flash, cached, unsaved>>

(* cyd_settings_app_leave: a failure does not keep the user in. *)
LeaveSettings ==
    /\ stage = "in"
    /\ Save
    /\ stage' = "out"
    /\ UNCHANGED <<setting, value, loaded, nvs, loader, mustInitialize, stepped>>

Rebooted ==
    /\ value' = Default[setting]
    /\ loaded' = FALSE
    /\ nvs' = TRUE
    /\ cached' = NoRecord
    /\ loader' = [t \in Tasks |-> Idle]
    /\ stage' = "boot"
    /\ mustInitialize' = FALSE
    /\ stepped' = FALSE
    /\ unsaved' = FALSE
    /\ UNCHANGED setting

(* cyd_settings_save_and_restart: saves what it can and restarts regardless. *)
SaveAndRestart ==
    /\ stage = "in"
    /\ flash' \in {flash} \cup (IF MayWrite THEN {value} ELSE {})
    /\ Rebooted

(* Clear NVS closes NVS, erases the flash and restarts. When the erase fails the screen stays    *)
(* up, with NVS closed.                                                                          *)
ClearNvs ==
    /\ stage \in {"in", "forced"}
    /\ \/ flash' = NoRecord /\ Rebooted
       \/ /\ flash' \in {flash, NoRecord}
          /\ nvs' = FALSE
          /\ unsaved' = TRUE
          /\ UNCHANGED <<setting, value, loaded, cached, loader, stage, mustInitialize, stepped>>

PowerCut ==
    /\ Rebooted
    /\ UNCHANGED flash

-----------------------------------------------------------------------------
StoredNext ==
    \/ \E t \in Tasks : Look(t) \/ ReadRecord(t) \/ Settle(t)
    \/ StartShell \/ EnterSettings \/ Step \/ LeaveSettings
    \/ SaveAndRestart \/ ClearNvs \/ PowerCut

-----------------------------------------------------------------------------
StoredTypeOK ==
    /\ setting \in {SaveOrder[i] : i \in DOMAIN SaveOrder}
    /\ value \in Nat /\ flash \in Nat \cup {NoRecord, Unreadable}
    /\ {loaded, nvs, mustInitialize, stepped, unsaved} \subseteq BOOLEAN
    /\ cached \in 0..Themes - 1 \cup {NoRecord}
    /\ loader \in [Tasks -> [at : {"idle", "read", "settle"}, got : Nat \cup {NoRecord}]]
    /\ stage \in {"boot", "out", "in", "forced"}

(* Outside the settings screen, what is in use is what the next start will read, whoever read it *)
(* first and however late the other task's read settles; unless the last write of it failed      *)
(* (radio_manager.c:173-181, app_shell.c:209-215, cyd_ui_theme_store.c:61-62).                   *)
SavedOnLeaving == stage = "out" /\ ~unsaved => value = Decoded(flash)

(* A tap on one side of a stepper is undone by a tap on the other, also where the width of the   *)
(* step changes (system_settings_app.c:488-519).                                                 *)
StepsAreUndone ==
    stepped =>
        /\ SteppedUp(value) # value => SteppedDown(SteppedUp(value)) = value
        /\ SteppedDown(value) # value => SteppedUp(SteppedDown(value)) = value
=============================================================================
