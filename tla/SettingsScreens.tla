-------------------------- MODULE SettingsScreens --------------------------
(* The screens of the system settings (system_settings_app.c): the pages and their  *)
(* order, the views that take a page's place, what a product fixed, the copied list *)
(* of Wi-Fi profiles, and the way from a touch to an action. The values the steppers *)
(* change are StoredSettings' matter, who may enter is SystemApps'.                 *)
EXTENDS Naturals, Sequences, SequencesExt

CONSTANTS
    Ssids,          \* names of networks
    MaxProfiles,    \* WIFI_PROFILE_STORE_MAX_ENTRIES
    Fixes           \* the sets of items that a product may hide

VARIABLES
    place,      \* "in" the settings, in a "sub" place of theirs, "away", or "off"
    app,        \* the s_settings_... variables
    armed,      \* s_settings_pending_direct_view
    built,      \* the screen that was built last: its view, page, SSIDs and the one selected
    tracker,    \* s_settings_touch_tracker: [pending, long]
    finger,     \* the finger is down
    store,      \* the stored profiles, in order of preference
    hidden,     \* the items that the product hid
    invalid,    \* nvs_health_requires_initialize()
    pin,        \* settings_pin_is_enabled()
    done        \* what the last step did to the device: [item, ssid, named]

screenVars == <<place, app, armed, built, tracker, finger, store, hidden, invalid, pin, done>>

-----------------------------------------------------------------------------
(* The table of pages, what each offers, and the items behind the offers. *)
PageTable == <<"general", "security", "time", "network1", "network2", "nvs", "apps">>
LivePages == {"time", "network1", "network2"}
StepperPages == {"general", "time", "network2"}

GeneralItems == {"brightness", "theme", "idleReturn", "touchCalibrate"}
NvsItems == {"clearTouchCalib", "clearAppData", "clearNvs"}
Steppers == {"brightness", "idleReturn", "timezone", "interval", "wifiIdle"}
Items == GeneralItems \cup NvsItems
           \cup {"timezone", "interval", "wifiIdle", "storedSsids", "wifiSetup", "syncNow"}

ASSUME ScreensAssumption == MaxProfiles \in Nat \ {0} /\ Fixes \subseteq SUBSET Items

Offers ==
    [general |-> GeneralItems, security |-> {"pinToggle", "pinChange"}, time |-> {"timezone"},
     network1 |-> {"storedSsids", "wifiSetup"}, network2 |-> {"interval", "wifiIdle", "syncNow"},
     nvs |-> NvsItems, apps |-> {"appSettings"}]

Views == {"pages", "ssids", "delete", "clearTouchCalib", "clearAppData", "clearNvs", "restart", "pinOff"}
Confirmations == Views \ {"pages", "ssids"}
DirectItem == [ssids |-> "storedSsids", clearTouchCalib |-> "clearTouchCalib", clearNvs |-> "clearNvs"]

(* A page leaves the rotation when all of its items are hidden. *)
PageEnabled(page) ==
    /\ page = "general" => ~(GeneralItems \subseteq hidden)
    /\ page = "nvs" => ~(NvsItems \subseteq hidden)

ActivePages == {i \in DOMAIN PageTable : PageEnabled(PageTable[i])}
IndexOf(page) == CHOOSE i \in DOMAIN PageTable : PageTable[i] = page

(* cyd_settings_rebuild_active_pages: the page stays, or the first one that is left takes its place. *)
OnActivePage(a) ==
    IF PageEnabled(a.page) THEN a
    ELSE [a EXCEPT !.page = PageTable[CHOOSE i \in ActivePages : \A j \in ActivePages : i <= j]]

Rows == <<"first", "second", "third", "fourth", "fifth">>   \* the list of SSIDs

Buttons ==
    CASE built.view = "pages" -> Offers[built.page] \cup {"prev", "next", "back"}
      [] built.view = "ssids" -> {Rows[i] : i \in DOMAIN built.ssids}
                                   \cup {"prefer", "delete", "back"}
      [] OTHER                -> {"cancel", "confirm"}

Screen(a) ==
    [view |-> a.view, page |-> a.page,
     ssids |-> IF a.view \in {"ssids", "delete"} THEN a.list ELSE <<>>,
     selected |-> IF a.view \in {"ssids", "delete"} THEN a.selected ELSE 1]

Refresh(a) == app' = OnActivePage(a) /\ built' = Screen(OnActivePage(a))
Quiet(a) == app' = a /\ UNCHANGED built

(* cyd_settings_load_profiles: the selection stays on the list. A read that fails leaves the list *)
(* empty.                                                                                        *)
Loaded(a) ==
    [a EXCEPT !.list = store,
              !.selected = IF store = <<>> THEN 1 ELSE IF @ > Len(store) THEN Len(store) ELSE @]
LoadFailed(a) == [a EXCEPT !.list = <<>>]
LoadAndRefresh(a) == Refresh(Loaded(a)) \/ Quiet(LoadFailed(a))

Nothing == [item |-> "none", ssid |-> "none", named |-> "none"]
NothingDone == done' = Nothing
Does(item) == done' = [item |-> item, ssid |-> "none", named |-> "none"]
DoesTo(item, ssid) ==
    done' = [item |-> item, ssid |-> ssid, named |-> built.ssids[built.selected]]

-----------------------------------------------------------------------------
(* Start, entering and leaving. *)
Off ==
    [view |-> "pages", page |-> "general", direct |-> "none", returnApp |-> "none", forced |-> FALSE,
     list |-> <<>>, selected |-> 1]

NoTouch == [pending |-> "none", long |-> FALSE]

ScreensInit ==
    /\ place = "off"
    /\ app = Off
    /\ armed = "none"
    /\ built = Screen(Off)
    /\ tracker = NoTouch
    /\ finger = FALSE
    /\ store \in {s \in [1..MaxProfiles -> Ssids] : \A i, j \in 1..MaxProfiles : s[i] = s[j] => i = j}
    /\ hidden \in Fixes
    /\ invalid \in BOOLEAN
    /\ pin = FALSE
    /\ done = Nothing

(* cyd_settings_app_enter, from the app that it was entered from ("none" at boot, "sub" when a    *)
(* screen of its own comes back).                                                                *)
Skipped(direct) ==
    /\ direct \in DOMAIN DirectItem
    /\ ~(direct = "clearNvs" /\ invalid)
    /\ DirectItem[direct] \in hidden

Entered(from) ==
    LET direct == IF Skipped(armed) THEN "none" ELSE armed
        page == CASE direct = "ssids" -> "network1"
                  [] direct \in {"clearTouchCalib", "clearNvs"} -> "nvs"
                  [] OTHER -> IF from = "sub" THEN app.page ELSE "general"
        view == IF direct = "none" THEN "pages" ELSE direct
        fits == (invalid /\ view = "clearNvs") \/ PageEnabled(page)
    IN  [app EXCEPT !.forced = invalid, !.returnApp = IF from = "app" THEN "app" ELSE @,
                    !.direct = IF fits THEN direct ELSE "none", !.page = IF fits THEN page ELSE "general",
                    !.view = IF fits THEN view ELSE "pages", !.selected = 1]

Enter(from) ==
    /\ place' = "in"
    /\ armed' = "none"
    /\ \/ Refresh(Loaded(OnActivePage(Entered(from)))) /\ tracker' = NoTouch
       \/ Quiet(LoadFailed(OnActivePage(Entered(from)))) /\ UNCHANGED tracker
    /\ done' = Nothing
    /\ UNCHANGED <<finger, store, hidden, invalid, pin>>

EnterFromApp == place = "away" /\ Enter("app")
ComeBack == place = "sub" /\ Enter("sub")

(* Another app asks for one of the views; which it does before it switches here. *)
Arm(view) ==
    /\ place = "away"
    /\ armed' = view
    /\ UNCHANGED <<place, app, built, tracker, finger, store, hidden, invalid, pin>>
    /\ NothingDone

(* The device starts: RAM is lost, and flash that was erased holds no profile, no PIN and nothing *)
(* invalid. The boot arms Initialize NVS when stored data cannot be read, or opens the settings   *)
(* for a finger that was held on the panel; else the clock starts.                               *)
Boot ==
    /\ place = "off"
    /\ app' = Off /\ built' = Screen(Off)
    /\ tracker' = NoTouch /\ finger' = FALSE
    /\ IF done.item = "clearNvs" THEN store' = <<>> /\ invalid' = FALSE /\ pin' = FALSE
       ELSE UNCHANGED <<store, invalid, pin>>
    /\ armed' = IF invalid' THEN "clearNvs" ELSE "none"
    /\ place' \in IF invalid' THEN {"booting"} ELSE {"booting", "away"}
    /\ NothingDone
    /\ UNCHANGED hidden

EnterAtBoot == place = "booting" /\ Enter("boot")

(* Sub screens may change the PIN; Wi-Fi setup and the manager change the profiles (below). *)
SubScreenSetsPin ==
    /\ place = "sub"
    /\ pin' \in BOOLEAN
    /\ UNCHANGED <<place, app, armed, built, tracker, finger, store, hidden, invalid>>
    /\ NothingDone

(* The manager's task stores a network that it connected to, as the newest, and drops the oldest  *)
(* when there is no room.                                                                        *)
OnlyOthers(ssid) == RemoveFirst(store, ssid)

StoreProfile(ssid) ==
    /\ place # "off"
    /\ store' = LET s == <<ssid>> \o OnlyOthers(ssid)
                IN  SubSeq(s, 1, IF Len(s) > MaxProfiles THEN MaxProfiles ELSE Len(s))
    /\ UNCHANGED <<place, app, armed, built, tracker, finger, hidden, invalid, pin>>
    /\ NothingDone

-----------------------------------------------------------------------------
(* What an action does, by the view or page that is up. Each leaves the other variables alone     *)
(* but for those that the step as a whole frames.                                                *)
Stay == UNCHANGED <<place, store, pin>>
Ignore == Stay /\ Quiet(app) /\ NothingDone

GoTo(where) == place' = where /\ Quiet(app) /\ UNCHANGED <<store, pin>>
Restart(item) == GoTo("off") /\ Does(item)
Open(view) == Stay /\ Refresh([app EXCEPT !.view = view]) /\ NothingDone

(* cyd_settings_handle_stored_ssids_action *)
StoredSsidsAction(b) ==
    \/ /\ \E i \in DOMAIN Rows :
            /\ b = Rows[i]
            /\ IF i <= Len(app.list) THEN Refresh([app EXCEPT !.selected = i]) ELSE Quiet(app)
       /\ Stay /\ NothingDone
    \/ /\ b = "prefer" /\ app.list # <<>>
       /\ LET ssid == app.list[app.selected] IN
          \/ /\ \E i \in DOMAIN store : store[i] = ssid
             /\ store' = <<ssid>> \o OnlyOthers(ssid)
             /\ Refresh([app EXCEPT !.list = store']) \/ Quiet(LoadFailed(app))
             /\ DoesTo("prefer", ssid)
             /\ UNCHANGED <<place, pin>>
          \/ Ignore
    \/ b = "delete" /\ app.list # <<>> /\ Open("delete")
    \/ /\ b \in {"prefer", "delete"} /\ app.list = <<>> /\ Ignore
    \/ /\ b = "back"
       /\ IF app.direct = "ssids" THEN GoTo("away") /\ NothingDone ELSE Open("pages")

(* cyd_settings_handle_delete_confirm_action *)
DeleteConfirmAction(b) ==
    \/ b = "cancel" /\ Open("ssids")
    \/ b = "confirm" /\ app.list = <<>> /\ Ignore
    \/ /\ b = "confirm" /\ app.list # <<>>
       /\ LET ssid == app.list[app.selected] IN
          \/ /\ \E i \in DOMAIN store : store[i] = ssid
             /\ store' = OnlyOthers(ssid)
             /\ LET a == [app EXCEPT !.view = "ssids", !.list = store',
                                     !.selected = IF store' = <<>> THEN 1
                                                  ELSE IF @ > Len(store') THEN Len(store') ELSE @]
                IN  Refresh(a) \/ Quiet(LoadFailed([app EXCEPT !.view = "ssids"]))
             /\ DoesTo("delete", ssid)
             /\ UNCHANGED <<place, pin>>
          \/ Ignore

(* The other confirmations. A forced Initialize NVS has no way back. An erase that fails stays on *)
(* the screen, or, for the apps' data, goes back to the page.                                    *)
ConfirmAction(b) ==
    \/ /\ b = "cancel"
       /\ IF app.view = "clearNvs" /\ app.forced THEN Ignore
          ELSE IF app.direct = app.view THEN GoTo("away") /\ NothingDone
          ELSE Open("pages")
    \/ /\ b = "confirm" /\ app.view \in {"clearTouchCalib", "clearNvs"}
       /\ Restart(app.view) \/ Ignore
    \/ /\ b = "confirm" /\ app.view = "clearAppData"
       /\ Restart(app.view) \/ Open("pages")
    \/ b = "confirm" /\ app.view = "restart" /\ Restart("restart")
    \/ /\ b = "confirm" /\ app.view = "pinOff"
       /\ \/ pin' = FALSE /\ Refresh([app EXCEPT !.view = "pages"]) /\ UNCHANGED <<place, store>>
             /\ Does("pinOff")
          \/ Ignore

(* The handlers of the pages; an action that is not the page's own is left to the chrome. *)
PageAction(b) ==
    \/ b \in Steppers \cup {"theme", "syncNow"} /\ Does(b) /\ Refresh(app) /\ Stay
    \/ b \in {"touchCalibrate", "wifiSetup"} /\ GoTo("sub") /\ Does(b)
    \/ b = "appSettings" /\ GoTo("sub") /\ NothingDone
    \/ /\ b = "storedSsids"
       /\ LoadAndRefresh([app EXCEPT !.view = "ssids"])
       /\ Does(b) /\ Stay
    \/ b \in NvsItems /\ Open(b)
    \/ b = "pinToggle" /\ pin /\ Open("pinOff")
    \/ b \in {"pinToggle", "pinChange"} /\ (pin <=> b = "pinChange") /\ GoTo("sub") /\ NothingDone
    \/ b = "pinChange" /\ ~pin /\ Ignore

(* Back: to where the user came from, or, when the device started here, to the question of a      *)
(* restart.                                                                                      *)
Back ==
    IF app.returnApp = "none" THEN Open("restart") ELSE GoTo("away") /\ NothingDone

Turn(i) == Stay /\ Refresh([app EXCEPT !.page = PageTable[i]]) /\ NothingDone

PageNav(b) ==
    LET before == {i \in ActivePages : i < IndexOf(app.page)}
        after == {i \in ActivePages : i > IndexOf(app.page)} IN
    \/ b = "prev" /\ IF before = {} THEN Ignore ELSE \E i \in before : (\A j \in before : j <= i) /\ Turn(i)
    \/ b = "next" /\ IF after = {} THEN Ignore ELSE \E i \in after : (\A j \in after : i <= j) /\ Turn(i)

Belongs(b) ==
    CASE app.view = "pages"        -> b \in Offers[app.page] \cup {"back", "prev", "next"}
      [] app.view = "ssids"        -> b \notin {"cancel", "confirm"} /\ b \notin UNION {Offers[p] : p \in DOMAIN Offers}
      [] app.view \in Confirmations -> app.view = built.view /\ b \in {"cancel", "confirm"}

(* cyd_settings_handle_active_screen_action, after the page navigation, before the way back. The  *)
(* action of a fixed item is dropped first.                                                      *)
Act(b) ==
    IF b \in hidden THEN Ignore
    ELSE IF b \in {"prev", "next"} THEN PageNav(b)
    ELSE IF ~Belongs(b) THEN (IF b = "back" THEN Back ELSE Ignore)
    ELSE CASE app.view = "pages"  -> (IF b = "back" THEN Back ELSE PageAction(b))
           [] app.view = "ssids"  -> StoredSsidsAction(b)
           [] app.view = "delete" -> DeleteConfirmAction(b)
           [] OTHER               -> ConfirmAction(b)

-----------------------------------------------------------------------------
(* A step of the app with an event: a stepper acts on the press and on repeats; any other button  *)
(* when it is released where it was pressed, before it counts as long.                           *)
IsStepper(b) == b \in Steppers /\ app.view = "pages" /\ app.page \in StepperPages

Frame == UNCHANGED <<armed, hidden, invalid>>

Press(b) ==
    /\ place = "in" /\ ~finger
    /\ finger' = TRUE
    /\ IF IsStepper(b)
       THEN Act(b) /\ UNCHANGED tracker
       ELSE tracker' = [pending |-> b, long |-> FALSE] /\ Ignore
    /\ Frame

Hold(b) ==
    /\ place = "in" /\ finger
    /\ IF IsStepper(b)
       THEN Act(b) /\ UNCHANGED tracker
       ELSE tracker' = [tracker EXCEPT !.long = @ \/ tracker.pending # "none"] /\ Ignore
    /\ UNCHANGED finger
    /\ Frame

Release(b) ==
    /\ place = "in" /\ finger
    /\ finger' = FALSE
    /\ IF tracker.pending = b /\ b # "none" /\ ~tracker.long THEN Act(b) ELSE Ignore
    /\ tracker' = NoTouch
    /\ Frame

(* A step without an event: a sync that waited for the connection has been told, and a page with  *)
(* live status is built again when the status changed.                                           *)
Poll ==
    /\ place = "in"
    /\ app.view = "pages" /\ app.page \in LivePages
    /\ Refresh(app)
    /\ UNCHANGED <<place, armed, tracker, finger, store, hidden, invalid, pin>>
    /\ NothingDone

(* Idle return, an error, or a reset: the settings are left without a touch. *)
Thrown ==
    /\ place \in {"in", "sub"}
    /\ place' \in IF app.returnApp = "none" THEN {"off"} ELSE {"away", "off"}
    /\ finger' = FALSE
    /\ UNCHANGED <<app, armed, built, tracker, store, hidden, invalid, pin>>
    /\ NothingDone

-----------------------------------------------------------------------------
ScreensNext ==
    \/ Boot \/ EnterAtBoot \/ EnterFromApp \/ ComeBack \/ SubScreenSetsPin
    \/ \E view \in DOMAIN DirectItem \ {"clearNvs"} : Arm(view)
    \/ \E ssid \in Ssids : StoreProfile(ssid)
    \/ \E b \in Buttons \cup {"none"} : Press(b) \/ Hold(b) \/ Release(b)
    \/ Poll \/ Thrown

-----------------------------------------------------------------------------
Lists == UNION {[1..n -> Ssids] : n \in 0..MaxProfiles}

ScreensTypeOK ==
    /\ place \in {"off", "booting", "in", "sub", "away"}
    /\ app \in [view : Views, page : DOMAIN Offers, direct : DOMAIN DirectItem \cup {"none"},
                 returnApp : {"none", "app"}, forced : BOOLEAN, list : Lists,
                 selected : 1..MaxProfiles]
    /\ armed \in DOMAIN DirectItem \cup {"none"}
    /\ built \in [view : Views, page : DOMAIN Offers, ssids : Lists, selected : 1..MaxProfiles]
    /\ tracker.long \in BOOLEAN
    /\ finger \in BOOLEAN /\ invalid \in BOOLEAN /\ pin \in BOOLEAN
    /\ store \in Lists /\ hidden \subseteq Items

(* The network that is deleted, or moved to the front, is the one whose name is on the screen,   *)
(* although the manager reorders, adds and drops profiles while the list is shown, a list may    *)
(* fail to load behind a screen that stays, and the selection outlives the list                   *)
(* (system_settings_app.c:982-1061).                                                             *)
DeletesTheShown == done.item \in {"delete", "prefer"} => done.ssid = done.named

(* What the product hid stays out of reach, on every way in: pages, buttons that are still on a   *)
(* screen, and views that another app asked for. Only Initialize NVS opens regardless, and only   *)
(* when stored data is invalid (system_settings_app.c:896-956, system_settings_fix.c).            *)
HiddenStaysHidden ==
    /\ done.item \in hidden => done.item = "clearNvs" /\ app.forced
    /\ place = "in" /\ app.view \in NvsItems \cap hidden => app.view = "clearNvs" /\ app.forced
    /\ place = "in" /\ app.view \in {"ssids", "delete"} => "storedSsids" \notin hidden
=============================================================================
