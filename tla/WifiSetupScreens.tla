---------------------------- MODULE WifiSetupScreens ----------------------------
(* The screens of Wi-Fi setup (cyd_wifi_setup.c): the list of networks in pages, the  *)
(* password, the connect test, and the dialog of a test that failed. A scan and a test *)
(* block the app's task for seconds while touches go on being queued. What the calls   *)
(* do to the connection is WifiConnection's matter, the keyboard is CydTextInput's.    *)
EXTENDS Naturals, Sequences

CONSTANTS
    ScanLists,      \* the lists of networks that a scan may give
    PerPage,        \* CYD_WIFI_SETUP_VIEW_APS_PER_PAGE
    MaxInput        \* CONFIG_CYD_INPUT_QUEUE_LENGTH

(* A scan's list is a sequence; the view has four rows at most. *)
ASSUME SetupAssumption ==
    /\ \A records \in ScanLists : records \in Seq({records[i] : i \in DOMAIN records})
    /\ PerPage \in 1..4
    /\ MaxInput \in Nat

VARIABLES
    setup,      \* the app: [at, active]
    scan,       \* s_scan_session: [records, page, visible]
    chosen,     \* the record of the password session
    shown,      \* the screen that is up: [screen, page, rows]
    follow,     \* s_scan_session.touch_tracker, or the dialog's: [pending, long, early]
    touches,    \* the event queue: [action, on, early]; early (history): made during a wait
    taken       \* history: the action that was just taken, with the touches it came from

setupVars == <<setup, scan, chosen, shown, follow, touches, taken>>

NoFollow == [pending |-> "none", long |-> FALSE, early |-> FALSE]
NoneTaken == [ssid |-> "none", named |-> "none", early |-> FALSE]
ListOf(screen, page, rows) == [screen |-> screen, page |-> page, rows |-> rows]

SetupInit ==
    /\ setup = [at |-> "away", active |-> FALSE]
    /\ scan = [records |-> <<>>, page |-> 0, visible |-> 0]
    /\ chosen = "none"
    /\ shown = ListOf("other", 0, <<>>)
    /\ follow = NoFollow
    /\ touches = <<>>
    /\ taken = NoneTaken

-----------------------------------------------------------------------------
(* The list. *)

(* wifi_scan_session_page_count *)
PageCount(records) == IF records = <<>> THEN 1 ELSE (Len(records) + PerPage - 1) \div PerPage

OnPage(records, page) ==
    LET first == page * PerPage
        left == Len(records) - first IN
    SubSeq(records, first + 1, first + (IF left < PerPage THEN left ELSE PerPage))

PageWithin(page, records) == IF page >= PageCount(records) THEN PageCount(records) - 1 ELSE page

(* wifi_show_scan_screen, of a list that is complete *)
ShowList(records, page) ==
    LET p == PageWithin(page, records) IN
    /\ scan' = [records |-> records, page |-> p, visible |-> Len(OnPage(records, p))]
    /\ shown' = ListOf("list", p, OnPage(records, p))

(* ... and while it is being made *)
ShowScanning ==
    /\ scan' = [records |-> <<>>, page |-> 0, visible |-> 0]
    /\ shown' = ListOf("scanning", 0, <<>>)

RowButtons == <<"row 1", "row 2", "row 3", "row 4">>

SetupButtons ==
    CASE shown.screen = "list"     -> {RowButtons[i] : i \in DOMAIN shown.rows} \cup {"back", "rescan", "prev", "next"}
      [] shown.screen = "password" -> {"cancel", "save"}
      [] shown.screen = "failed"   -> {"ok"}
      [] OTHER                     -> {}

-----------------------------------------------------------------------------
Waiting == {"scanning", "scanned", "testing", "told"}

(* The user, at any time: also on a screen that is about to go. *)
Touch(action, b) ==
    /\ setup.at # "away"
    /\ Len(touches) < MaxInput
    /\ touches' = Append(touches, [action |-> action, on |-> b, early |-> setup.at \in Waiting])
    /\ UNCHANGED <<setup, scan, chosen, shown, follow, taken>>

-----------------------------------------------------------------------------
(* Scanning: wifi_refresh_scan_session, in the steps between which the user may touch. *)

BeginScan ==
    /\ setup' = [at |-> "scanning", active |-> TRUE]
    /\ ShowScanning

(* cyd_wifi_setup_app_enter: setup begins unless it is still active. *)
EnterSetup ==
    /\ setup.at = "away"
    /\ BeginScan
    /\ follow' = NoFollow
    /\ UNCHANGED <<chosen, touches, taken>>

(* A scan that fails shows no networks. *)
ScanEnds ==
    /\ setup.at = "scanning"
    /\ \E records \in ScanLists : ShowList(records, 0)
    /\ setup' = [setup EXCEPT !.at = "scanned"]
    /\ UNCHANGED <<chosen, follow, touches, taken>>

(* Mistaken: touches of the wait stay in the queue. *)
KeepInput(tracker) == follow' = tracker /\ UNCHANGED touches

(* wifi_discard_pending_input *)
DiscardInput(tracker) == follow' = tracker /\ touches' = <<>>

ScanShown ==
    /\ setup.at = "scanned"
    /\ setup' = [setup EXCEPT !.at = "list"]
    /\ DiscardInput(NoFollow)
    /\ taken' = NoneTaken
    /\ UNCHANGED <<scan, chosen, shown>>

-----------------------------------------------------------------------------
(* The connect test: wifi_test_connect_and_save and what follows it. *)

BeginTest ==
    /\ setup' = [setup EXCEPT !.at = "testing"]
    /\ shown' = ListOf("connecting", 0, <<>>)
    /\ UNCHANGED <<scan, chosen>>

(* It worked: "saved" is shown for a moment, then the app goes back to where it was opened. *)
TestSucceeds ==
    /\ setup.at = "testing"
    /\ setup' = [at |-> "away", active |-> FALSE]
    /\ shown' = ListOf("other", 0, <<>>)
    /\ touches' = <<>>
    /\ taken' = NoneTaken
    /\ UNCHANGED <<scan, chosen, follow>>

TestFails ==
    /\ setup.at = "testing"
    /\ setup' = [setup EXCEPT !.at = "told"]
    /\ shown' = ListOf("failed", 0, <<>>)
    /\ UNCHANGED <<scan, chosen, follow, touches, taken>>

(* wifi_wait_failed_dialog: its own tracker, and no touches of the wait *)
DialogShown ==
    /\ setup.at = "told"
    /\ setup' = [setup EXCEPT !.at = "dialog"]
    /\ DiscardInput(NoFollow)
    /\ taken' = NoneTaken
    /\ UNCHANGED <<scan, chosen, shown>>

(* The dialog ends by itself when the shell goes home; a scan begins first all the same. *)
DialogGivesUp ==
    /\ setup.at = "dialog"
    /\ BeginScan
    /\ follow' = NoFollow
    /\ UNCHANGED <<chosen, touches, taken>>

-----------------------------------------------------------------------------
(* What an action does. *)

(* cyd_wifi_setup_app_leave, on the way back or thrown out: setup is completed unless it was. *)
Leave ==
    /\ setup' = [at |-> "away", active |-> FALSE]
    /\ shown' = ListOf("other", 0, <<>>)
    /\ UNCHANGED <<scan, chosen>>

(* page_index * APS_PER_PAGE + row *)
RecordAt(page, i) == page * PerPage + i

Choose(i) ==
    /\ chosen' = scan.records[RecordAt(scan.page, i)]
    /\ setup' = [setup EXCEPT !.at = "password"]
    /\ shown' = ListOf("password", 0, <<>>)
    /\ UNCHANGED <<scan>>

Still == UNCHANGED <<setup, scan, chosen, shown>>

(* cyd_wifi_setup_poll_scan_session *)
ListAction(b) ==
    CASE b = "back"   -> Leave
      [] b = "rescan" -> BeginScan /\ UNCHANGED chosen
      [] b = "prev"   -> IF scan.page > 0
                         THEN ShowList(scan.records, scan.page - 1) /\ UNCHANGED <<setup, chosen>>
                         ELSE Still
      [] b = "next"   -> IF scan.page + 1 < PageCount(scan.records)
                         THEN ShowList(scan.records, scan.page + 1) /\ UNCHANGED <<setup, chosen>>
                         ELSE Still
      [] OTHER        -> \E i \in 1..PerPage :
                            b = RowButtons[i] /\ IF i <= scan.visible THEN Choose(i) ELSE Still

(* cyd_wifi_setup_poll_password_session *)
PasswordAction(b) ==
    IF b = "save" THEN BeginTest ELSE BeginScan /\ UNCHANGED chosen

(* The network on the row b of the screen that is up; another button chooses none anew. *)
NamedBy(b) ==
    IF \E i \in DOMAIN shown.rows : RowButtons[i] = b
    THEN shown.rows[CHOOSE i \in DOMAIN shown.rows : RowButtons[i] = b]
    ELSE chosen

ScreenAction(b) ==
    CASE setup.at = "list"     -> ListAction(b)
      [] setup.at = "password" -> PasswordAction(b)
      [] setup.at = "dialog"   -> BeginScan /\ UNCHANGED chosen

(* wifi_touch_event_confirmed_action, and the action when it is confirmed. The tracker of the      *)
(* keyboard starts afresh with it, and so does the list's with a new session.                       *)
ReadTouch ==
    /\ setup.at \in {"list", "password", "dialog"}
    /\ touches # <<>>
    /\ touches' = Tail(touches)
    /\ LET e == Head(touches)
           on == IF e.on \in SetupButtons THEN e.on ELSE "none" IN
        \/ /\ e.action = "press"
           /\ follow' = [pending |-> on, long |-> FALSE, early |-> e.early]
           /\ Still /\ taken' = NoneTaken
        \/ /\ e.action = "hold"
           /\ follow' = [follow EXCEPT !.long = follow.pending # "none"]
           /\ Still /\ taken' = NoneTaken
        \/ /\ e.action = "release"
           /\ follow' = NoFollow
           /\ IF on # "none" /\ on = follow.pending /\ ~follow.long
              THEN /\ ScreenAction(on)
                   /\ taken' = [ssid |-> chosen', named |-> NamedBy(on), early |-> follow.early \/ e.early]
              ELSE Still /\ taken' = NoneTaken

(* An error in a step, or a switch home: leave() is called. *)
ThrownOut ==
    /\ setup.at \in {"list", "password"}
    /\ Leave
    /\ taken' = NoneTaken
    /\ UNCHANGED <<follow, touches>>

SetupNext ==
    \/ \E b \in SetupButtons : Touch("press", b) \/ Touch("release", b)
    \/ \E b \in {"none"} \cup {"row 1", "ok"} : Touch("press", b) \/ Touch("release", b) \/ Touch("hold", b)
    \/ EnterSetup \/ ScanEnds \/ ScanShown
    \/ TestSucceeds \/ TestFails \/ DialogShown \/ DialogGivesUp
    \/ ReadTouch \/ ThrownOut

-----------------------------------------------------------------------------
SetupTypeOK ==
    /\ setup.at \in {"away", "scanning", "scanned", "list", "password", "testing", "told", "dialog"}
    /\ setup.active = (setup.at # "away")
    /\ scan.visible \in 0..PerPage
    /\ Len(touches) <= MaxInput
    /\ follow.long \in BOOLEAN

(* The network that is chosen is the one on the row that was touched, on every page and after every  *)
(* scan; and no touch that was made while a scan or a connect test held the app acts on the screen   *)
(* that comes after it (cyd_wifi_setup.c:182-225, 298-300, 372-386, 437-443).                         *)
ChoosesTheShown ==
    /\ taken.ssid = taken.named
    /\ setup.at = "list" => scan.visible = Len(shown.rows)

TouchesOfTheWaitAreDropped == ~taken.early

(* The setup connects to the network that was on the row, and not for a touch of the wait    *)
(* before it (cyd_wifi_setup.c:182-225, 313-388).                                            *)
SetupActsOnTheShown == ChoosesTheShown /\ TouchesOfTheWaitAreDropped
=============================================================================
