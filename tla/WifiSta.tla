------------------------------- MODULE WifiSta -------------------------------
(***************************************************************************)
(* The Wi-Fi station driver wrapper, components/services/esp32_wifi_sta.   *)
(*                                                                         *)
(* Two tasks touch `sta`: the owner task, through the operations below     *)
(* (init_with_config, start, enter_scan_mode, stop), and the ESP-IDF event *)
(* task, through OnWifiEvent and OnIpEvent.  ESP-IDF itself is external:   *)
(* it moves sta.link and posts events, which wait in `posted` until the    *)
(* event task runs their handler.                                          *)
(*                                                                         *)
(* The module has no Next of its own: the owner task is the task of        *)
(* WifiConnection, which composes these operators with its own.            *)
(***************************************************************************)
EXTENDS Naturals, Sequences

CONSTANTS
    Networks,       \* the access points that exist; a network stands for its SSID and password
    NoNetwork,      \* no configuration given to the driver
    Reasons,        \* why a disconnect may happen, as map_disconnect_reason() classifies it
    Backlog         \* how many posted events the event task may leave unhandled
                    \* while the owner task operates the station; 0: it outranks the owner

ASSUME NetworkAssumption == NoNetwork \notin Networks
ASSUME ReasonAssumption  == Reasons \subseteq {"noAp", "auth", "timeout", "connect"}
ASSUME BacklogAssumption == Backlog \in Nat

VARIABLES
    sta,            \* s_wifi_sta, and what ESP-IDF does for it: the link, the network it
                    \* joins, and whether that network has admitted it since it was asked
    posted          \* events in the ESP-IDF event loop, oldest first

staVars == <<sta, posted>>

-----------------------------------------------------------------------------
Failures == {"none", "noProfile", "noAp", "auth", "timeout", "connect"}

(* The events of WIFI_EVENT and IP_EVENT that have a handler. *)
DriverEvents == [kind: {"disconnected"}, reason: Reasons \cup {"left"}]
                  \cup [kind: {"gotIp"}, reason: {"none"}]

GotIp == [kind |-> "gotIp", reason |-> "none"]
Disconnected(reason) == [kind |-> "disconnected", reason |-> reason]

(* A disconnect the owner asked for reports WIFI_REASON_ASSOC_LEAVE. *)
MapReason(reason) == IF reason = "left" THEN "connect" ELSE reason

StaType ==
    /\ sta \in [ started: BOOLEAN, requested: BOOLEAN, hasIp: BOOLEAN,
                 state: {"stopped", "connecting", "connected", "failed", "scan"},
                 link: {"down", "joining", "up"}, net: Networks \cup {NoNetwork},
                 admitted: BOOLEAN ]
    /\ posted \in Seq(DriverEvents)

StaInit ==
    /\ sta = [ started |-> FALSE, requested |-> FALSE, hasIp |-> FALSE, state |-> "stopped",
               link |-> "down", net |-> NoNetwork, admitted |-> FALSE ]
    /\ posted = <<>>

(* esp32_wifi_sta_is_connected(). *)
IsConnected == sta.state = "connected" /\ sta.hasIp

-----------------------------------------------------------------------------
(* ESP-IDF: esp_wifi_disconnect() and esp_wifi_stop() drop the link and post *)
(* the disconnect; both do nothing to a station that has no link.            *)
DropLink(s) == [s EXCEPT !.link = "down", !.net = NoNetwork, !.admitted = FALSE]
PostLeave(s, events) ==
    IF s.link = "down" THEN events ELSE Append(events, Disconnected("left"))

(* The event task keeps up with the owner task up to Backlog events. *)
EventTaskKeepsUp == Len(posted) <= Backlog

(* esp32_wifi_sta_stop(), which its callers skip before the first use of the *)
(* driver.  `ok` is the result of esp_wifi_stop(): when it fails, the flags  *)
(* and the state stay, though the link is gone.                              *)
Stop(ok) ==
    /\ EventTaskKeepsUp
    /\ ~sta.started => ok
    /\ IF ~sta.started
       THEN UNCHANGED staVars
       ELSE LET quiet == [DropLink(sta) EXCEPT !.requested = FALSE]
            IN  /\ posted' = PostLeave(sta, posted)
                /\ sta' = IF ok THEN [quiet EXCEPT !.started = FALSE, !.hasIp = FALSE,
                                                   !.state = "stopped"]
                                ELSE quiet

(* esp32_wifi_sta_enter_scan_mode(): `result` says which driver call failed. *)
ScanMode(result) ==
    /\ EventTaskKeepsUp
    /\ result \in {"ok", "startFailed", "scanFailed"}
    /\ result = "startFailed" => ~sta.started
    /\ posted' = PostLeave(sta, posted)
    /\ sta' = [DropLink(sta) EXCEPT !.requested = FALSE, !.hasIp = FALSE,
                                    !.state = "scan", !.started = (result # "startFailed")]

(* esp32_wifi_sta_init_with_config() followed by esp32_wifi_sta_start(), as   *)
(* the attempt makes them: the second only if the first succeeds.  `result`   *)
(* says how far they got.  A station that is started and still "connected"    *)
(* (its stop failed) is not connected again: start() returns ESP_OK at once.  *)
Reconfigured ==
    IF sta.started THEN [DropLink(sta) EXCEPT !.requested = FALSE] ELSE sta

StartResults == {"ok", "configFailed", "startFailed", "connectFailed"}

InitAndStart(net, result) ==
    LET stale == sta.started /\ sta.state = "connected"
    IN  /\ EventTaskKeepsUp
        /\ result = "startFailed" => ~sta.started
        /\ stale => result \in {"ok", "configFailed"}
        /\ posted' = IF sta.started THEN PostLeave(sta, posted) ELSE posted
        /\ sta' = CASE result = "configFailed" \/ stale -> Reconfigured
                    [] result = "startFailed" -> [Reconfigured EXCEPT !.state = "stopped"]
                    [] result = "connectFailed" -> [Reconfigured EXCEPT
                            !.started = TRUE, !.requested = FALSE, !.state = "failed"]
                    [] OTHER -> [Reconfigured EXCEPT
                            !.started = TRUE, !.requested = TRUE, !.state = "connecting",
                            !.link = "joining", !.net = net]

-----------------------------------------------------------------------------
(* ESP-IDF: the access point admits the station, refuses it, or drops it. *)
Join ==
    /\ sta.link = "joining"
    /\ sta' = [sta EXCEPT !.link = "up", !.admitted = TRUE]
    /\ posted' = Append(posted, GotIp)

EndLink(reason) ==
    /\ sta.link # "down"
    /\ sta' = [sta EXCEPT !.link = "down"]
    /\ posted' = Append(posted, Disconnected(reason))

(* esp32_wifi_sta_on_wifi_event(): clears the address first, and reports only *)
(* the end of an attempt or link that somebody asked for.                     *)
OnWifiEvent ==
    sta' = IF sta.requested
           THEN [sta EXCEPT !.hasIp = FALSE, !.requested = FALSE, !.state = "failed"]
           ELSE [sta EXCEPT !.hasIp = FALSE]

(* esp32_wifi_sta_on_ip_event(): an address nobody asked for is stale. *)
OnIpEvent ==
    sta' = IF sta.requested
           THEN [sta EXCEPT !.hasIp = TRUE, !.state = "connected"]
           ELSE sta
=============================================================================
