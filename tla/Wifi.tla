--------------------------------- MODULE Wifi ---------------------------------
(***************************************************************************)
(* Scanning, joining and the mode of the WiFi station: the pages of         *)
(* libesphttpd/util/cgiwifi.c, the commands of parallax/sscp-wifi.c and the *)
(* recovery by the reset button (parallax/cgiprop.c).  The SDK scans and    *)
(* joins; access points are counted, time is left out.                      *)
(***************************************************************************)
EXTENDS Integers

CONSTANTS
  Clients,     \* browsers that read the list of access points
  MaxAps,      \* access points a scan finds, at most
  EventModes   \* values of the setting sscp_events

ASSUME WifiAssumption == MaxAps \in Nat /\ EventModes \subseteq BOOLEAN

Modes == {"STA", "AP", "STA+AP"}

VARIABLES
  opmode,        \* wifi_get_opmode
  scanning,      \* how many scans the SDK is working on
  cgiWifiAps,    \* scanInProgress, noAps
  scanCallback,  \* it is set: the microcontroller waits for a scan
  newModeData,   \* inProgress, which goes with its timer; newMode; needScan
  lists,         \* for each client: the pos of the list it is getting, 0 for none
  mcu,           \* sscp_events, scanDone; asked: an APSCAN was answered with S,0
  join,          \* connTryStatus; reass: whose reassTimers are armed; reset: resetTimer is
  gotIp,         \* wifi_station_get_connect_status
  fired,         \* resetFourPressFired; "off" when the timer is disarmed
  refused,       \* history: the scan asked for was not begun, failed, or was forgotten
  unbegun        \* history: the SDK refused a scan

scanVars == <<scanning, cgiWifiAps, scanCallback, newModeData, unbegun>>
joinVars == <<join, gotIp>>
wifiVars == <<opmode, scanVars, lists, mcu, joinVars, fired, refused>>

WifiInit ==
  /\ opmode \in Modes
  /\ scanning = 0 /\ cgiWifiAps = [scanInProgress |-> FALSE, noAps |-> 0]
  /\ scanCallback = FALSE
  /\ newModeData = [inProgress |-> FALSE, newMode |-> "STA", needScan |-> FALSE]
  /\ lists = [c \in Clients |-> 0]
  /\ mcu \in [sscp_events : EventModes, scanDone : {FALSE}, asked : {FALSE}]
  /\ join = [status |-> "idle", reass |-> {}, reset |-> FALSE] /\ gotIp = FALSE
  /\ fired = "no" /\ refused = FALSE /\ unbegun = FALSE

-----------------------------------------------------------------------------
(* Scanning. *)

\* wifi_station_scan; what it answers is not looked at.
Begun ==
  /\ cgiWifiAps' = [cgiWifiAps EXCEPT !.scanInProgress = TRUE]
  /\ \/ scanning' = scanning + 1 /\ UNCHANGED unbegun
     \/ unbegun' = TRUE /\ UNCHANGED scanning

NotBegun == UNCHANGED <<scanning, cgiWifiAps, unbegun>>

\* Mutant of wifiStartScan: a scan in progress does not stop another one.
wifiStartScanAgain ==
  \/ /\ newModeData.inProgress
     /\ newModeData' = [newModeData EXCEPT !.needScan = @ \/ newModeData.newMode = "STA+AP"]
     /\ NotBegun
  \/ /\ ~newModeData.inProgress
     /\ IF opmode = "STA+AP" THEN Begun ELSE NotBegun
     /\ UNCHANGED newModeData

\* wifiStartScan: a change of mode comes first; only in the mode STA+AP are there scans.
wifiStartScan ==
  \/ /\ cgiWifiAps.scanInProgress
     /\ NotBegun /\ UNCHANGED newModeData
  \/ /\ ~cgiWifiAps.scanInProgress /\ newModeData.inProgress
     /\ newModeData' = [newModeData EXCEPT !.needScan = @ \/ newModeData.newMode = "STA+AP"]
     /\ NotBegun
  \/ /\ ~cgiWifiAps.scanInProgress /\ ~newModeData.inProgress
     /\ IF opmode = "STA+AP" THEN Begun ELSE NotBegun
     /\ UNCHANGED newModeData

\* A scan is to come, or there is one.
Scannable == cgiWifiAps'.scanInProgress \/ (newModeData'.inProgress /\ newModeData'.needScan)

\* wifiScanDoneCb, and scan_complete: an event, or a flag for the next POLL.
wifiScanDoneCb(n) ==
  /\ scanning > 0
  /\ scanning' = scanning - 1
  /\ cgiWifiAps' = [scanInProgress |-> FALSE, noAps |-> n]
  /\ mcu' = IF ~scanCallback THEN mcu
            ELSE IF mcu.sscp_events THEN [mcu EXCEPT !.asked = FALSE]
            ELSE [mcu EXCEPT !.scanDone = TRUE]
  /\ scanCallback' = FALSE
  /\ UNCHANGED <<opmode, newModeData, lists, joinVars, fired, refused, unbegun>>

\* wifiScanDoneCb of a scan that failed: the callback stays.
ScanFailed ==
  /\ scanning > 0
  /\ scanning' = scanning - 1
  /\ cgiWifiAps' = [cgiWifiAps EXCEPT !.scanInProgress = FALSE]
  /\ refused' = (refused \/ scanCallback)
  /\ UNCHANGED <<opmode, scanCallback, newModeData, lists, mcu, joinVars, fired, unbegun>>

\* wifi_do_apscan: S,0, whether or not a scan begins; or busy, which only clears scanDone.
wifi_do_apscan ==
  /\ \/ /\ scanCallback
        /\ mcu' = [mcu EXCEPT !.scanDone = FALSE, !.asked = @ /\ ~mcu.scanDone]
        /\ UNCHANGED <<scanVars, refused>>
     \/ /\ ~scanCallback
        /\ scanCallback' = TRUE
        /\ wifiStartScan
        /\ mcu' = [mcu EXCEPT !.scanDone = FALSE, !.asked = TRUE]
        /\ refused' = ~Scannable
  /\ UNCHANGED <<opmode, lists, joinVars, fired>>

\* wifi_check_for_events: the POLL that reports the scan.
wifi_check_for_events ==
  /\ mcu.scanDone
  /\ mcu' = [mcu EXCEPT !.scanDone = FALSE, !.asked = FALSE]
  /\ UNCHANGED <<opmode, scanVars, lists, joinVars, fired, refused>>

\* cgiWiFiScan, first call: a page that says so while there is a scan, or the list.
PageBegins(c) ==
  /\ lists[c] = 0 /\ ~cgiWifiAps.scanInProgress
  /\ lists' = [lists EXCEPT ![c] = 1]
  /\ UNCHANGED <<opmode, scanVars, mcu, joinVars, fired, refused>>

\* cgiWiFiScan, the next calls: one access point each, and a new scan after the last.
PageGoesOn(c) ==
  /\ lists[c] > 0
  /\ \/ /\ cgiWifiAps.scanInProgress           \* the page that says so, in its midst
        /\ lists' = [lists EXCEPT ![c] = 0]
        /\ UNCHANGED scanVars
     \/ /\ ~cgiWifiAps.scanInProgress
        /\ IF lists[c] < cgiWifiAps.noAps
             THEN lists' = [lists EXCEPT ![c] = @ + 1] /\ UNCHANGED scanVars
             ELSE lists' = [lists EXCEPT ![c] = 0] /\ wifiStartScan /\ UNCHANGED scanCallback
  /\ UNCHANGED <<opmode, mcu, joinVars, fired, refused>>

\* cgiWiFiScan is called for the last time as for any other access point, and may begin a
\* scan.
PageGone(c) ==
  /\ lists[c] > 0
  /\ lists' = [lists EXCEPT ![c] = 0]
  /\ IF cgiWifiAps.scanInProgress \/ lists[c] < cgiWifiAps.noAps
       THEN UNCHANGED scanVars
       ELSE wifiStartScan /\ UNCHANGED scanCallback
  /\ UNCHANGED <<opmode, mcu, joinVars, fired, refused>>

-----------------------------------------------------------------------------
(* The mode. *)

\* cgiWiFiSetMode: the mode is set a second later; a scan that waits is forgotten.
cgiWiFiSetMode(mode) ==
  /\ newModeData' = [inProgress |-> TRUE, newMode |-> mode, needScan |-> FALSE]
  /\ refused' = (refused \/ (newModeData.inProgress /\ newModeData.needScan /\ scanCallback))
  /\ UNCHANGED <<opmode, scanning, cgiWifiAps, scanCallback, lists, mcu, joinVars, fired, unbegun>>

\* Mutant of setModeCb: the scan that waits is not begun.
setModeCbOnly ==
  /\ newModeData.inProgress
  /\ opmode' = IF newModeData.newMode \in Modes THEN newModeData.newMode ELSE opmode
  /\ NotBegun
  /\ newModeData' = [newModeData EXCEPT !.inProgress = FALSE]
  /\ UNCHANGED <<scanCallback, lists, mcu, joinVars, fired, refused>>

\* setModeCb; a mode there is not changes nothing.
setModeCb ==
  /\ newModeData.inProgress
  /\ opmode' = IF newModeData.newMode \in Modes THEN newModeData.newMode ELSE opmode
  /\ IF newModeData.needScan THEN Begun ELSE NotBegun
  /\ newModeData' = [newModeData EXCEPT !.inProgress = FALSE]
  /\ UNCHANGED <<scanCallback, lists, mcu, joinVars, fired, refused>>

\* The setting wifi-mode sets the mode at once.
setWiFiMode(mode) ==
  /\ opmode' = mode
  /\ UNCHANGED <<scanVars, lists, mcu, joinVars, fired, refused>>

\* resetButtonTimerCallback, the last press of a series: once.
Recover ==
  /\ fired # "off"
  /\ opmode' = IF fired = "no" THEN "STA+AP" ELSE opmode
  /\ fired' = IF fired = "no" THEN "once" ELSE "off"
  /\ UNCHANGED <<scanVars, lists, mcu, joinVars, refused>>

-----------------------------------------------------------------------------
(* Joining a network. *)

\* cgiWiFiConnect for a page, wifiJoin for the microcontroller: each has a timer.
Connect(timer) ==
  /\ join' = [join EXCEPT !.status = "idle", !.reass = @ \cup {timer}]
  /\ UNCHANGED <<opmode, scanVars, lists, mcu, gotIp, fired, refused>>

cgiWiFiConnect == Connect("page")
wifiJoin == Connect("mcu")

\* reassTimerCb: in the mode STA nothing ends the attempt.
reassTimerCb(timer) ==
  /\ timer \in join.reass
  /\ join' = [status |-> "working", reass |-> join.reass \ {timer},
              reset |-> join.reset \/ opmode # "STA"]
  /\ gotIp' = FALSE
  /\ UNCHANGED <<opmode, scanVars, lists, mcu, fired, refused>>

\* Mutant of resetTimerCb: the attempt is not given up.
resetTimerCbOnly ==
  /\ join.reset
  /\ join' = [join EXCEPT !.reset = FALSE]
  /\ UNCHANGED <<opmode, scanVars, lists, mcu, gotIp, fired, refused>>

\* resetTimerCb
resetTimerCb ==
  /\ join.reset
  /\ join' = [join EXCEPT !.reset = FALSE, !.status = IF gotIp THEN @ ELSE "fail"]
  /\ UNCHANGED <<opmode, scanVars, lists, mcu, gotIp, fired, refused>>

\* cgiWiFiConnStatus: a success arms resetTimer again.
cgiWiFiConnStatus ==
  /\ join.status = "working" /\ gotIp
  /\ join' = [join EXCEPT !.reset = TRUE]
  /\ UNCHANGED <<opmode, scanVars, lists, mcu, gotIp, fired, refused>>

\* The SDK gets an address, or loses it.
Address ==
  /\ gotIp' = ~gotIp
  /\ UNCHANGED <<opmode, scanVars, lists, mcu, join, fired, refused>>

-----------------------------------------------------------------------------
ScanEnds == ScanFailed \/ \E n \in 0..MaxAps : wifiScanDoneCb(n)

ModeChange == Recover \/ \E mode \in Modes : setWiFiMode(mode)

ScanNext ==
  \/ ScanEnds \/ wifi_do_apscan \/ wifi_check_for_events
  \/ \E c \in Clients : PageBegins(c) \/ PageGoesOn(c) \/ PageGone(c)
  \/ setModeCb \/ \E mode \in Modes \cup {"other"} : cgiWiFiSetMode(mode)
  \/ ModeChange

JoinNext ==
  \/ cgiWiFiConnect \/ wifiJoin \/ \E timer \in {"page", "mcu"} : reassTimerCb(timer)
  \/ resetTimerCb \/ cgiWiFiConnStatus \/ Address \/ ModeChange

WifiNext == ScanNext \/ JoinNext

WifiSpec == WifiInit /\ [][WifiNext]_wifiVars

\* The SDK ends each scan, and timers fire.
WifiFairSpec == WifiSpec /\ WF_wifiVars(ScanEnds) /\ WF_wifiVars(setModeCb) /\ WF_wifiVars(resetTimerCb)

-----------------------------------------------------------------------------
(* Properties. *)

\* scanInProgress tells the truth, and the SDK never has two scans to do: the list is
\* not freed by one of them while the other one is awaited.  A scan the SDK refuses stays
\* in progress for good, so that no other one is begun (wifiStartScan, setModeCb).
OneScan ==
  /\ scanning = IF cgiWifiAps.scanInProgress /\ ~unbegun THEN 1 ELSE 0
  /\ unbegun => cgiWifiAps.scanInProgress

\* The scan the microcontroller asked for ends with an event, or with what the next POLL
\* reports, if it could be begun and did not fail.
ScanIsReported == mcu.asked ~> (~mcu.asked \/ mcu.scanDone \/ refused \/ unbegun)

\* The attempt to join a network that a timer watches, be it the one of an earlier attempt,
\* is given up, unless there is an address: the page that polls for the outcome learns of
\* one.
JoinIsDecided == (join.status = "working" /\ join.reset) ~> (join.status # "working" \/ gotIp)
===============================================================================
