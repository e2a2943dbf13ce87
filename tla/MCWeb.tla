-------------------------------- MODULE MCWeb ---------------------------------
(***************************************************************************)
(* What browsers use: WebSocket frames, requests with their answers,        *)
(* uploads of firmware, the log, and the pages of the WiFi station.  Each   *)
(* is a part of its own, and what connects them, the call of a CGI, is a    *)
(* free choice on either side; joining a network shares only the mode with  *)
(* scanning.  To interleave them would only multiply the states, so that    *)
(* each behaviour follows one of them while the others rest.                *)
(***************************************************************************)
EXTENDS Httpd, WsFrame, OtaUpload, WebLog, Wifi

VARIABLE followed

rest == <<wsVars, otaVars, logVars, wifiVars, followed>>

WebInit ==
  /\ followed \in {"frames", "requests", "upgrade", "log", "scan", "join"}
  /\ Init /\ WsInit /\ OtaInit /\ LogInit /\ WifiInit
  /\ followed # "frames" => frame = CHOOSE f \in Frames : TRUE
  /\ followed # "requests" => request = CHOOSE q \in Requests : TRUE
  /\ followed # "upgrade" => running = 1
  /\ followed \notin {"scan", "join"} => opmode = "STA"
  /\ followed # "scan" => mcu.sscp_events

WebNext ==
  /\ UNCHANGED followed
  /\ \/ followed = "frames" /\ WsNext /\ UNCHANGED <<vars, otaVars, logVars, wifiVars>>
     \/ followed = "requests" /\ Next /\ UNCHANGED <<wsVars, otaVars, logVars, wifiVars>>
     \/ followed = "upgrade" /\ OtaNext /\ UNCHANGED <<vars, wsVars, logVars, wifiVars>>
     \/ followed = "log" /\ LogNext /\ UNCHANGED <<vars, wsVars, otaVars, wifiVars>>
     \/ followed = "scan" /\ ScanNext /\ UNCHANGED <<vars, wsVars, otaVars, logVars>>
     \/ followed = "join" /\ JoinNext /\ UNCHANGED <<vars, wsVars, otaVars, logVars>>

FrameStep(A) ==
  followed = "frames" /\ A /\ UNCHANGED <<vars, otaVars, logVars, wifiVars, followed>>
ServerStep(A) == followed = "requests" /\ A /\ UNCHANGED rest
StationStep(f, A) ==
  followed = f /\ A /\ UNCHANGED <<vars, wsVars, otaVars, logVars, followed>>

\* The fairness of WsFrame, of Httpd and of Wifi.
WebSpec ==
  /\ WebInit /\ [][WebNext]_<<vars, rest>>
  /\ WF_wsVars(FrameStep(wsSentCb)) /\ WF_wsVars(FrameStep(cgiWebSocketRecv))
  /\ WF_vars(ServerStep(Receiving)) /\ WF_vars(ServerStep(Confirmation))
  /\ WF_wifiVars(StationStep("scan", ScanEnds)) /\ WF_wifiVars(StationStep("scan", setModeCb))
  /\ WF_wifiVars(StationStep("join", resetTimerCb))

F(o, fin, masked, form, len) ==
  [opcode |-> o, fin |-> fin, masked |-> masked, form |-> form, len |-> len]
MCFrames ==
  { F("text", TRUE, TRUE, "short", 0), F("text", FALSE, TRUE, "short", 6),
    F("binary", TRUE, TRUE, "medium", 3), F("continue", TRUE, TRUE, "long", 5),
    F("text", TRUE, FALSE, "short", 1), F("ping", TRUE, TRUE, "short", 2),
    F("ping", TRUE, FALSE, "medium", 3), F("pong", TRUE, TRUE, "short", 0),
    F("close", TRUE, TRUE, "short", 2), F("close", TRUE, TRUE, "short", 0) }

MCRequests ==
  [known : {TRUE}, head : {2}, len : {0, 1, 3, 5}, extra : {0, 2}]
    \cup {[known |-> FALSE, head |-> 2, len |-> 0, extra |-> 0]}

Ota(fits, len1, len2, size) ==
  [kind |-> "ota", fits |-> fits, len1 |-> len1, len2 |-> len2, size |-> size]
MCFiles ==
  { Ota(TRUE, 5, 3, 10), Ota(TRUE, 2, 4, 7), Ota(TRUE, 9, 0, 11), Ota(TRUE, 0, 7, 9),
    Ota(FALSE, 1, 1, 4), Ota(TRUE, 1, -1, 3), Ota(TRUE, 1, 1, 1),
    [kind |-> "bin", fits |-> FALSE, len1 |-> 0, len2 |-> 0, size |-> 3] }
MCPartAt == [i \in {1, 2} |-> IF i = 1 THEN 0 ELSE 4]
===============================================================================
