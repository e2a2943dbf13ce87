------------------------------- MODULE MCSerial -------------------------------
(***************************************************************************)
(* The serial line: the commands in the bytes that come from the            *)
(* microcontroller, with a buffer of a few characters; the way of the bytes *)
(* from the UART to the TCP connections; and the settings of the line.      *)
(* What the filter passes on is a free choice in Serbridge, and the         *)
(* settings share nothing with the two: to interleave them would only       *)
(* multiply the states, so that each behaviour follows one of them while    *)
(* the others rest.                                                         *)
(***************************************************************************)
EXTENDS SscpFilter, Serbridge, Settings

VARIABLE followed

serialVars == <<vars, bridgeVars, settingVars, followed>>

SerialInit ==
  /\ followed \in {"filter", "bridge", "settings"}
  /\ Init /\ BridgeInit /\ SettingsInit
  /\ followed # "bridge" => sscpEnabled

SerialNext ==
  /\ UNCHANGED followed
  /\ \/ followed = "filter" /\ Next /\ UNCHANGED <<bridgeVars, settingVars>>
     \/ followed = "bridge" /\ BridgeNext /\ UNCHANGED <<vars, settingVars>>
     \/ followed = "settings" /\ SettingsNext /\ UNCHANGED <<vars, bridgeVars>>

SerialSpec == SerialInit /\ [][SerialNext]_serialVars
===============================================================================
