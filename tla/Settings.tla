------------------------------- MODULE Settings -------------------------------
(***************************************************************************)
(* The settings that the microcontroller and browsers read and write one by *)
(* one (parallax/sscp-settings.c), the serial lines some of them set up     *)
(* (esp-link-stuff/uart.c), and the load of the Propeller that takes the    *)
(* first line over.  The flash is in FlashConfig, the load in PropLoader.   *)
(***************************************************************************)
EXTENDS Integers

CONSTANTS
  Values,   \* numbers that are set
  Unset     \* what uart.c takes for a rate before the first call, -1

VARIABLES
  flashConfig,  \* the settings in memory
  saved,        \* those in flash
  line,         \* what the registers of each UART say: [rate, stop]
  known,        \* what uart.c takes for that: uart0_baudRate and the others
  load,         \* a load of the Propeller, with its finalBaudRate
  astray        \* history: UARTs that are not meant in LineAsSet

settingVars == <<flashConfig, saved, line, known, load, astray>>

UARTs == {0, 1}
NoLoad == [on |-> FALSE, final |-> 1]

\* The numbers that set up a line, and settings that cannot be set.
RateOf == [u \in UARTs |-> IF u = 0 THEN "baud-rate" ELSE "dbg-baud-rate"]
StopOf == [u \in UARTs |-> IF u = 0 THEN "stop-bits" ELSE "dbg-stop-bits"]
LineSettings(u) == {RateOf[u], StopOf[u]}
Numbers == LineSettings(0) \cup LineSettings(1)
Unsettable == {"version", "wifi-ssid"}
Refused == {"station-macaddr", "softap-macaddr"}

\* atoi to an int8_t
Int8(v) == ((v + 128) % 256) - 128

\* What a setting keeps of a number.
Kept(name, v) == IF name \in {StopOf[0], StopOf[1]} THEN Int8(v) ELSE v

\* flashDefault; 1 stands for 115200 and for one stop bit.
Default == [n \in Numbers |-> 1]

\* What is set for a line.
AsSet(c, u) == [rate |-> c[RateOf[u]], stop |-> c[StopOf[u]]]

\* uart_init, after configRestore: one stop bit, and 115200 on the second UART.
AtBoot(c, u) == [rate |-> IF u = 0 THEN c[RateOf[u]] ELSE 1, stop |-> 1]

Booted(c) ==
  /\ flashConfig' = c
  /\ line' = [u \in UARTs |-> AtBoot(c, u)]
  /\ known' = [u \in UARTs |-> [rate |-> IF u = 0 THEN c[RateOf[u]] ELSE Unset, stop |-> Unset]]
  /\ load' = NoLoad
  /\ astray' = {u \in UARTs : AtBoot(c, u) # AsSet(c, u)}

SettingsInit ==
  /\ flashConfig = Default /\ saved = Default
  /\ line = [u \in UARTs |-> AtBoot(Default, u)]
  /\ known = [u \in UARTs |-> [rate |-> IF u = 0 THEN 1 ELSE Unset, stop |-> Unset]]
  /\ load = NoLoad /\ astray = {}

Boot == Booted(saved) /\ UNCHANGED saved

-----------------------------------------------------------------------------
(* The lines. *)

\* Mutant of uart_config: nothing is done at the rate there is.
uart_configAtRate(u, want) ==
  LET new == IF known[u].rate # want.rate THEN want ELSE line[u] IN
  /\ line' = [line EXCEPT ![u] = new]
  /\ known' = [known EXCEPT ![u] = new]

\* uart0_config, uart1_config: what is known to be so is not written again.
uart_config(u, want) ==
  /\ line' = [line EXCEPT ![u] =
       [rate |-> IF known[u].rate # want.rate THEN want.rate ELSE @.rate,
        stop |-> IF known[u].stop # want.stop THEN want.stop ELSE @.stop]]
  /\ known' = [known EXCEPT ![u] = want]

-----------------------------------------------------------------------------
(* Commands and requests. *)

\* setBaudrate, setStopBits, setDbgBaudrate, setDbgStopBits
SetLine(u, name, v) ==
  /\ name \in LineSettings(u)
  /\ flashConfig' = [flashConfig EXCEPT ![name] = Kept(name, v)]
  /\ uart_config(u, AsSet(flashConfig', u))
  /\ astray' = IF u = 0 /\ load.on THEN astray \cup {0} ELSE astray \ {u}
  /\ UNCHANGED <<saved, load>>

\* SET of the microcontroller; what cannot be set is answered with an error.
cmds_do_set(name, v) ==
  \/ \E u \in UARTs : SetLine(u, name, v)
  \/ name \in Refused \cup Unsettable /\ UNCHANGED settingVars

\* POST of a browser; the handler of what cannot be set is called though there is none,
\* and the module restarts.
cgiPropSetting(name, v) ==
  \/ \E u \in UARTs : SetLine(u, name, v)
  \/ name \in Refused /\ UNCHANGED settingVars
  \/ name \in Unsettable /\ Boot

\* configSave
Save == saved' = flashConfig /\ UNCHANGED <<flashConfig, line, known, load, astray>>

\* configRestore, configRestoreDefaults: the lines stay as they are.
Restore(c) ==
  /\ flashConfig' = c /\ astray' = UARTs
  /\ UNCHANGED <<saved, line, known, load>>

-----------------------------------------------------------------------------
(* A load. *)

\* startLoading; a request may ask for rates of its own.
startLoading(rate, final) ==
  /\ ~load.on
  /\ load' = [on |-> TRUE, final |-> final]
  /\ uart_config(0, [rate |-> rate, stop |-> 1])
  /\ astray' = IF final = flashConfig[RateOf[0]] THEN astray ELSE astray \cup {0}
  /\ UNCHANGED <<flashConfig, saved>>

\* finishLoading: the rate of before, or the one the request asked for.
finishLoading ==
  /\ load.on /\ load' = [load EXCEPT !.on = FALSE]
  /\ uart_config(0, [rate |-> load.final, stop |-> flashConfig[StopOf[0]]])
  /\ UNCHANGED <<flashConfig, saved, astray>>

\* abortLoading: the line stays as it is.
abortLoading ==
  /\ load.on /\ load' = [load EXCEPT !.on = FALSE]
  /\ astray' = astray \cup {0}
  /\ UNCHANGED <<flashConfig, saved, line, known>>

SettingsNext ==
  \/ \E n \in Numbers \cup Unsettable \cup Refused, v \in Values :
       cmds_do_set(n, v) \/ cgiPropSetting(n, v)
  \/ Save \/ Restore(saved) \/ Restore(Default) \/ Boot
  \/ \E rate, final \in Values : startLoading(rate, final)
  \/ finishLoading \/ abortLoading

SettingsSpec == SettingsInit /\ [][SettingsNext]_settingVars

\* A line runs as it is set, by whatever commands and requests, also after a load, except
\* when the settings came from flash or were the defaults and boot or nothing applies
\* them, when the load was aborted or asked for another rate, or when a line was set
\* during a load (sscp-settings.c, uart.c, finishLoading).
LineAsSet ==
  \A u \in UARTs \ astray : u = 1 \/ ~load.on => line[u] = AsSet(flashConfig, u)
===============================================================================
