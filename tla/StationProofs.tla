---------------------------- MODULE StationProofs ----------------------------
(***************************************************************************)
(* The serial bridge for every number of connections and every size of      *)
(* their buffers and of the FIFO of the UART; the settings for every set of *)
(* numbers that may be set; scanning for any number of browsers and access  *)
(* points.                                                                  *)
(***************************************************************************)
EXTENDS Serbridge, Settings, Wifi, TLAPS

-----------------------------------------------------------------------------
(* The serial bridge. *)

\* What the buffers of one connection say about each other.  Bytes owed are in one of
\* the two; a connection that may send has nothing to send and nothing on its way; one
\* that may not is watched by the sent callback or by the clock of Overflow.
Accounted(c) ==
  /\ c.owed = c.sent + c.txbufferlen
  /\ c.readytosend => c.sent = 0 /\ c.txbufferlen = 0
  /\ c.conn # "none" => c.readytosend \/ c.sent > 0 \/ c.overflow
  /\ c.conn = "none" => c.txbufferlen = 0 /\ c.sent = 0

Fine(c) == c \in Conns /\ Accounted(c)

BridgeInv == BridgeTypeOK /\ \A i \in Pool : Accounted(connData[i])

LEMMA FreeFine == Fine(Free) /\ Fine([Free EXCEPT !.conn = "open", !.readytosend = TRUE])
<1> USE BridgeAssumption
<1> DEFINE d == [Free EXCEPT !.conn = "open", !.readytosend = TRUE]
<1>1. Free \in Conns
  BY DEF Free, Conns
<1>2. Accounted(Free)
  BY DEF Free, Accounted
<1>3. d \in Conns
  BY <1>1 DEF Conns
<1>4. Accounted(d)
  <2>1. /\ d.owed = 0 /\ d.sent = 0 /\ d.txbufferlen = 0 /\ d.conn = "open" /\ d.readytosend
    BY DEF Free
  <2> HIDE DEF d
  <2> QED
    BY <2>1 DEF Accounted
<1> QED
  BY <1>1, <1>2, <1>3, <1>4 DEF Fine

\* A connection whose sent callback has come, and which therefore is ready, is fine
\* after what waited has been sent or thrown away.
LEMMA SendFine ==
  ASSUME NEW c \in Conns, NEW ok \in BOOLEAN, c.readytosend, c.sent = 0, c.conn # "none",
         c.owed = c.txbufferlen
  PROVE  /\ Fine(sendtxbuffer(c, ok)) /\ sendtxbuffer(c, ok).conn = c.conn
         /\ sendtxbuffer(c, ok).txbufferlen = 0
<1> USE BridgeAssumption
<1>1. CASE c.txbufferlen = 0
  BY <1>1 DEF sendtxbuffer, Fine, Accounted
<1>2. CASE c.txbufferlen # 0 /\ ok
  <2> DEFINE d == [c EXCEPT !.readytosend = FALSE, !.sent = c.txbufferlen, !.txbufferlen = 0]
  <2>1. sendtxbuffer(c, ok) = d
    BY <1>2 DEF sendtxbuffer
  <2>2. /\ ~d.readytosend /\ d.sent = c.txbufferlen /\ d.txbufferlen = 0
        /\ d.owed = c.owed /\ d.conn = c.conn
    BY DEF Conns
  <2>3. d \in Conns
    BY DEF Conns
  <2>4. c.txbufferlen > 0
    BY <1>2 DEF Conns
  <2> HIDE DEF d
  <2>5. Accounted(d)
    BY <2>2, <2>4 DEF Accounted, Conns
  <2> QED
    BY <2>1, <2>2, <2>3, <2>5 DEF Fine
<1>3. CASE c.txbufferlen # 0 /\ ~ok
  <2> DEFINE d == [c EXCEPT !.readytosend = FALSE, !.txbufferlen = 0, !.overflow = TRUE,
                            !.owed = @ - c.txbufferlen, !.lost = TRUE]
  <2>1. sendtxbuffer(c, ok) = d
    BY <1>3 DEF sendtxbuffer
  <2>2. /\ ~d.readytosend /\ d.sent = 0 /\ d.txbufferlen = 0 /\ d.overflow
        /\ d.owed = 0 /\ d.conn = c.conn
    BY DEF Conns
  <2>3. d \in Conns
    <3>1. c.owed - c.txbufferlen \in 0..(2 * MaxTx)
      BY DEF Conns
    <3> QED
      BY <3>1 DEF Conns
  <2> HIDE DEF d
  <2>4. Accounted(d)
    BY <2>2 DEF Accounted
  <2> QED
    BY <2>1, <2>2, <2>3, <2>4 DEF Fine
<1> QED
  BY <1>1, <1>2, <1>3

LEMMA OverflowFine ==
  ASSUME NEW c, Fine(c), NEW late \in BOOLEAN, c.conn # "none"
  PROVE  Fine(Overflow(c, late))
<1> DEFINE d == Overflow(c, late)
<1>1. /\ d.overflow /\ d.owed = c.owed /\ d.sent = c.sent /\ d.conn # "none"
      /\ d.txbufferlen = c.txbufferlen /\ d.readytosend = c.readytosend
  BY DEF Overflow, Fine, Conns
<1>2. d \in Conns
  BY DEF Overflow, Fine, Conns
<1> HIDE DEF d
<1>3. Accounted(d)
  BY <1>1 DEF Fine, Accounted
<1> QED
  BY <1>2, <1>3 DEF Fine, d

\* espbuffsend keeps a connection fine, whatever the network says.
LEMMA BufferFine ==
  ASSUME NEW c, Fine(c), NEW n \in Nat, NEW ok \in BOOLEAN, NEW late \in BOOLEAN,
         NEW heap \in BOOLEAN, c.conn # "none"
  PROVE  Fine(espbuffsend(c, n, ok, late, heap))
<1> USE BridgeAssumption
<1> DEFINE avail == IF c.txbufferlen + n > MaxTx THEN MaxTx - c.txbufferlen ELSE n
           added == [c EXCEPT !.txbufferlen = @ + avail, !.owed = @ + avail]
           tried == IF c.readytosend THEN sendtxbuffer(added, ok) ELSE added
<1>1. c \in Conns /\ Accounted(c)
  BY DEF Fine
<1>2. avail \in Nat /\ c.txbufferlen + avail <= MaxTx
  BY <1>1 DEF Conns
<1>3. espbuffsend(c, n, ok, late, heap) =
        IF c.txbufferlen = MaxTx THEN Overflow(c, late)
        ELSE IF c.txbufferlen = 0 /\ ~heap THEN [c EXCEPT !.lost = TRUE]
        ELSE IF avail < n THEN Overflow(tried, late) ELSE tried
  BY DEF espbuffsend
<1> HIDE DEF avail
<1>4. /\ added.txbufferlen = c.txbufferlen + avail /\ added.owed = c.owed + avail
      /\ added.sent = c.sent /\ added.conn = c.conn /\ added.overflow = c.overflow
      /\ added.readytosend = c.readytosend
  BY <1>1 DEF Conns
<1>5. added \in Conns
  <2>1. c.txbufferlen + avail \in 0..MaxTx /\ c.owed + avail \in 0..(2 * MaxTx)
    BY <1>1, <1>2 DEF Conns, Accounted
  <2> QED
    BY <1>1, <2>1 DEF Conns
<1> HIDE DEF added
<1>6. Fine(tried) /\ tried.conn # "none"
  <2>1. CASE c.readytosend
    <3>1. added.readytosend /\ added.sent = 0 /\ added.conn # "none"
      BY <1>1, <1>4, <2>1 DEF Accounted
    <3>2. added.owed = added.txbufferlen
      BY <1>1, <1>2, <1>4, <2>1 DEF Accounted, Conns
    <3> QED
      BY <1>4, <1>5, <2>1, <3>1, <3>2, SendFine
  <2>2. CASE ~c.readytosend
    BY <1>1, <1>2, <1>4, <1>5, <2>2 DEF Accounted, Fine, Conns
  <2> QED
    BY <2>1, <2>2
<1> HIDE DEF tried
<1>7. Fine(Overflow(c, late)) /\ Fine(Overflow(tried, late))
  BY <1>6, OverflowFine
<1>8. Fine([c EXCEPT !.lost = TRUE])
  BY <1>1 DEF Fine, Accounted, Conns
<1> QED
  BY <1>3, <1>6, <1>7, <1>8

\* A step that leaves one connection fine and the others alone.
LEMMA OneFine ==
  ASSUME BridgeInv, NEW i \in Pool, NEW d, Fine(d), connData' = [connData EXCEPT ![i] = d],
         UartUnchanged
  PROVE  BridgeInv'
<1>1. connData' \in [Pool -> Conns] /\ \A j \in Pool : Accounted(connData'[j])
  BY DEF BridgeInv, BridgeTypeOK, Fine
<1> QED
  BY <1>1 DEF BridgeInv, BridgeTypeOK, UartUnchanged

LEMMA BridgeBegins == BridgeInit => BridgeInv
<1> SUFFICES ASSUME BridgeInit PROVE BridgeInv
  OBVIOUS
<1>1. connData \in [Pool -> Conns] /\ \A i \in Pool : Accounted(connData[i])
  BY FreeFine DEF BridgeInit, Fine
<1> QED
  <2>1. fifo \in 0..FifoMax
    BY BridgeAssumption DEF BridgeInit
  <2>2. /\ breakSeen \in BOOLEAN /\ intr \in BOOLEAN /\ posted \in BOOLEAN
        /\ forLoader \in BOOLEAN /\ sscpEnabled \in BOOLEAN
    BY Zenon DEF BridgeInit
  <2> QED
    BY <1>1, <2>1, <2>2 DEF BridgeInv, BridgeTypeOK

LEMMA BridgeStep == ASSUME BridgeInv, [BridgeNext]_bridgeVars PROVE BridgeInv'
<1> USE BridgeAssumption
<1>1. CASE UNCHANGED bridgeVars
  BY <1>1 DEF BridgeInv, BridgeTypeOK, bridgeVars
<1>2. ASSUME NEW n \in 1..FifoMax, Arrive(n) PROVE BridgeInv'
  BY <1>2 DEF BridgeInv, BridgeTypeOK, Arrive
<1>3. CASE BreakComes \/ Capture
  BY <1>3 DEF BridgeInv, BridgeTypeOK, BreakComes, Capture
<1>4. ASSUME NEW error \in BOOLEAN, uart0_rx_intr_handler(error) PROVE BridgeInv'
  <2>1. fifo' \in 0..FifoMax
    BY <1>4 DEF BridgeInv, BridgeTypeOK, uart0_rx_intr_handler
  <2>2. intr' \in BOOLEAN /\ posted' \in BOOLEAN
    BY <1>4, Zenon DEF BridgeInv, BridgeTypeOK, uart0_rx_intr_handler
  <2>3. UNCHANGED <<breakSeen, forLoader, sscpEnabled, connData>>
    BY <1>4 DEF uart0_rx_intr_handler
  <2> QED
    BY <2>1, <2>2, <2>3 DEF BridgeInv, BridgeTypeOK
<1>5. CASE uart_recvTask
  <2>0. fifo' \in 0..FifoMax
    BY <1>5 DEF uart_recvTask
  <2>1. /\ fifo' \in 0..FifoMax /\ breakSeen' \in BOOLEAN /\ intr' \in BOOLEAN
        /\ posted' \in BOOLEAN /\ forLoader' \in BOOLEAN /\ sscpEnabled' \in BOOLEAN
    BY <1>5, <2>0, Zenon DEF BridgeInv, BridgeTypeOK, uart_recvTask
  <2>2. CASE UNCHANGED connData
    BY <2>1, <2>2 DEF BridgeInv, BridgeTypeOK
  <2>3. CASE \E n \in 0..fifo : console_process(n)
    <3>1. PICK n \in 0..fifo : console_process(n)
      BY <2>3
    <3>2. n \in Nat
      BY DEF BridgeInv, BridgeTypeOK
    <3>3. PICK ok \in [Pool -> BOOLEAN], heap \in [Pool -> BOOLEAN], late \in BOOLEAN :
            connData' = [i \in Pool |-> IF connData[i].conn = "none" THEN connData[i]
                                        ELSE espbuffsend(connData[i], n, ok[i], late, heap[i])]
      BY <3>1 DEF console_process
    <3>4. ASSUME NEW i \in Pool PROVE Fine(connData'[i])
      <4>1. Fine(connData[i])
        BY DEF BridgeInv, BridgeTypeOK, Fine
      <4>2. connData'[i] = IF connData[i].conn = "none" THEN connData[i]
                           ELSE espbuffsend(connData[i], n, ok[i], late, heap[i])
        BY <3>3
      <4> QED
        BY <3>2, <4>1, <4>2, BufferFine
    <3>5. connData' \in [Pool -> Conns] /\ \A i \in Pool : Accounted(connData'[i])
      BY <3>3, <3>4 DEF Fine
    <3> QED
      BY <2>1, <3>5 DEF BridgeInv, BridgeTypeOK
  <2> QED
    BY <1>5, <2>2, <2>3 DEF uart_recvTask
<1>6. ASSUME NEW i \in Pool, NEW ok \in BOOLEAN, serbridgeSentCb(i, ok) PROVE BridgeInv'
  <2> DEFINE c == connData[i]
             d == [c EXCEPT !.sent = 0, !.owed = @ - c.sent, !.readytosend = TRUE,
                            !.overflow = FALSE]
  <2>1. c \in Conns /\ Accounted(c) /\ c.sent > 0
    BY <1>6 DEF BridgeInv, BridgeTypeOK, serbridgeSentCb
  <2>2. connData' = [connData EXCEPT ![i] = sendtxbuffer(d, ok)] /\ UartUnchanged
    BY <1>6 DEF serbridgeSentCb
  <2> HIDE DEF c
  <2>3. /\ d.sent = 0 /\ d.owed = c.txbufferlen /\ d.txbufferlen = c.txbufferlen
        /\ d.readytosend /\ d.conn = c.conn
    BY <2>1 DEF Conns, Accounted
  <2>4. d \in Conns /\ d.conn # "none"
    <3>1. c.owed - c.sent \in 0..(2 * MaxTx) /\ c.conn # "none"
      BY <2>1 DEF Conns, Accounted
    <3>2. d.conn # "none"
      BY <2>3, <3>1
    <3>3. 0 \in 0..MaxTx
      OBVIOUS
    <3>4. d \in Conns
      BY <2>1, <3>1, <3>3 DEF Conns
    <3> QED
      BY <3>2, <3>4
  <2> HIDE DEF d
  <2>5. Fine(sendtxbuffer(d, ok))
    BY <2>3, <2>4, SendFine
  <2> QED
    BY <2>2, <2>5, OneFine
<1>7. ASSUME NEW i \in Pool, serbridgeConnectCb(i) PROVE BridgeInv'
  BY <1>7, FreeFine, OneFine DEF serbridgeConnectCb
<1>8. ASSUME NEW i \in Pool, serbridgeDisconCb(i) PROVE BridgeInv'
  <2> DEFINE c == connData[i]
             d == [c EXCEPT !.conn = "none", !.txbufferlen = 0, !.sent = 0, !.owed = 0]
  <2>1. c \in Conns
    BY DEF BridgeInv, BridgeTypeOK
  <2>2. connData' = [connData EXCEPT ![i] = d] /\ UartUnchanged
    BY <1>8 DEF serbridgeDisconCb, BridgeInv, BridgeTypeOK
  <2> HIDE DEF c
  <2>3. d \in Conns
    <3>1. 0 \in 0..MaxTx /\ 0 \in 0..(2 * MaxTx)
      OBVIOUS
    <3> QED
      BY <2>1, <3>1 DEF Conns
  <2>4. d.conn = "none" /\ d.txbufferlen = 0 /\ d.sent = 0 /\ d.owed = 0
    BY <2>1 DEF Conns
  <2> HIDE DEF d
  <2>5. Accounted(d)
    BY <2>4 DEF Accounted
  <2>6. Fine(d)
    BY <2>3, <2>5 DEF Fine
  <2> QED
    BY <2>2, <2>6, OneFine
<1> QED
  BY <1>1, <1>2, <1>3, <1>4, <1>5, <1>6, <1>7, <1>8 DEF BridgeNext

\* The variables of the bridge keep their types; no buffer is overrun.
THEOREM BridgeTyped == BridgeSpec => []BridgeTypeOK
<1>1. BridgeInv => BridgeTypeOK
  BY DEF BridgeInv
<1> QED
  BY BridgeBegins, BridgeStep, <1>1, PTL DEF BridgeSpec

\* What a connection has not got is in one of its two buffers, until something has been
\* lost (espbuffsend, sendtxbuffer, serbridgeSentCb).
THEOREM NothingDropped == BridgeSpec => []BytesConserved
<1>1. BridgeInv => BytesConserved
  BY DEF BridgeInv, BytesConserved, Accounted
<1> QED
  BY BridgeBegins, BridgeStep, <1>1, PTL DEF BridgeSpec

\* Bytes that wait are sent by a callback that will come, or are watched by the clock
\* that ends the connection (espbuffsend, sendtxbuffer).
THEOREM WaitersWatched == BridgeSpec => []WaitingIsWatched
<1>1. BridgeInv => WaitingIsWatched
  BY DEF BridgeInv, WaitingIsWatched, Accounted
<1> QED
  BY BridgeBegins, BridgeStep, <1>1, PTL DEF BridgeSpec

-----------------------------------------------------------------------------
(* The settings. *)

\* No number that is set, nor what an int8_t keeps of it, is taken for the mark of a
\* register that has not been set: a stop bit of 255 would be.
Distinct == /\ Values \subseteq Int /\ Unset \in Int
            /\ \A v \in Values \cup {1} : v # Unset /\ Int8(v) # Unset

Lines == [rate : Int, stop : Int]

\* Types, as far as the proof needs them; no setting is the mark.
SettingsTyped ==
  /\ flashConfig \in [Numbers -> Int \ {Unset}] /\ saved \in [Numbers -> Int \ {Unset}]
  /\ line \in [UARTs -> Lines] /\ known \in [UARTs -> Lines]
  /\ load \in [on : BOOLEAN, final : Int \ {Unset}]
  /\ astray \subseteq UARTs

\* What uart.c takes for the state of a register is right, where it takes it for
\* anything: without it, uart_config might leave out a write that is needed.
Recalled(kn, li) == /\ kn.rate = Unset \/ kn.rate = li.rate
                    /\ kn.stop = Unset \/ kn.stop = li.stop
KnownIsSo == \A u \in UARTs : Recalled(known[u], line[u])

\* A load that is not astray goes back to the rate that is set.
BackToSet == load.on /\ 0 \notin astray => load.final = flashConfig[RateOf[0]]

SettingsInv == SettingsTyped /\ KnownIsSo /\ BackToSet /\ LineAsSet

LEMMA Names ==
  /\ UARTs = {0, 1} /\ RateOf[0] = "baud-rate" /\ RateOf[1] = "dbg-baud-rate"
  /\ StopOf[0] = "stop-bits" /\ StopOf[1] = "dbg-stop-bits"
  /\ Numbers = {"baud-rate", "dbg-baud-rate", "stop-bits", "dbg-stop-bits"}
BY DEF UARTs, RateOf, StopOf, Numbers, LineSettings

\* What a setting keeps of a number is one, and not the mark.
LEMMA KeptIsSet ==
  ASSUME Distinct, NEW v \in Values, NEW name \in Numbers
  PROVE  Kept(name, v) \in Int \ {Unset}
<1>1. v \in Int /\ v # Unset /\ Int8(v) # Unset
  BY DEF Distinct
<1>2. Int8(v) \in Int
  BY <1>1 DEF Int8
<1> QED
  BY <1>1, <1>2 DEF Kept

\* What is set for a line can be told from the mark.
LEMMA AsSetTyped ==
  ASSUME NEW c \in [Numbers -> Int \ {Unset}], NEW u \in UARTs
  PROVE  /\ AsSet(c, u) \in Lines
         /\ AsSet(c, u).rate = c[RateOf[u]] /\ AsSet(c, u).stop = c[StopOf[u]]
         /\ AsSet(c, u).rate # Unset /\ AsSet(c, u).stop # Unset
<1>1. RateOf[u] \in Numbers /\ StopOf[u] \in Numbers
  BY Names
<1>2. c[RateOf[u]] \in Int \ {Unset} /\ c[StopOf[u]] \in Int \ {Unset}
  BY <1>1
<1> QED
  BY <1>2 DEF AsSet, Lines

\* uart_config sets up the line that is wanted, and leaves the others alone.
LEMMA LineIsSet ==
  ASSUME SettingsTyped, KnownIsSo, NEW u \in UARTs, NEW want \in Lines,
         want.rate # Unset, want.stop # Unset, uart_config(u, want)
  PROVE  /\ line' \in [UARTs -> Lines] /\ known' \in [UARTs -> Lines]
         /\ line'[u] = want /\ known'[u] = want
         /\ \A w \in UARTs \ {u} : line'[w] = line[w] /\ known'[w] = known[w]
         /\ KnownIsSo'
<1>1. known[u] \in Lines /\ line[u] \in Lines /\ Recalled(known[u], line[u])
  BY DEF SettingsTyped, KnownIsSo
<1> DEFINE new == [rate |-> IF known[u].rate # want.rate THEN want.rate ELSE line[u].rate,
                   stop |-> IF known[u].stop # want.stop THEN want.stop ELSE line[u].stop]
<1>2. new.rate = want.rate /\ new.stop = want.stop
  BY <1>1 DEF Recalled
<1>3. new = want
  BY <1>2 DEF Lines
<1>4. line' = [line EXCEPT ![u] = want] /\ known' = [known EXCEPT ![u] = want]
  BY <1>3 DEF uart_config
<1>5. /\ line' \in [UARTs -> Lines] /\ known' \in [UARTs -> Lines]
      /\ line'[u] = want /\ known'[u] = want
      /\ \A w \in UARTs \ {u} : line'[w] = line[w] /\ known'[w] = known[w]
  BY <1>4 DEF SettingsTyped
<1>6. KnownIsSo'
  BY <1>5 DEF KnownIsSo, Recalled
<1> QED
  BY <1>5, <1>6

LEMMA BootTyped ==
  ASSUME NEW c \in [Numbers -> Int \ {Unset}], Unset \in Int, NEW u \in UARTs
  PROVE  /\ AtBoot(c, u) \in Lines
         /\ AtBoot(c, u).rate = IF u = 0 THEN c[RateOf[u]] ELSE 1
         /\ AtBoot(c, u).stop = 1
         /\ [rate |-> IF u = 0 THEN c[RateOf[u]] ELSE Unset, stop |-> Unset] \in Lines
<1>1. RateOf[u] \in Numbers /\ c[RateOf[u]] \in Int
  BY Names
<1> QED
  BY <1>1 DEF AtBoot, Lines

\* After a boot the lines that are not as set are the ones astray.
LEMMA BootedInv ==
  ASSUME Distinct, NEW c \in [Numbers -> Int \ {Unset}], Booted(c),
         saved' \in [Numbers -> Int \ {Unset}]
  PROVE  SettingsInv'
<1>1. Unset \in Int /\ 1 # Unset
  BY DEF Distinct
<1>2. line' = [u \in UARTs |-> AtBoot(c, u)]
  BY DEF Booted
<1>3. known' = [u \in UARTs |-> [rate |-> IF u = 0 THEN c[RateOf[u]] ELSE Unset, stop |-> Unset]]
  BY DEF Booted
<1>4. SettingsTyped'
  <2>1. line' \in [UARTs -> Lines] /\ known' \in [UARTs -> Lines]
    BY <1>1, <1>2, <1>3, BootTyped
  <2>2. load' \in [on : BOOLEAN, final : Int \ {Unset}]
    BY <1>1 DEF Booted, NoLoad
  <2> QED
    BY <2>1, <2>2 DEF SettingsTyped, Booted
<1>5. KnownIsSo'
  <2> SUFFICES ASSUME NEW u \in UARTs PROVE Recalled(known'[u], line'[u])
    BY DEF KnownIsSo
  <2>1. line'[u] = AtBoot(c, u)
    BY <1>2
  <2>2. known'[u].rate = (IF u = 0 THEN c[RateOf[u]] ELSE Unset) /\ known'[u].stop = Unset
    BY <1>3
  <2> QED
    BY <1>1, <2>1, <2>2, BootTyped DEF Recalled
<1>6. BackToSet'
  BY DEF BackToSet, Booted, NoLoad
<1>7. LineAsSet'
  BY <1>2 DEF LineAsSet, Booted
<1> QED
  BY <1>4, <1>5, <1>6, <1>7 DEF SettingsInv

LEMMA SettingsBegin == Distinct /\ SettingsInit => SettingsInv
<1> SUFFICES ASSUME Distinct, SettingsInit PROVE SettingsInv
  OBVIOUS
<1>1. Unset \in Int /\ 1 # Unset
  BY DEF Distinct
<1>2. Default \in [Numbers -> Int \ {Unset}] /\ \A n \in Numbers : Default[n] = 1
  BY <1>1 DEF Default
<1>3. \A u \in UARTs : RateOf[u] \in Numbers /\ StopOf[u] \in Numbers
  BY Names
<1>4. \A u \in UARTs : AtBoot(Default, u) = [rate |-> 1, stop |-> 1]
  BY <1>2, <1>3 DEF AtBoot
<1>5. \A u \in UARTs : AsSet(Default, u) = [rate |-> 1, stop |-> 1]
  BY <1>2, <1>3 DEF AsSet
<1>6. SettingsTyped
  BY <1>1, <1>2, <1>4 DEF SettingsTyped, SettingsInit, Lines, NoLoad
<1>7. KnownIsSo /\ BackToSet
  BY <1>4 DEF KnownIsSo, Recalled, BackToSet, SettingsInit, NoLoad
<1>8. LineAsSet
  BY <1>4, <1>5 DEF LineAsSet, SettingsInit
<1> QED
  BY <1>6, <1>7, <1>8 DEF SettingsInv

LEMMA SetLineInv ==
  ASSUME Distinct, SettingsInv, NEW u \in UARTs, NEW name \in Numbers, NEW v \in Values,
         SetLine(u, name, v)
  PROVE  SettingsInv'
<1>1. SettingsTyped /\ KnownIsSo /\ BackToSet /\ LineAsSet
  BY DEF SettingsInv
<1>2. Kept(name, v) \in Int \ {Unset}
  BY KeptIsSet
<1>3. flashConfig' = [flashConfig EXCEPT ![name] = Kept(name, v)]
  BY DEF SetLine
<1>4. flashConfig' \in [Numbers -> Int \ {Unset}]
  BY <1>1, <1>2, <1>3 DEF SettingsTyped
<1> DEFINE want == AsSet(flashConfig', u)
<1>5. want \in Lines /\ want.rate # Unset /\ want.stop # Unset
  BY <1>4, AsSetTyped
<1>6. uart_config(u, want)
  BY DEF SetLine
<1> HIDE DEF want
<1>7. /\ line' \in [UARTs -> Lines] /\ known' \in [UARTs -> Lines] /\ line'[u] = want
      /\ \A w \in UARTs \ {u} : line'[w] = line[w]
      /\ KnownIsSo'
  BY <1>1, <1>5, <1>6, LineIsSet
<1>8. saved' = saved /\ load' = load
  BY DEF SetLine
<1>9. astray' = (IF u = 0 /\ load.on THEN astray \cup {0} ELSE astray \ {u})
  BY DEF SetLine
<1>10. SettingsTyped'
  BY <1>1, <1>4, <1>7, <1>8, <1>9, Names DEF SettingsTyped
<1>11. \A w \in UARTs \ {u} : AsSet(flashConfig', w) = AsSet(flashConfig, w)
  <2>1. name \in LineSettings(u)
    BY DEF SetLine
  <2>2. \A w \in UARTs \ {u} : RateOf[w] # name /\ StopOf[w] # name
    BY <2>1, Names DEF LineSettings
  <2>3. \A w \in UARTs : RateOf[w] \in Numbers /\ StopOf[w] \in Numbers
    BY Names
  <2> QED
    BY <1>1, <1>3, <2>2, <2>3 DEF AsSet, SettingsTyped
<1>12. BackToSet'
  <2>1. CASE u = 0
    BY <1>8, <1>9, <2>1 DEF BackToSet
  <2>2. CASE u # 0
    <3>1. flashConfig'[RateOf[0]] = flashConfig[RateOf[0]]
      BY <1>11, <2>2, Names DEF AsSet
    <3> QED
      BY <1>1, <1>8, <1>9, <2>2, <3>1 DEF BackToSet
  <2> QED
    BY <2>1, <2>2
<1>13. LineAsSet'
  <2> SUFFICES ASSUME NEW w \in UARTs \ astray', w = 1 \/ ~load'.on
               PROVE  line'[w] = AsSet(flashConfig', w)
    BY DEF LineAsSet
  <2>1. CASE w = u
    BY <1>7, <2>1 DEF want
  <2>2. CASE w # u
    BY <1>1, <1>7, <1>8, <1>9, <1>11, <2>2 DEF LineAsSet
  <2> QED
    BY <2>1, <2>2
<1> QED
  BY <1>7, <1>10, <1>12, <1>13 DEF SettingsInv

LEMMA LoadInv ==
  ASSUME Distinct, SettingsInv,
         \/ \E rate, final \in Values : startLoading(rate, final)
         \/ finishLoading \/ abortLoading
  PROVE  SettingsInv'
<1>1. SettingsTyped /\ KnownIsSo /\ BackToSet /\ LineAsSet
  BY DEF SettingsInv
<1>2. ASSUME NEW rate \in Values, NEW final \in Values, startLoading(rate, final)
      PROVE  SettingsInv'
  <2> DEFINE want == [rate |-> rate, stop |-> 1]
  <2>1. want \in Lines /\ want.rate # Unset /\ want.stop # Unset /\ final \in Int \ {Unset}
    BY DEF Distinct, Lines
  <2>2. uart_config(0, want)
    BY <1>2 DEF startLoading
  <2> HIDE DEF want
  <2>3. /\ line' \in [UARTs -> Lines] /\ known' \in [UARTs -> Lines]
        /\ line'[1] = line[1] /\ KnownIsSo'
    BY <1>1, <2>1, <2>2, LineIsSet, Names
  <2>4. load' = [on |-> TRUE, final |-> final] /\ flashConfig' = flashConfig /\ saved' = saved
    BY <1>2 DEF startLoading
  <2>5. astray' = IF final = flashConfig[RateOf[0]] THEN astray ELSE astray \cup {0}
    BY <1>2 DEF startLoading
  <2>6. SettingsTyped'
    BY <1>1, <2>1, <2>3, <2>4, <2>5, Names DEF SettingsTyped
  <2>7. BackToSet' /\ LineAsSet'
    BY <1>1, <2>3, <2>4, <2>5, Names DEF BackToSet, LineAsSet
  <2> QED
    BY <2>3, <2>6, <2>7 DEF SettingsInv
<1>3. ASSUME finishLoading PROVE SettingsInv'
  <2> DEFINE want == [rate |-> load.final, stop |-> flashConfig[StopOf[0]]]
  <2>1. load.final \in Int \ {Unset} /\ flashConfig[StopOf[0]] \in Int \ {Unset}
    BY <1>1, Names DEF SettingsTyped
  <2>2. want \in Lines /\ want.rate # Unset /\ want.stop # Unset
    BY <2>1 DEF Lines
  <2>3. uart_config(0, want)
    BY <1>3 DEF finishLoading
  <2>4. 0 \notin astray => want = AsSet(flashConfig, 0)
    BY <1>1, <1>3 DEF BackToSet, AsSet, finishLoading
  <2> HIDE DEF want
  <2>5. /\ line' \in [UARTs -> Lines] /\ known' \in [UARTs -> Lines]
        /\ line'[0] = want /\ line'[1] = line[1] /\ KnownIsSo'
    BY <1>1, <2>2, <2>3, LineIsSet, Names
  <2>6. /\ load' = [load EXCEPT !.on = FALSE] /\ flashConfig' = flashConfig
        /\ saved' = saved /\ astray' = astray
    BY <1>3 DEF finishLoading
  <2>7. SettingsTyped' /\ ~load'.on
    BY <1>1, <2>5, <2>6 DEF SettingsTyped
  <2>8. BackToSet' /\ LineAsSet'
    BY <1>1, <2>4, <2>5, <2>6, <2>7, Names DEF BackToSet, LineAsSet
  <2> QED
    BY <2>5, <2>7, <2>8 DEF SettingsInv
<1>4. ASSUME abortLoading PROVE SettingsInv'
  <2>1. /\ load' = [load EXCEPT !.on = FALSE] /\ astray' = astray \cup {0}
        /\ flashConfig' = flashConfig /\ saved' = saved /\ line' = line /\ known' = known
    BY <1>4 DEF abortLoading
  <2>2. SettingsTyped'
    BY <1>1, <2>1, Names DEF SettingsTyped
  <2>3. KnownIsSo' /\ BackToSet' /\ LineAsSet'
    BY <1>1, <2>1, Names DEF KnownIsSo, BackToSet, LineAsSet
  <2> QED
    BY <2>2, <2>3 DEF SettingsInv
<1> QED
  BY <1>2, <1>3, <1>4

LEMMA SettingsStep == ASSUME Distinct, SettingsInv, [SettingsNext]_settingVars PROVE SettingsInv'
<1>1. SettingsTyped /\ KnownIsSo /\ BackToSet /\ LineAsSet
  BY DEF SettingsInv
<1>2. CASE UNCHANGED settingVars
  <2>1. SettingsTyped'
    BY <1>1, <1>2 DEF SettingsTyped, settingVars
  <2>2. KnownIsSo' /\ BackToSet' /\ LineAsSet'
    BY <1>1, <1>2 DEF KnownIsSo, BackToSet, LineAsSet, settingVars
  <2> QED
    BY <2>1, <2>2 DEF SettingsInv
<1>3. ASSUME NEW n, NEW v \in Values, NEW u \in UARTs, SetLine(u, n, v) PROVE SettingsInv'
  <2>1. n \in Numbers
    BY <1>3, Names DEF SetLine, LineSettings
  <2> QED
    BY <1>3, <2>1, SetLineInv
<1>4. ASSUME Boot PROVE SettingsInv'
  <2>1. saved \in [Numbers -> Int \ {Unset}] /\ saved' = saved /\ Booted(saved)
    BY <1>1, <1>4 DEF SettingsTyped, Boot
  <2> QED
    BY <2>1, BootedInv
<1>5. ASSUME Save PROVE SettingsInv'
  <2>1. SettingsTyped'
    BY <1>1, <1>5 DEF SettingsTyped, Save
  <2>2. KnownIsSo' /\ BackToSet' /\ LineAsSet'
    BY <1>1, <1>5 DEF KnownIsSo, BackToSet, LineAsSet, Save
  <2> QED
    BY <2>1, <2>2 DEF SettingsInv
<1>6. ASSUME NEW c \in [Numbers -> Int \ {Unset}], Restore(c) PROVE SettingsInv'
  <2>1. SettingsTyped'
    BY <1>1, <1>6 DEF SettingsTyped, Restore
  <2>2. KnownIsSo' /\ BackToSet' /\ LineAsSet'
    BY <1>1, <1>6, Names DEF KnownIsSo, BackToSet, LineAsSet, Restore
  <2> QED
    BY <2>1, <2>2 DEF SettingsInv
<1>7. saved \in [Numbers -> Int \ {Unset}] /\ Default \in [Numbers -> Int \ {Unset}]
  BY <1>1 DEF SettingsTyped, Default, Distinct
<1>8. ASSUME NEW n, NEW v \in Values, cmds_do_set(n, v) \/ cgiPropSetting(n, v)
      PROVE  SettingsInv'
  BY <1>2, <1>3, <1>4, <1>8 DEF cmds_do_set, cgiPropSetting
<1> QED
  BY <1>2, <1>4, <1>5, <1>6, <1>7, <1>8, LoadInv DEF SettingsNext

\* uart.c's memory of the registers is right in every state, whatever sets them
\* (uart0_config, uart1_config, startLoading, finishLoading, abortLoading).
THEOREM LinesKnown == ASSUME Distinct PROVE SettingsSpec => []KnownIsSo
<1>1. SettingsInit => SettingsInv
  BY SettingsBegin
<1>2. SettingsInv /\ [SettingsNext]_settingVars => SettingsInv'
  BY SettingsStep
<1>3. SettingsInv => KnownIsSo
  BY DEF SettingsInv
<1> QED
  BY <1>1, <1>2, <1>3, PTL DEF SettingsSpec

\* A line runs as it is set, but where LineAsSet says (sscp-settings.c, uart.c).
THEOREM LinesAsSet == ASSUME Distinct PROVE SettingsSpec => []LineAsSet
<1>1. SettingsInit => SettingsInv
  BY SettingsBegin
<1>2. SettingsInv /\ [SettingsNext]_settingVars => SettingsInv'
  BY SettingsStep
<1>3. SettingsInv => LineAsSet
  BY DEF SettingsInv
<1> QED
  BY <1>1, <1>2, <1>3, PTL DEF SettingsSpec

-----------------------------------------------------------------------------
(* The WiFi station. *)

\* The types of what scanning keeps.
ScansTyped ==
  /\ scanning \in Nat /\ cgiWifiAps \in [scanInProgress : BOOLEAN, noAps : Int]
  /\ newModeData \in [inProgress : BOOLEAN, newMode : Modes \cup {"other"}, needScan : BOOLEAN]
  /\ scanCallback \in BOOLEAN /\ refused \in BOOLEAN /\ unbegun \in BOOLEAN
  /\ mcu \in [sscp_events : BOOLEAN, scanDone : BOOLEAN, asked : BOOLEAN]

\* A change of mode that is to begin a scan never finds one: without it, setModeCb, which
\* does not look, would begin a second one.
WaitsForMode == newModeData.inProgress /\ newModeData.needScan => ~cgiWifiAps.scanInProgress

\* The scan an APSCAN asked for is under way (it counts as such if the SDK refused it), or
\* a change of mode will begin it, and the callback for its end is set: what is left for
\* ScanIsReported is that scans and timers end.
AskedIsPending == mcu.asked /\ ~mcu.scanDone /\ ~refused =>
  /\ scanCallback
  /\ cgiWifiAps.scanInProgress \/ (newModeData.inProgress /\ newModeData.needScan)

WifiInv == ScansTyped /\ WaitsForMode /\ OneScan /\ AskedIsPending

\* wifiStartScan begins a scan, has one begun later, or does nothing.
LEMMA StartKept ==
  ASSUME ScansTyped, WaitsForMode, OneScan, wifiStartScan
  PROVE  /\ scanning' \in Nat /\ cgiWifiAps' \in [scanInProgress : BOOLEAN, noAps : Int]
         /\ newModeData' \in [inProgress : BOOLEAN, newMode : Modes \cup {"other"},
                              needScan : BOOLEAN]
         /\ unbegun' \in BOOLEAN /\ WaitsForMode' /\ OneScan'
         /\ cgiWifiAps.scanInProgress => cgiWifiAps'.scanInProgress
         /\ newModeData'.inProgress = newModeData.inProgress
         /\ newModeData.needScan => newModeData'.needScan
<1>1. CASE cgiWifiAps.scanInProgress
  BY <1>1 DEF wifiStartScan, NotBegun, ScansTyped, WaitsForMode, OneScan
<1>2. CASE ~cgiWifiAps.scanInProgress /\ newModeData.inProgress
  BY <1>2 DEF wifiStartScan, NotBegun, ScansTyped, WaitsForMode, OneScan
<1>3. CASE ~cgiWifiAps.scanInProgress /\ ~newModeData.inProgress
  <2>1. newModeData' = newModeData /\ scanning = 0 /\ unbegun = FALSE
    BY <1>3, Zenon DEF wifiStartScan, OneScan, ScansTyped
  <2>2. CASE Begun
    <3>1. /\ cgiWifiAps' = [cgiWifiAps EXCEPT !.scanInProgress = TRUE]
          /\ (scanning' = 1 /\ unbegun' = FALSE) \/ (scanning' = 0 /\ unbegun' = TRUE)
      BY <2>1, <2>2 DEF Begun
    <3>2. cgiWifiAps' \in [scanInProgress : BOOLEAN, noAps : Int] /\ cgiWifiAps'.scanInProgress
      BY <3>1 DEF ScansTyped
    <3>3. OneScan' /\ unbegun' \in BOOLEAN
      <4>1. CASE scanning' = 1 /\ unbegun' = FALSE
        BY <3>2, <4>1 DEF OneScan
      <4>2. CASE scanning' = 0 /\ unbegun' = TRUE
        BY <3>2, <4>2 DEF OneScan
      <4>3. QED
        BY <3>1, <4>1, <4>2
    <3>4. QED
      BY <1>3, <2>1, <3>1, <3>2, <3>3 DEF ScansTyped, WaitsForMode
  <2>3. CASE NotBegun
    BY <1>3, <2>1, <2>3 DEF NotBegun, ScansTyped, WaitsForMode, OneScan
  <2>4. QED
    BY <1>3, <2>2, <2>3 DEF wifiStartScan
<1>4. QED
  BY <1>1, <1>2, <1>3

LEMMA WifiBegins == WifiInit => WifiInv
<1> SUFFICES ASSUME WifiInit PROVE WifiInv
  OBVIOUS
<1>1. mcu \in [sscp_events : BOOLEAN, scanDone : BOOLEAN, asked : BOOLEAN] /\ ~mcu.asked
  BY WifiAssumption DEF WifiInit
<1>2. /\ newModeData \in [inProgress : BOOLEAN, newMode : Modes \cup {"other"},
                         needScan : BOOLEAN]
      /\ ~newModeData.inProgress
  BY DEF WifiInit, Modes
<1>3. cgiWifiAps \in [scanInProgress : BOOLEAN, noAps : Int] /\ ~cgiWifiAps.scanInProgress
  <2>1. cgiWifiAps = [scanInProgress |-> FALSE, noAps |-> 0]
    BY DEF WifiInit
  <2>2. QED
    BY <2>1
<1>4. scanning = 0 /\ scanCallback = FALSE /\ refused = FALSE /\ unbegun = FALSE
  BY Zenon DEF WifiInit
<1>5. QED
  BY <1>1, <1>2, <1>3, <1>4 DEF WifiInv, ScansTyped, WaitsForMode, OneScan, AskedIsPending

\* wifiScanDoneCb, and a scan that failed
LEMMA ScanEndsKept ==
  ASSUME WifiInv, ScanEnds
  PROVE  WifiInv'
<1>0. ScansTyped /\ WaitsForMode /\ OneScan /\ AskedIsPending
  BY DEF WifiInv
<1>1. /\ scanning > 0 /\ scanning' = scanning - 1 /\ ~cgiWifiAps'.scanInProgress
      /\ cgiWifiAps' \in [scanInProgress : BOOLEAN, noAps : Int]
      /\ newModeData' = newModeData
  <2>1. CASE ScanFailed
    BY <1>0, <2>1 DEF ScanFailed, ScansTyped
  <2>2. ASSUME NEW n \in 0..MaxAps, wifiScanDoneCb(n)
        PROVE  /\ scanning > 0 /\ scanning' = scanning - 1 /\ newModeData' = newModeData
               /\ cgiWifiAps' = [scanInProgress |-> FALSE, noAps |-> n]
    BY <2>2 DEF wifiScanDoneCb
  <2>3. \A n \in 0..MaxAps : [scanInProgress |-> FALSE, noAps |-> n]
                               \in [scanInProgress : BOOLEAN, noAps : Int]
    BY WifiAssumption
  <2>4. \A n : ~[scanInProgress |-> FALSE, noAps |-> n].scanInProgress
    OBVIOUS
  <2>5. CASE \E n \in 0..MaxAps : wifiScanDoneCb(n)
    BY <2>2, <2>3, <2>4, <2>5
  <2>6. QED
    BY <2>1, <2>5 DEF ScanEnds
<1>2. WaitsForMode' /\ OneScan' /\ scanning' \in Nat /\ unbegun' = unbegun
  <2>1. unbegun' = unbegun
    BY DEF ScanEnds, ScanFailed, wifiScanDoneCb
  <2>2. QED
    BY <1>0, <1>1, <2>1 DEF WaitsForMode, OneScan, ScansTyped
<1>3. CASE ScanFailed
  BY <1>0, <1>1, <1>2, <1>3 DEF ScanFailed, WifiInv, ScansTyped, AskedIsPending
<1>4. CASE \E n \in 0..MaxAps : wifiScanDoneCb(n)
  <2>1. /\ scanCallback' = FALSE /\ refused' = refused
        /\ mcu' = IF ~scanCallback THEN mcu
                  ELSE IF mcu.sscp_events THEN [mcu EXCEPT !.asked = FALSE]
                  ELSE [mcu EXCEPT !.scanDone = TRUE]
    BY <1>4 DEF wifiScanDoneCb
  <2>2. /\ mcu' \in [sscp_events : BOOLEAN, scanDone : BOOLEAN, asked : BOOLEAN]
        /\ (mcu' = mcu /\ ~scanCallback) \/ ~mcu'.asked \/ mcu'.scanDone
    BY <1>0, <2>1 DEF ScansTyped
  <2>3. ScansTyped'
    BY <1>0, <1>1, <1>2, <2>1, <2>2 DEF ScansTyped
  <2>4. AskedIsPending'
    BY <1>0, <2>1, <2>2 DEF AskedIsPending
  <2>5. QED
    BY <1>2, <2>3, <2>4 DEF WifiInv
<1>5. QED
  BY <1>3, <1>4 DEF ScanEnds

LEMMA ApscanKept ==
  ASSUME WifiInv, wifi_do_apscan
  PROVE  WifiInv'
<1>0. ScansTyped /\ WaitsForMode /\ OneScan /\ AskedIsPending
  BY DEF WifiInv
<1>1. CASE /\ scanCallback
           /\ mcu' = [mcu EXCEPT !.scanDone = FALSE, !.asked = @ /\ ~mcu.scanDone]
           /\ UNCHANGED <<scanVars, refused>>
  BY <1>0, <1>1
  DEF WifiInv, ScansTyped, WaitsForMode, OneScan, AskedIsPending, scanVars
<1>2. CASE /\ scanCallback' = TRUE
           /\ wifiStartScan
           /\ mcu' = [mcu EXCEPT !.scanDone = FALSE, !.asked = TRUE]
           /\ refused' = ~Scannable
  <2>1. ScansTyped' /\ WaitsForMode' /\ OneScan'
    BY <1>0, <1>2, StartKept DEF ScansTyped, Scannable
  <2>2. AskedIsPending'
    BY <1>2 DEF AskedIsPending, Scannable
  <2>3. QED
    BY <2>1, <2>2 DEF WifiInv
<1>3. QED
  BY <1>1, <1>2 DEF wifi_do_apscan

LEMMA PageKept ==
  ASSUME WifiInv, NEW c \in Clients, PageBegins(c) \/ PageGoesOn(c) \/ PageGone(c)
  PROVE  WifiInv'
<1>0. ScansTyped /\ WaitsForMode /\ OneScan /\ AskedIsPending
  BY DEF WifiInv
<1>1. /\ UNCHANGED <<mcu, refused, scanCallback>>
      /\ UNCHANGED scanVars \/ wifiStartScan
  BY DEF PageBegins, PageGoesOn, PageGone, scanVars
<1>2. CASE UNCHANGED scanVars
  BY <1>0, <1>1, <1>2
  DEF WifiInv, ScansTyped, WaitsForMode, OneScan, AskedIsPending, scanVars
<1>3. CASE wifiStartScan
  <2>1. ScansTyped' /\ WaitsForMode' /\ OneScan'
    BY <1>0, <1>1, <1>3, StartKept DEF ScansTyped
  <2>2. AskedIsPending'
    BY <1>0, <1>1, <1>3, StartKept DEF AskedIsPending
  <2>3. QED
    BY <2>1, <2>2 DEF WifiInv
<1>4. QED
  BY <1>1, <1>2, <1>3

LEMMA ModeKept ==
  ASSUME WifiInv, setModeCb \/ \E mode \in Modes \cup {"other"} : cgiWiFiSetMode(mode)
  PROVE  WifiInv'
<1>0. ScansTyped /\ WaitsForMode /\ OneScan /\ AskedIsPending
  BY DEF WifiInv
<1>1. CASE setModeCb
  <2>1. /\ UNCHANGED <<scanCallback, mcu, refused>> /\ newModeData.inProgress
        /\ newModeData' = [newModeData EXCEPT !.inProgress = FALSE]
        /\ IF newModeData.needScan THEN Begun ELSE NotBegun
    BY <1>1 DEF setModeCb
  <2>2. /\ newModeData' \in [inProgress : BOOLEAN, newMode : Modes \cup {"other"},
                            needScan : BOOLEAN]
        /\ ~newModeData'.inProgress
    BY <1>0, <2>1 DEF ScansTyped
  <2>3. CASE newModeData.needScan
    <3>0. scanning = 0 /\ unbegun = FALSE
      BY <1>0, <2>1, <2>3, Zenon DEF OneScan, WaitsForMode, ScansTyped
    <3>1. /\ cgiWifiAps' = [cgiWifiAps EXCEPT !.scanInProgress = TRUE]
          /\ (scanning' = 1 /\ unbegun' = FALSE) \/ (scanning' = 0 /\ unbegun' = TRUE)
      BY <2>1, <2>3, <3>0 DEF Begun
    <3>2. cgiWifiAps' \in [scanInProgress : BOOLEAN, noAps : Int] /\ cgiWifiAps'.scanInProgress
      BY <1>0, <3>1 DEF ScansTyped
    <3>3. OneScan' /\ unbegun' \in BOOLEAN
      <4>1. CASE scanning' = 1 /\ unbegun' = FALSE
        BY <3>2, <4>1 DEF OneScan
      <4>2. CASE scanning' = 0 /\ unbegun' = TRUE
        BY <3>2, <4>2 DEF OneScan
      <4>3. QED
        BY <3>1, <4>1, <4>2
    <3>4. QED
      BY <1>0, <2>1, <2>2, <3>1, <3>2, <3>3
      DEF WifiInv, ScansTyped, WaitsForMode, AskedIsPending
  <2>4. CASE ~newModeData.needScan
    BY <1>0, <2>1, <2>2, <2>4
    DEF NotBegun, WifiInv, ScansTyped, WaitsForMode, OneScan, AskedIsPending
  <2>5. QED
    BY <2>3, <2>4
<1>2. ASSUME NEW mode \in Modes \cup {"other"}, cgiWiFiSetMode(mode) PROVE WifiInv'
  BY <1>0, <1>2
  DEF cgiWiFiSetMode, WifiInv, ScansTyped, WaitsForMode, OneScan, AskedIsPending
<1>3. QED
  BY <1>1, <1>2

\* What the rest of the steps change is not looked at by scanning, but for the POLL that
\* reports a scan.
LEMMA WifiStep ==
  ASSUME WifiInv, [WifiNext]_wifiVars
  PROVE  WifiInv'
<1>1. CASE wifi_check_for_events
  BY <1>1
  DEF wifi_check_for_events, scanVars, WifiInv, ScansTyped, WaitsForMode, OneScan,
      AskedIsPending
<1>2. CASE UNCHANGED <<scanVars, mcu, refused>>
  BY <1>2 DEF scanVars, WifiInv, ScansTyped, WaitsForMode, OneScan, AskedIsPending
<1>3. ASSUME ModeChange \/ JoinNext PROVE WifiInv'
  BY <1>2, <1>3
  DEF ModeChange, Recover, setWiFiMode, JoinNext, cgiWiFiConnect, wifiJoin, Connect, reassTimerCb,
      resetTimerCb, cgiWiFiConnStatus, Address
<1>4. CASE ScanNext
  BY <1>1, <1>3, <1>4, ScanEndsKept, ApscanKept, PageKept, ModeKept DEF ScanNext
<1>5. CASE UNCHANGED wifiVars
  BY <1>2, <1>5 DEF wifiVars
<1>6. QED
  BY <1>3, <1>4, <1>5 DEF WifiNext

\* scanInProgress tells the truth, and the SDK never has two scans to do.
THEOREM ScansAlone == WifiSpec => []OneScan
<1>1. WifiInv => OneScan
  BY DEF WifiInv
<1>2. WifiInit => WifiInv
  BY WifiBegins
<1>3. WifiInv /\ [WifiNext]_wifiVars => WifiInv'
  BY WifiStep
<1>4. QED
  BY <1>1, <1>2, <1>3, PTL DEF WifiSpec

\* A scan the microcontroller asked for is never forgotten without being marked so.
THEOREM ScansPending == WifiSpec => []AskedIsPending
<1>1. WifiInv => AskedIsPending
  BY DEF WifiInv
<1>2. WifiInit => WifiInv
  BY WifiBegins
<1>3. WifiInv /\ [WifiNext]_wifiVars => WifiInv'
  BY WifiStep
<1>4. QED
  BY <1>1, <1>2, <1>3, PTL DEF WifiSpec
=============================================================================
