------------------------------ MODULE Serbridge -------------------------------
(***************************************************************************)
(* The bytes that come from the microcontroller (esp-link-stuff/uart.c) and *)
(* the TCP connections they go to (esp-link-stuff/serbridge.c).  A byte is  *)
(* a count.  uart_tx_buffer, the other direction, writes what it is given   *)
(* before it returns, and keeps no state.                                   *)
(***************************************************************************)
EXTENDS Integers

CONSTANTS
  MaxConn,  \* MAX_CONN
  MaxTx,    \* MAX_TXBUFFER
  FifoMax   \* the size of the receive FIFO of the UART

\* A batch never is larger than the buffer of a connection, so that espbuffsend does
\* not call itself.
ASSUME BridgeAssumption ==
  /\ MaxConn \in Nat \ {0} /\ FifoMax \in Nat \ {0} /\ MaxTx \in Nat /\ FifoMax <= MaxTx

VARIABLES
  fifo,         \* bytes in the receive FIFO
  breakSeen,    \* UART_BRK_DET_INT_RAW
  intr,         \* the interrupts of the UART are enabled
  posted,       \* uart_recvTask is in the queue of tasks, which only it uses
  forLoader,    \* programmingCB: the Propeller loader takes the bytes
  sscpEnabled,  \* flashConfig.sscp_enable
  connData

bridgeVars == <<fifo, breakSeen, intr, posted, forLoader, sscpEnabled, connData>>

Pool == 1..MaxConn

\* sent is the length of sentbuffer, overflow is txoverflow_at # 0.  History: owed, the
\* bytes given to espbuffsend whose sent callback has not come; lost, not all fitted.
Free == [conn |-> "none", txbufferlen |-> 0, sent |-> 0, overflow |-> FALSE,
         readytosend |-> FALSE, owed |-> 0, lost |-> FALSE]
Conns == [conn : {"none", "open", "closing"}, txbufferlen : 0..MaxTx, sent : 0..MaxTx,
          overflow : BOOLEAN, readytosend : BOOLEAN, owed : 0..(2 * MaxTx), lost : BOOLEAN]

\* uart_init, serbridgeInit; sscp_enable is a setting.
BridgeInit ==
  /\ fifo = 0 /\ breakSeen = FALSE /\ forLoader = FALSE
  /\ intr = TRUE /\ posted = FALSE
  /\ sscpEnabled \in BOOLEAN
  /\ connData = [i \in Pool |-> Free]

-----------------------------------------------------------------------------
(* The UART. *)

Arrive(n) ==
  /\ fifo + n <= FifoMax
  /\ fifo' = fifo + n
  /\ UNCHANGED <<breakSeen, intr, posted, forLoader, sscpEnabled, connData>>

\* A break is a framing error too.
BreakComes ==
  /\ breakSeen' = TRUE
  /\ UNCHANGED <<fifo, intr, posted, forLoader, sscpEnabled, connData>>

\* uart0_rx_intr_handler: a framing error empties the FIFO, whose own interrupt may
\* be pending all the same.
uart0_rx_intr_handler(error) ==
  /\ intr
  /\ fifo > 0 \/ breakSeen
  /\ fifo' = IF error THEN 0 ELSE fifo
  /\ \/ intr' = FALSE /\ posted' = TRUE
     \/ error /\ ~breakSeen /\ UNCHANGED <<intr, posted>>
  /\ UNCHANGED <<breakSeen, forLoader, sscpEnabled, connData>>

-----------------------------------------------------------------------------
(* UART -> TCP *)

\* Mutant of sendtxbuffer: the clock is not started when the network refuses.
sendtxbufferUnwatched(c, ok) ==
  IF c.txbufferlen = 0 THEN c
  ELSE IF ok THEN [c EXCEPT !.readytosend = FALSE, !.sent = c.txbufferlen, !.txbufferlen = 0]
  ELSE [c EXCEPT !.readytosend = FALSE, !.txbufferlen = 0,
                 !.owed = @ - c.txbufferlen, !.lost = TRUE]

\* sendtxbuffer: what the network refuses is thrown away, and no callback comes.
sendtxbuffer(c, ok) ==
  IF c.txbufferlen = 0 THEN c
  ELSE IF ok THEN [c EXCEPT !.readytosend = FALSE, !.sent = c.txbufferlen, !.txbufferlen = 0]
  ELSE [c EXCEPT !.readytosend = FALSE, !.txbufferlen = 0, !.overflow = TRUE,
                 !.owed = @ - c.txbufferlen, !.lost = TRUE]

\* The label overflow: late, the buffer has been full for ten seconds.
Overflow(c, late) ==
  [c EXCEPT !.overflow = TRUE, !.lost = TRUE,
            !.conn = IF c.overflow /\ late THEN "closing" ELSE @]

\* Mutant of espbuffsend: a batch that does not fit is dropped from the count only.
espbuffsendCounts(c, n, ok, late, heap) ==
  LET avail == IF c.txbufferlen + n > MaxTx THEN MaxTx - c.txbufferlen ELSE n
      added == [c EXCEPT !.txbufferlen = @ + avail, !.owed = @ + n]
      tried == IF c.readytosend THEN sendtxbuffer(added, ok) ELSE added
  IN IF c.txbufferlen = MaxTx THEN Overflow(c, late) ELSE tried

\* espbuffsend; heap: there is memory for a buffer, which an empty one may need.
espbuffsend(c, n, ok, late, heap) ==
  LET avail == IF c.txbufferlen + n > MaxTx THEN MaxTx - c.txbufferlen ELSE n
      added == [c EXCEPT !.txbufferlen = @ + avail, !.owed = @ + avail]
      tried == IF c.readytosend THEN sendtxbuffer(added, ok) ELSE added
  IN IF c.txbufferlen = MaxTx THEN Overflow(c, late)
     ELSE IF c.txbufferlen = 0 /\ ~heap THEN [c EXCEPT !.lost = TRUE]
     ELSE IF avail < n THEN Overflow(tried, late) ELSE tried

\* console_process: the bytes go to every connection.
console_process(n) ==
  \E ok, heap \in [Pool -> BOOLEAN], late \in BOOLEAN :
    connData' = [i \in Pool |-> IF connData[i].conn = "none" THEN connData[i]
                                ELSE espbuffsend(connData[i], n, ok[i], late, heap[i])]

\* uart_recvTask, with serbridgeUartCb: the FIFO is emptied and the interrupts enabled.
\* sscp_filter keeps the bytes of commands.
uart_recvTask ==
  /\ posted
  /\ posted' = FALSE /\ intr' = TRUE
  /\ breakSeen' = FALSE /\ sscpEnabled' = (sscpEnabled \/ breakSeen)
  /\ fifo' = 0
  /\ IF forLoader \/ fifo = 0 THEN UNCHANGED connData
     ELSE \E n \in 0..fifo : /\ ~sscpEnabled' => n = fifo
                             /\ IF n = 0 THEN UNCHANGED connData ELSE console_process(n)
  /\ UNCHANGED forLoader

\* The loader takes the serial line, or gives it back.
Capture ==
  /\ forLoader' = ~forLoader
  /\ UNCHANGED <<fifo, breakSeen, intr, posted, sscpEnabled, connData>>

-----------------------------------------------------------------------------
(* The connections. *)

UartUnchanged == UNCHANGED <<fifo, breakSeen, intr, posted, forLoader, sscpEnabled>>

serbridgeSentCb(i, ok) ==
  LET c == connData[i] IN
  /\ c.sent > 0
  /\ connData' = [connData EXCEPT ![i] =
       sendtxbuffer([c EXCEPT !.sent = 0, !.owed = @ - c.sent, !.readytosend = TRUE,
                              !.overflow = FALSE], ok)]
  /\ UartUnchanged

\* serbridgeConnectCb: the first free descriptor; without one the connection is refused.
serbridgeConnectCb(i) ==
  /\ connData[i].conn = "none" /\ \A j \in 1..(i - 1) : connData[j].conn # "none"
  /\ connData' = [connData EXCEPT ![i] = [Free EXCEPT !.conn = "open", !.readytosend = TRUE]]
  /\ UartUnchanged

\* serbridgeDisconCb, serbridgeResetCb; the mode never is cmPGM.
serbridgeDisconCb(i) ==
  /\ connData[i].conn # "none"
  /\ connData' = [connData EXCEPT ![i].conn = "none", ![i].txbufferlen = 0, ![i].sent = 0,
                                  ![i].owed = 0]
  /\ UartUnchanged

BridgeNext ==
  \/ \E n \in 1..FifoMax : Arrive(n)
  \/ BreakComes \/ uart_recvTask \/ Capture
  \/ \E error \in BOOLEAN : uart0_rx_intr_handler(error)
  \/ \E i \in Pool : \/ serbridgeConnectCb(i) \/ serbridgeDisconCb(i)
                     \/ \E ok \in BOOLEAN : serbridgeSentCb(i, ok)

BridgeSpec == BridgeInit /\ [][BridgeNext]_bridgeVars

-----------------------------------------------------------------------------
(* Properties. *)

\* The variables have their types.
BridgeTypeOK ==
  /\ fifo \in 0..FifoMax
  /\ breakSeen \in BOOLEAN /\ intr \in BOOLEAN /\ posted \in BOOLEAN
  /\ forLoader \in BOOLEAN /\ sscpEnabled \in BOOLEAN
  /\ connData \in [Pool -> Conns]

\* A connection for which the network and the heap have refused nothing and whose buffer
\* has not filled up gets every byte once: what it has not got is in the two buffers.
BytesConserved ==
  \A i \in Pool :
    connData[i].lost \/ connData[i].owed = connData[i].sent + connData[i].txbufferlen

\* Bytes wait in a buffer only while others are on their way, or while the clock runs
\* that ends a connection without progress.
WaitingIsWatched ==
  \A i \in Pool :
    connData[i].txbufferlen > 0 => connData[i].sent > 0 \/ connData[i].overflow
===============================================================================
