------------------------------- MODULE WsStream -------------------------------
(***************************************************************************)
(* What cgiwebsocket.c promises the application of a WebSocket: the payload *)
(* of each data frame comes in consecutive pieces, unmasked, with the type  *)
(* and the final flag of its frame, however the network cuts the stream;    *)
(* a piece may be empty.  Nothing comes after the end.                      *)
(***************************************************************************)
EXTENDS Naturals

CONSTANTS Messages,  \* what a data frame is to the application: [opcode, fin, len]
          None

VARIABLES open,   \* the WebSocket is there
          msg,    \* the frame whose pieces are coming
          got,    \* how much of it has come
          piece   \* the last piece: from where, how many, of what, readable

vars == <<open, msg, got, piece>>

Init == open = TRUE /\ msg = None /\ got = 0 /\ piece = None

Begin(m) == /\ open /\ msg = None
            /\ msg' = m /\ got' = 0
            /\ UNCHANGED <<open, piece>>

Piece(n) ==
  /\ open /\ msg # None /\ got + n <= msg.len
  /\ piece' = [from |-> got, count |-> n, opcode |-> msg.opcode, fin |-> msg.fin, clear |-> TRUE]
  /\ got' = IF got + n = msg.len THEN 0 ELSE got + n
  /\ msg' = IF got + n = msg.len THEN None ELSE msg
  /\ UNCHANGED open

End == open /\ open' = FALSE /\ msg' = None /\ got' = 0 /\ UNCHANGED piece

Next == End \/ \E m \in Messages : Begin(m) \/ \E n \in 0..m.len : Piece(n)
Spec == Init /\ [][Next]_vars
===============================================================================
