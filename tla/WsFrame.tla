------------------------------- MODULE WsFrame --------------------------------
(***************************************************************************)
(* One WebSocket of the web server (libesphttpd/util/cgiwebsocket.c, with   *)
(* what httpd.c does around it).  The client sends frames; the network cuts *)
(* the stream anywhere; cgiWebSocketRecv works on one segment, here in a    *)
(* step per header byte and a step per stretch of payload, and nothing else *)
(* happens meanwhile.  Payloads are counts of bytes.                        *)
(***************************************************************************)
EXTENDS Integers

CONSTANTS
  Frames,    \* what the client sends: [opcode, fin, masked, form, len]
  Base,      \* values of a byte of a length, 256 in the code
  PingMax,   \* the longest PING that is answered, 125 in the code
  Stretches, \* lengths of the segments the network delivers
  None

Opcodes == {"text", "binary", "continue", "close", "ping", "pong"}
DataOpcodes == {"text", "binary", "continue"}

\* The bytes of the length behind the first one: none, 2 or 8.
Extension(f) == CASE f.form = "short" -> 0 [] f.form = "medium" -> 2 [] f.form = "long" -> 8

ASSUME WsAssumption ==
  /\ Base \in Nat \ {0, 1} /\ PingMax \in Nat /\ Stretches \subseteq Nat \ {0}
  /\ None \notin [opcode : Opcodes, fin : BOOLEAN, len : Nat]
  /\ \A f \in Frames : /\ f.opcode \in Opcodes /\ f.fin \in BOOLEAN /\ f.masked \in BOOLEAN
                       /\ f.form \in {"short", "medium", "long"} /\ f.len \in Nat
                       /\ f.form # "short" => f.len < Base ^ Extension(f)

\* The law of exponents, for the places of a length: the provers do not know it.
ASSUME PlacesAssumption == Base ^ 0 = 1 /\ \A k \in 0..7 : Base ^ (k + 1) = Base * Base ^ k

ST_FLAGS == 0
ST_LEN0 == 1
ST_LEN1 == 2
ST_LEN2 == 3
ST_LEN8 == 9
ST_MASK1 == 10
ST_MASK4 == 13
ST_PAYLOAD == 14

VARIABLES
  frame,       \* the frame the client is sending
  worked,      \* how many of its bytes cgiWebSocketRecv has worked on
  remains,     \* bytes of the segment it has not worked on yet
  fresh,       \* wasHeaderByte: it has just read the last byte of a header
  wsStatus, fr, maskCtr, frameCont, closedHere,   \* WebsockPriv
  socket,      \* open, done (cgiData is freed), or closed
  unsent,      \* a sent callback is to come
  piece,       \* the last call of recvCb
  closeCbs,    \* history: calls of closeCb
  ending,      \* history: what the handler returned DONE for: see Finish
  wild         \* cgiWebSocketRecv was called without a WebSocket

parser == <<wsStatus, fr, maskCtr, frameCont>>
wsVars == <<frame, worked, remains, fresh, parser, closedHere, socket, unsent, piece, closeCbs, ending, wild>>

\* cgiWebsocket, first call: the structures are all zero.
WsInit ==
  /\ frame \in Frames /\ worked = 0 /\ remains = 0 /\ fresh = FALSE
  /\ wsStatus = ST_FLAGS /\ maskCtr = 0 /\ frameCont = FALSE /\ closedHere = FALSE
  /\ fr = [opcode |-> "continue", fin |-> FALSE, masked |-> FALSE, form |-> "short", len |-> 0]
  /\ socket = "open" /\ unsent = TRUE
  /\ piece = None /\ closeCbs = 0 /\ ending = None /\ wild = FALSE

-----------------------------------------------------------------------------
(* The stream. *)

HeaderSize(f) == 2 + Extension(f) + (IF f.masked THEN 4 ELSE 0)
FrameSize(f) == HeaderSize(f) + f.len

\* What the byte with that number means, as the state the parser should be in.
Meaning(f, p) ==
  IF p = 1 THEN ST_FLAGS
  ELSE IF p = 2 THEN ST_LEN0
  ELSE IF p <= 2 + Extension(f) THEN p - 1
  ELSE IF p <= HeaderSize(f) THEN ST_MASK1 + p - 3 - Extension(f)
  ELSE ST_PAYLOAD

LengthByte(f, p) == (f.len \div Base ^ (2 + Extension(f) - p)) % Base

Busy == remains > 0 \/ fresh

\* The client begins another frame; after a CLOSE it has nothing to say.
NextFrame ==
  /\ ~wild /\ worked = FrameSize(frame) /\ ~fresh /\ frame.opcode # "close"
  /\ frame' \in Frames /\ worked' = 0
  /\ UNCHANGED <<remains, fresh, parser, closedHere, socket, unsent, piece, closeCbs, ending, wild>>

\* httpdRecvCb: a segment.  When the WebSocket is gone the handler is called all the
\* same, with cgiData cleared.
FrameBytes(n) ==
  /\ ~wild /\ ~Busy /\ socket # "closed" /\ worked < FrameSize(frame)
  /\ frame.opcode = "close" => worked + n <= FrameSize(frame)
  /\ IF socket = "open" THEN remains' = n /\ UNCHANGED wild
                        ELSE wild' = TRUE /\ UNCHANGED remains
  /\ UNCHANGED <<frame, worked, fresh, parser, closedHere, socket, unsent, piece, closeCbs, ending>>

-----------------------------------------------------------------------------
(* cgiWebSocketRecv *)

HeaderEnd(masked) == IF masked THEN ST_MASK1 ELSE ST_PAYLOAD

LengthEnds == (fr.form = "medium" /\ wsStatus = ST_LEN2) \/ wsStatus = ST_LEN8

HeaderByte ==
  /\ remains > 0 /\ ~fresh /\ wsStatus # ST_PAYLOAD /\ worked < FrameSize(frame)
  /\ \/ /\ wsStatus = ST_FLAGS
        /\ maskCtr' = 0 /\ frameCont' = FALSE
        /\ fr' = [fr EXCEPT !.opcode = frame.opcode, !.fin = frame.fin]
        /\ wsStatus' = ST_LEN0
     \/ /\ wsStatus = ST_LEN0
        /\ fr' = [fr EXCEPT !.masked = frame.masked, !.form = frame.form,
                            !.len = IF frame.form = "short" THEN frame.len ELSE 0]
        /\ wsStatus' = IF frame.form = "short" THEN HeaderEnd(frame.masked) ELSE ST_LEN1
        /\ UNCHANGED <<maskCtr, frameCont>>
     \/ /\ wsStatus \in ST_LEN1..ST_LEN8
        /\ fr' = [fr EXCEPT !.len = @ * Base + LengthByte(frame, worked + 1)]
        /\ wsStatus' = IF LengthEnds THEN HeaderEnd(fr.masked) ELSE wsStatus + 1
        /\ UNCHANGED <<maskCtr, frameCont>>
     \/ /\ wsStatus \in ST_MASK1..ST_MASK4
        /\ wsStatus' = wsStatus + 1
        /\ UNCHANGED <<fr, maskCtr, frameCont>>
  /\ fresh' = (wsStatus' = ST_PAYLOAD)
  /\ remains' = remains - 1 /\ worked' = worked + 1
  /\ UNCHANGED <<frame, closedHere, socket, unsent, piece, closeCbs, ending, wild>>

\* sl: what the segment has of the payload, nothing right behind the header perhaps.
Stretch == IF remains > fr.len THEN fr.len ELSE remains

\* Mutant of Consume: each stretch is unmasked from the first byte of the mask.
ConsumeFromFirstKey(n) ==
  /\ maskCtr' = 0
  /\ fr' = [fr EXCEPT !.len = @ - n]
  /\ IF fr.len = n THEN wsStatus' = ST_FLAGS /\ UNCHANGED frameCont
                   ELSE frameCont' = TRUE /\ UNCHANGED wsStatus
  /\ remains' = remains - n /\ worked' = worked + n /\ fresh' = FALSE
  /\ UNCHANGED <<frame, closedHere, socket, closeCbs, ending, wild>>

\* n bytes of payload are unmasked and done with.
Consume(n) ==
  /\ maskCtr' = (maskCtr + n) % 256
  /\ fr' = [fr EXCEPT !.len = @ - n]
  /\ IF fr.len = n THEN wsStatus' = ST_FLAGS /\ UNCHANGED frameCont
                   ELSE frameCont' = TRUE /\ UNCHANGED wsStatus
  /\ remains' = remains - n /\ worked' = worked + n /\ fresh' = FALSE
  /\ UNCHANGED <<frame, closedHere, socket, closeCbs, ending, wild>>

\* Mutant of websockFree: closeCb is not called for a WebSocket closed here.
websockFreeQuiet == closeCbs' = IF closedHere THEN closeCbs ELSE closeCbs + 1

\* websockFree; the list of WebSockets is left out.
websockFree == closeCbs' = closeCbs + 1

\* The handler returns DONE: cgiData is freed, the rest of the segment forgotten, and
\* the connection ends with the next sent callback (httpdCgiIsDone).
\* answer: it was for the answer to a CLOSE sent here; cut: bytes of the frame are to come.
Finish ==
  LET n == IF worked + remains > FrameSize(frame) THEN FrameSize(frame) - worked ELSE remains IN
  /\ websockFree
  /\ socket' = "done" /\ remains' = 0 /\ fresh' = FALSE
  /\ worked' = worked + n
  /\ ending' = [frame |-> frame, answer |-> closedHere, cut |-> worked + n < FrameSize(frame)]
  /\ UNCHANGED <<frame, parser, piece, wild>>

\* cgiWebsocketClose
cgiWebsocketClose == closedHere' = TRUE /\ unsent' = TRUE

AtPayload == wsStatus = ST_PAYLOAD /\ Busy

\* A PING is answered as it comes, if it is short enough.
Ping ==
  /\ AtPayload /\ fr.opcode = "ping"
  /\ \/ /\ fr.len > PingMax
        /\ IF frameCont THEN UNCHANGED <<closedHere, unsent>> ELSE cgiWebsocketClose
        /\ Finish
     \/ /\ fr.len <= PingMax
        /\ unsent' = (unsent \/ ~frameCont \/ Stretch > 0)
        /\ Consume(Stretch) /\ UNCHANGED piece

\* recvCb gets the piece with the flags of its frame.
Data ==
  /\ AtPayload /\ fr.opcode \in DataOpcodes
  /\ \/ /\ fr.masked
        /\ piece' = [from |-> worked - HeaderSize(frame), count |-> Stretch, opcode |-> fr.opcode,
                     fin |-> fr.fin, clear |-> maskCtr % 4 = (worked - HeaderSize(frame)) % 4]
        /\ Consume(Stretch) /\ UNCHANGED unsent
     \/ ~fr.masked /\ cgiWebsocketClose /\ Finish

\* Mutant of CloseFrame: a CLOSE is not answered.
CloseFrameUnanswered ==
  /\ AtPayload /\ fr.opcode = "close"
  /\ UNCHANGED <<closedHere, unsent>>
  /\ Finish

\* A CLOSE is answered, unless it is the answer, before its payload has come.
CloseFrame ==
  /\ AtPayload /\ fr.opcode = "close"
  /\ IF closedHere THEN UNCHANGED <<closedHere, unsent>> ELSE cgiWebsocketClose
  /\ Finish

Pong == AtPayload /\ fr.opcode = "pong" /\ Consume(Stretch) /\ UNCHANGED <<piece, unsent>>

cgiWebSocketRecv == HeaderByte \/ Ping \/ Data \/ CloseFrame \/ Pong

-----------------------------------------------------------------------------
(* The application and the web server. *)

\* cgiWebsocketSend
Send ==
  /\ ~wild /\ ~Busy /\ socket = "open"
  /\ unsent' = TRUE
  /\ UNCHANGED <<frame, worked, remains, fresh, parser, closedHere, socket, piece, closeCbs, ending, wild>>

\* cgiWebsocketClose by the application
Close ==
  /\ ~wild /\ ~Busy /\ socket = "open" /\ ~closedHere
  /\ cgiWebsocketClose
  /\ UNCHANGED <<frame, worked, remains, fresh, parser, socket, piece, closeCbs, ending, wild>>

\* httpdSentCb, with no backlog left.
wsSentCb ==
  /\ ~wild /\ ~Busy /\ unsent /\ socket # "closed"
  /\ unsent' = FALSE
  /\ socket' = IF socket = "done" THEN "closed" ELSE socket
  /\ UNCHANGED <<frame, worked, remains, fresh, parser, closedHere, piece, closeCbs, ending, wild>>

\* httpdDisconCb and httpdReconCb, and cgiWebsocket's clean-up: the client closes the
\* socket, or it breaks.
wsDisconCb ==
  /\ ~wild /\ ~Busy /\ socket # "closed"
  /\ IF socket = "open" THEN websockFree ELSE UNCHANGED closeCbs
  /\ socket' = "closed" /\ unsent' = FALSE
  /\ UNCHANGED <<frame, worked, remains, fresh, parser, closedHere, piece, ending, wild>>

WsNext ==
  \/ NextFrame \/ cgiWebSocketRecv
  \/ \E n \in Stretches : FrameBytes(n)
  \/ Send \/ Close \/ wsSentCb \/ wsDisconCb

WsSpec == WsInit /\ [][WsNext]_wsVars
WsFairSpec == WsSpec /\ WF_wsVars(wsSentCb) /\ WF_wsVars(cgiWebSocketRecv)

-----------------------------------------------------------------------------
(* Properties. *)

\* The application learns once, and only once, that a WebSocket is gone.
ClosedOnce == closeCbs = IF socket = "open" THEN 0 ELSE 1

\* What cgiWebSocketRecv cannot serve: data that is not masked, a PING that is too long.
Unserved(f) ==
  \/ f.opcode \in DataOpcodes /\ ~f.masked
  \/ f.opcode = "ping" /\ f.len > PingMax

\* After DONE the handler is called again, if a client it has turned away goes on, or for
\* the rest of a CLOSE that was cut.
CalledAgain ==
  wild /\ (Unserved(ending.frame) \/ (ending.frame.opcode = "close" /\ ending.cut))

\* After the handler has returned DONE the socket is closed, unless what it returned DONE
\* for was the answer to a CLOSE sent here; and nothing else than what CalledAgain names
\* has it called without a WebSocket (httpdRecvCb).
DoneIsClosed ==
  (socket = "done") ~> (socket = "closed" \/ (ending # None /\ (ending.answer \/ CalledAgain)))

\* The application gets what the client sent, as WsStream says.
Message(f) == [opcode |-> f.opcode, fin |-> f.fin, len |-> f.len]
InData == socket = "open" /\ wsStatus = ST_PAYLOAD /\ fr.opcode \in DataOpcodes /\ fr.masked

Stream == INSTANCE WsStream WITH
  Messages <- {Message(f) : f \in Frames},
  open <- socket = "open",
  msg <- IF InData THEN Message(frame) ELSE None,
  got <- IF InData THEN worked - HeaderSize(frame) ELSE 0

ImplementsWsStream == Stream!Spec
===============================================================================
