-------------------------------- MODULE SscpNet --------------------------------
(***************************************************************************)
(* The connections the microcontroller makes or serves besides HTTP: TCP    *)
(* (parallax/sscp-tcp.c), UDP (parallax/sscp-udp.c) and WebSockets          *)
(* (parallax/sscp-ws.c), with the commands and the handles they share       *)
(* (parallax/sscp-cmds.c, parallax/sscp.c).  The SDK is external: it calls  *)
(* back for the memory of a slot, also when the slot has been given back.   *)
(* Data are counts of bytes.                                                *)
(***************************************************************************)
EXTENDS Integers, FiniteSets

CONSTANTS
  ConnectionMax,  \* SSCP_CONNECTION_MAX
  ListenerMax,    \* SSCP_LISTENER_MAX
  RxMax,          \* SSCP_RX_BUFFER_MAX
  Urls,           \* URLs of WebSocket requests
  Paths,          \* paths the microcontroller listens on: the URLs each one matches
  Pieces,         \* lengths of what the network delivers at a time
  EventModes,     \* values of the setting sscp_events
  None

Types == {"tcp", "udp", "ws"}

ASSUME NetAssumption ==
  /\ ConnectionMax \in Nat \ {0} /\ ListenerMax \in Nat \ {0} /\ RxMax \in Nat \ {0}
  /\ Pieces \subseteq Nat
  /\ Paths \subseteq SUBSET Urls
  /\ EventModes \subseteq BOOLEAN
  /\ None \notin Nat /\ None \notin Paths /\ None \notin Types

Slots == 1..ConnectionMax
Listeners == 1..ListenerMax

\* Of the flags, TXDONE is left out: nobody reads it in these modules.
Flags == {"INIT", "TERM", "TXFULL", "RXFULL"}

VARIABLES
  sscp_events,  \* flashConfig.sscp_events
  conns,        \* sscp_connections
  listeners,    \* sscp_listeners: the path of each WebSocket listener
  pending,      \* the handle whose CONNECT, UDP or SEND has not been answered yet
  payload,      \* the handle whose payload is being captured
  stray,        \* history: a reply came that no command asked for
  failed,       \* history: a TCP connection broke after it had been made
  late,         \* history: a reply came about a handle that was given back
  astray        \* memory the SDK uses was given away, or a null pointer was used

vars == <<sscp_events, conns, listeners, pending, payload, stray, failed, late, astray>>

\* state is d.tcp.state or d.udp.state.  The SDK's side: lookup, the kind of socket a
\* name is looked up for; net, what there is of the socket, where a TCP connection is
\* connecting, open or closing; sending, txBuffer is being sent.
Unused == [type |-> None, flags |-> {}, state |-> "idle", rxCount |-> 0, rxIndex |-> 0,
           lookup |-> None, net |-> "none", sending |-> FALSE]
Connections == [type : Types \cup {None}, flags : SUBSET Flags,
                state : {"idle", "connecting", "connected"},
                rxCount : 0..RxMax, rxIndex : 0..RxMax, lookup : {"tcp", "udp", None},
                net : {"none", "connecting", "open", "closing", "udp", "ws"},
                sending : BOOLEAN]

\* sscp_init
Init ==
  /\ sscp_events \in EventModes
  /\ conns = [s \in Slots |-> Unused]
  /\ listeners = [i \in Listeners |-> None]
  /\ pending = None /\ payload = None
  /\ stray = FALSE /\ failed = FALSE /\ late = FALSE /\ astray = FALSE

-----------------------------------------------------------------------------
(* Handles and replies. *)

\* sscp_sendResponse, about handle s.  The reply ends the command that is being
\* processed, whatever it was about.
sscp_sendResponse(s) ==
  /\ stray' = (stray \/ pending # s)
  /\ late' = (late \/ conns[s].type = None)
  /\ pending' = None
Silent == UNCHANGED <<stray, late, pending>>

\* sscp_allocate_connection: the first slot that is not used.
FirstFree(s) == /\ conns[s].type = None
                /\ \A t \in Slots : conns[t].type = None => s <= t
sscp_allocate_connection(type) == [Unused EXCEPT !.type = type, !.flags = {"INIT"}]

\* The SDK, or a WebSocket, still holds the memory of the slot.
Held(s) == conns[s].lookup # None \/ conns[s].net # "none"

GoneAstray ==
  /\ astray' = TRUE
  /\ UNCHANGED <<sscp_events, conns, listeners, pending, payload, stray, failed, late>>

\* The close handlers: espconn_disconnect and cgiWebsocketClose only start to close,
\* espconn_delete is done at once.  The callbacks read nothing else of a free slot.
close_handler(c) ==
  [Unused EXCEPT !.lookup = c.lookup,
     !.net = IF c.net \in {"connecting", "open"} THEN "closing"
             ELSE IF c.net = "udp" THEN "none" ELSE c.net,
     !.sending = c.sending /\ c.net # "udp"]

\* sscp_close_connection
sscp_close_connection(c) == IF c.type = None THEN c ELSE close_handler(c)

\* sscp_find_listener: the first that matches.
sscp_find_listener(url) == {i \in Listeners : listeners[i] # None /\ url \in listeners[i]}

Set(s, c) == conns' = [conns EXCEPT ![s] = c]
Others == UNCHANGED <<sscp_events, listeners, failed, astray>>

\* A command is taken while none is being processed.
Ready == ~astray /\ pending = None /\ payload = None

-----------------------------------------------------------------------------
(* Connecting. *)

\* tcp_do_connect; a name that is not found or a connect that fails at once gives
\* the slot back, and changes nothing.
tcp_do_connect(s) ==
  /\ Ready /\ FirstFree(s)
  /\ \/ /\ ~Held(s)
        /\ \/ Set(s, [sscp_allocate_connection("tcp") EXCEPT !.lookup = "tcp"])
           \/ Set(s, [sscp_allocate_connection("tcp") EXCEPT !.net = "connecting",
                                                             !.state = "connecting"])
        /\ pending' = s
        /\ Others /\ UNCHANGED <<payload, stray, late>>
     \/ Held(s) /\ GoneAstray

\* udp_do_connect: without a lookup the answer is given at once.
udp_do_connect(s) ==
  /\ Ready /\ FirstFree(s)
  /\ \/ /\ ~Held(s)
        /\ \/ /\ Set(s, [sscp_allocate_connection("udp") EXCEPT !.lookup = "udp"])
              /\ pending' = s
           \/ /\ Set(s, [sscp_allocate_connection("udp") EXCEPT !.net = "udp",
                                                                !.state = "connected"])
              /\ UNCHANGED pending
        /\ Others /\ UNCHANGED <<payload, stray, late>>
     \/ Held(s) /\ GoneAstray

\* Mutant of DnsCb: a failed lookup is not answered.
DnsCbQuiet(s) ==
  LET c == [conns[s] EXCEPT !.lookup = None] IN
  /\ ~astray /\ conns[s].lookup # None
  /\ \/ Set(s, sscp_close_connection(c)) /\ Silent
     \/ /\ conns[s].lookup = "tcp"
        /\ Set(s, [c EXCEPT !.net = "connecting", !.state = "connecting"])
        /\ Silent
     \/ /\ conns[s].lookup = "udp"
        /\ Set(s, [c EXCEPT !.net = "udp", !.state = "connected"])
        /\ sscp_sendResponse(s)
  /\ Others /\ UNCHANGED payload

\* dns_cb of both modules: the name is not found or cannot be connected to, or the
\* connection goes on, also when the slot has been given back in the meantime.
DnsCb(s) ==
  LET c == [conns[s] EXCEPT !.lookup = None] IN
  /\ ~astray /\ conns[s].lookup # None
  /\ \/ Set(s, sscp_close_connection(c)) /\ sscp_sendResponse(s)
     \/ /\ conns[s].lookup = "tcp"
        /\ Set(s, [c EXCEPT !.net = "connecting", !.state = "connecting"])
        /\ Silent
     \/ /\ conns[s].lookup = "udp"
        /\ Set(s, [c EXCEPT !.net = "udp", !.state = "connected"])
        /\ sscp_sendResponse(s)
  /\ Others /\ UNCHANGED payload

\* tcp_connect_cb
tcp_connect_cb(s) ==
  /\ ~astray /\ conns[s].net = "connecting"
  /\ Set(s, [conns[s] EXCEPT !.net = "open", !.state = "connected"])
  /\ sscp_sendResponse(s)
  /\ Others /\ UNCHANGED payload

\* tcp_recon_cb: the connection is not made, or breaks.  The slot stays as it is.
tcp_recon_cb(s) ==
  LET c == conns[s] IN
  /\ ~astray /\ c.net \in {"connecting", "open", "closing"}
  /\ Set(s, [c EXCEPT !.net = "none", !.state = "idle", !.sending = FALSE])
  /\ sscp_sendResponse(s)
  /\ failed' = (failed \/ c.net = "open")
  /\ UNCHANGED <<sscp_events, listeners, payload, astray>>

\* tcp_discon_cb: the remote end closes, or what this end asked for is done.
tcp_discon_cb(s) ==
  LET c == conns[s] IN
  /\ ~astray /\ c.net \in {"open", "closing"}
  /\ Set(s, [c EXCEPT !.net = "none", !.state = "idle", !.sending = FALSE,
                      !.flags = @ \cup {"TERM"}])
  /\ Silent /\ Others /\ UNCHANGED payload

\* sscp_websocketConnect; without a listener or a slot the WebSocket is closed.
sscp_websocketConnect(s, url) ==
  /\ ~astray /\ sscp_find_listener(url) # {} /\ FirstFree(s)
  /\ \/ /\ ~Held(s)
        /\ Set(s, [sscp_allocate_connection("ws") EXCEPT !.net = "ws"])
        /\ Silent /\ Others /\ UNCHANGED payload
     \/ Held(s) /\ GoneAstray

\* websocketCloseCb: the slot forgets the socket, and that is all.
websocketCloseCb(s) ==
  /\ ~astray /\ conns[s].net = "ws"
  /\ Set(s, [conns[s] EXCEPT !.net = "none"])
  /\ Silent /\ Others /\ UNCHANGED payload

-----------------------------------------------------------------------------
(* Receiving. *)

\* Mutant of DataEvent: the setting is not looked at.
DataEventAlways(s) == sscp_sendResponse(s)

\* send_data_event answers with sscp_sendResponse whatever prefix it is given.
DataEvent(s) == IF sscp_events THEN sscp_sendResponse(s) ELSE Silent

\* tcp_recv_cb: what fits goes behind the data there is, and the reading starts at
\* the beginning again.
tcp_recv_cb(s, n) ==
  LET c == conns[s]
      count == IF c.rxCount + n > RxMax THEN RxMax ELSE c.rxCount + n
  IN /\ ~astray /\ c.net = "open" /\ n > 0
     /\ Set(s, [c EXCEPT !.rxCount = count,
                         !.rxIndex = IF count > c.rxCount THEN 0 ELSE @,
                         !.flags = @ \cup {"RXFULL"}])
     /\ IF count > c.rxCount /\ count < RxMax /\ "RXFULL" \notin c.flags
          THEN DataEvent(s) ELSE Silent
     /\ Others /\ UNCHANGED payload

\* Mutant of message_recv_cb: a message replaces the one before.
message_recv_cbReplaces(s, n) ==
  LET c == conns[s] IN
  /\ ~astray /\ c.net \in {"udp", "ws"}
  /\ n > 0 \/ c.net = "ws"
  /\ Set(s, [c EXCEPT !.rxCount = IF n > RxMax THEN RxMax ELSE n, !.rxIndex = 0,
                      !.flags = @ \cup {"RXFULL"}])
  /\ DataEvent(s)
  /\ Others /\ UNCHANGED payload

\* udp_recv_cb and websocketRecvCb, which are the same: a datagram, or a piece of a
\* frame, is taken if the one before has been read.  A piece may be empty.
message_recv_cb(s, n) ==
  LET c == conns[s] IN
  /\ ~astray /\ c.net \in {"udp", "ws"}
  /\ n > 0 \/ c.net = "ws"
  /\ "RXFULL" \notin c.flags
  /\ Set(s, [c EXCEPT !.rxCount = IF n > RxMax THEN RxMax ELSE n, !.rxIndex = 0,
                      !.flags = @ \cup {"RXFULL"}])
  /\ DataEvent(s)
  /\ Others /\ UNCHANGED payload

\* Mutant of recv_handler: each RECV takes the data for read.
recv_handlerClears(s, n) ==
  LET c == conns[s]
      size == IF c.rxIndex + n > c.rxCount THEN c.rxCount - c.rxIndex ELSE n
  IN /\ Ready /\ c.type # None
     /\ "RXFULL" \in c.flags
     /\ Set(s, [c EXCEPT !.rxIndex = @ + size, !.flags = @ \ {"RXFULL"}])
     /\ Silent /\ Others /\ UNCHANGED payload

\* recv_handler of the three modules, for RECV of n bytes.
recv_handler(s, n) ==
  LET c == conns[s]
      size == IF c.rxIndex + n > c.rxCount THEN c.rxCount - c.rxIndex ELSE n
  IN /\ Ready /\ c.type # None
     /\ IF c.type = "tcp" THEN c.rxCount > 0 ELSE "RXFULL" \in c.flags
     /\ Set(s, [c EXCEPT !.rxIndex = @ + size,
                         !.flags = IF c.rxIndex + size >= c.rxCount THEN @ \ {"RXFULL"}
                                   ELSE @])
     /\ Silent /\ Others /\ UNCHANGED payload

-----------------------------------------------------------------------------
(* Sending. *)

\* Mutant of send_handler: the buffer is not taken for full.
send_handlerFree(s) ==
  /\ Ready /\ conns[s].type # None /\ "TXFULL" \notin conns[s].flags
  /\ conns[s].type = "ws" \/ conns[s].state = "connected"
  /\ pending' = s /\ payload' = s
  /\ Others /\ UNCHANGED <<stray, late, conns>>

\* cmds_do_send and the send handlers, for more than zero bytes; a SEND that is
\* refused changes nothing.
send_handler(s) ==
  /\ Ready /\ conns[s].type # None /\ "TXFULL" \notin conns[s].flags
  /\ conns[s].type = "ws" \/ conns[s].state = "connected"
  /\ Set(s, [conns[s] EXCEPT !.flags = @ \cup {"TXFULL"}])
  /\ pending' = s /\ payload' = s
  /\ Others /\ UNCHANGED <<stray, late>>

\* send_cb of the three modules: the payload is complete.  The network takes txBuffer,
\* or refuses it; cgiWebsocketSend copies it.
send_cb(s) ==
  LET c == conns[s] IN
  /\ ~astray /\ payload = s
  /\ \/ /\ c.net \in {"open", "udp"}
        /\ Set(s, [c EXCEPT !.sending = TRUE])
        /\ payload' = None
        /\ Silent /\ Others
     \/ /\ c.type = "ws" => c.net = "ws"
        /\ Set(s, [c EXCEPT !.flags = @ \ {"TXFULL"}])
        /\ payload' = None
        /\ sscp_sendResponse(s) /\ Others
     \/ c.type = "ws" /\ c.net = "none" /\ GoneAstray

\* tcp_sent_cb and udp_sent_cb
sent_cb(s) ==
  /\ ~astray /\ conns[s].sending
  /\ Set(s, [conns[s] EXCEPT !.sending = FALSE, !.flags = @ \ {"TXFULL"}])
  /\ sscp_sendResponse(s)
  /\ Others /\ UNCHANGED payload

-----------------------------------------------------------------------------
(* Other commands. *)

\* The flag an event is sent for: checkForEvents_handler of the three modules.
checkForEvents(c) ==
  IF c.type = "udp" THEN c.flags \cap {"RXFULL"}
  ELSE IF c.type = "ws" /\ c.net = "none" THEN {}
  ELSE IF "TERM" \in c.flags THEN {"TERM"}
  ELSE IF "INIT" \in c.flags THEN {"INIT"}
  ELSE c.flags \cap {"RXFULL"}

\* cmds_do_poll: the first handle of those in the mask that has an event; RXFULL stays
\* until the data are read.
cmds_do_poll(s, mask) ==
  /\ Ready /\ s \in mask /\ conns[s].type # None
  /\ checkForEvents(conns[s]) # {}
  /\ \A t \in mask : conns[t].type # None /\ checkForEvents(conns[t]) # {} => s <= t
  /\ Set(s, [conns[s] EXCEPT !.flags = @ \ (checkForEvents(conns[s]) \ {"RXFULL"})])
  /\ Silent /\ Others /\ UNCHANGED payload

\* cmds_do_close of a connection
cmds_do_close(s) ==
  /\ Ready /\ conns[s].type # None
  /\ Set(s, close_handler(conns[s]))
  /\ Silent /\ Others /\ UNCHANGED payload

\* cmds_do_listen: the first free listener.
cmds_do_listen(i, path) ==
  /\ Ready /\ listeners[i] = None
  /\ \A j \in Listeners : listeners[j] = None => i <= j
  /\ listeners' = [listeners EXCEPT ![i] = path]
  /\ UNCHANGED <<sscp_events, conns, pending, payload, stray, failed, late, astray>>

\* cmds_do_close of a listener
CloseListener(i) ==
  /\ Ready /\ listeners[i] # None
  /\ listeners' = [listeners EXCEPT ![i] = None]
  /\ UNCHANGED <<sscp_events, conns, pending, payload, stray, failed, late, astray>>

\* sscp_reset, on a break of the serial line
sscp_reset ==
  /\ ~astray
  /\ conns' = [s \in Slots |-> sscp_close_connection(conns[s])]
  /\ listeners' = [i \in Listeners |-> None]
  /\ pending' = None /\ payload' = None
  /\ UNCHANGED <<sscp_events, stray, failed, late, astray>>

-----------------------------------------------------------------------------
Command ==
  \/ \E s \in Slots : \/ tcp_do_connect(s) \/ udp_do_connect(s) \/ send_handler(s)
                      \/ cmds_do_close(s)
                      \/ \E mask \in SUBSET Slots : cmds_do_poll(s, mask)
                      \/ \E n \in Pieces : recv_handler(s, n)
  \/ \E i \in Listeners : CloseListener(i) \/ \E path \in Paths : cmds_do_listen(i, path)
  \/ sscp_reset

Callback(s) ==
  \/ DnsCb(s) \/ tcp_connect_cb(s) \/ tcp_recon_cb(s) \/ tcp_discon_cb(s)
  \/ websocketCloseCb(s) \/ send_cb(s) \/ sent_cb(s)
  \/ \E url \in Urls : sscp_websocketConnect(s, url)
  \/ \E n \in Pieces : tcp_recv_cb(s, n) \/ message_recv_cb(s, n)

Next == Command \/ \E s \in Slots : Callback(s)

Spec == Init /\ [][Next]_vars

\* A connection that is being made is made or not.
Resolve(s) == conns[s].net = "connecting" /\ (tcp_connect_cb(s) \/ tcp_recon_cb(s))

\* The SDK answers each request, and the microcontroller sends the payload it has
\* announced.
FairSpec ==
  /\ Spec
  /\ \A s \in Slots :
       /\ WF_vars(DnsCb(s)) /\ WF_vars(Resolve(s))
       /\ WF_vars(send_cb(s)) /\ WF_vars(sent_cb(s))

-----------------------------------------------------------------------------
(* Properties. *)

\* The variables have their types, and a read index stays within the data.
TypeOK ==
  /\ sscp_events \in BOOLEAN
  /\ conns \in [Slots -> Connections]
  /\ \A s \in Slots : conns[s].rxIndex <= conns[s].rxCount
  /\ listeners \in [Listeners -> Paths \cup {None}]
  /\ pending \in Slots \cup {None} /\ payload \in Slots \cup {None}
  /\ stray \in BOOLEAN /\ failed \in BOOLEAN /\ late \in BOOLEAN /\ astray \in BOOLEAN

\* Data that have not been read are flagged, so that a POLL reports them.
UnreadIsFlagged ==
  \A s \in Slots : conns[s].rxIndex < conns[s].rxCount => "RXFULL" \in conns[s].flags

\* The buffer of a SEND is not filled again while its payload is captured or sent.
BufferKept ==
  \A s \in Slots : conns[s].type # None /\ (conns[s].sending \/ payload = s)
    => "TXFULL" \in conns[s].flags

\* Without events, the microcontroller gets one reply for each command until one of two
\* things happens: an established TCP connection breaks, or the SDK answers a request of
\* a handle that a break or a CLOSE took away.
ReplyWhenAsked == stray => sscp_events \/ failed \/ late

\* A datagram or a message is not written over before it has been read.
MessageKept ==
  [][\A s \in Slots :
       conns[s].type \in {"udp", "ws"} /\ conns'[s].type = conns[s].type
         /\ conns[s].rxIndex < conns[s].rxCount
       => conns'[s].rxCount = conns[s].rxCount /\ conns'[s].rxIndex >= conns[s].rxIndex]_vars

\* The remote end closed the connection while the data of a SEND were on their way.
CutOff(s) == payload # s /\ conns[s].net = "none" /\ "TERM" \in conns[s].flags

\* CONNECT, UDP and SEND are answered, unless their own connection is cut off.
CommandIsAnswered ==
  \A s \in Slots : (pending = s) ~> (pending # s \/ CutOff(s) \/ astray)
===============================================================================
