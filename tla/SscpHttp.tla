------------------------------- MODULE SscpHttp -------------------------------
(***************************************************************************)
(* HTTP requests served by the microcontroller (parallax/sscp-http.c), with *)
(* the part of the web server (libesphttpd/core/httpd.c) that drives them.  *)
(* A request lives in a cell of the heap, its HttpdConnData; the slot of    *)
(* sscp_connections that stands for it keeps a pointer to the cell, and the *)
(* cell a pointer to the slot in cgiData.  The server frees a cell when its *)
(* socket closes, and the heap gives the memory to a later request.  Each   *)
(* callback and each command is one step, as on the single-threaded SDK;    *)
(* the payload of a command arrives in a later step.                        *)
(***************************************************************************)
EXTENDS Integers, Sequences

CONSTANTS
  ConnectionMax,  \* SSCP_CONNECTION_MAX
  Cells,          \* addresses a HttpdConnData may have
  None,           \* the null pointer
  Totals,         \* body lengths of the replies
  Sizes,          \* payload lengths of a REPLY or SEND
  ReplyRoom,      \* the longest payload that fits in sendBuff behind the headers
  MoreChunks,     \* POST buffers that follow the first one
  MaxBacklog,     \* MAX_BACKLOG_SIZE
  Overlap,        \* the microcontroller sends again without waiting for 'S'
  EventModes      \* values of the setting sscp_events

ASSUME HttpAssumption ==
  /\ ConnectionMax \in Nat
  /\ None \notin Nat /\ None \notin Cells
  /\ Totals \subseteq Nat /\ MoreChunks \subseteq Nat
  /\ MaxBacklog \in Nat /\ ReplyRoom \in Nat
  /\ Sizes \subseteq Nat
  /\ Overlap \in BOOLEAN /\ EventModes \subseteq BOOLEAN

Slots == 1..ConnectionMax
\* CONNECTION_FAIL and CONNECTION_TXFULL are the same bit.
Flags == {"INIT", "TERM", "FAIL", "TXDONE", "TXFREE"}
TXFULL == "FAIL"

VARIABLES
  sscp_events,  \* flashConfig.sscp_events: events are sent, or wait for a POLL
  conns,        \* sscp_connections
  reqs,         \* the cells
  capture,      \* the payload being captured
  mcu,          \* what the microcontroller knows of each handle
  wild,         \* freed memory has been used
  astray,       \* history: a payload went to another request than it was for
  early,        \* history: a slot was freed before its answer was settled
  confused      \* history: an event came for a handle in no state to have it

vars == <<sscp_events, conns, reqs, capture, mcu, wild, astray, early, confused>>

\* settled and gone are history: the bytes of the body whose sent callback has come
\* or that were dropped, and that the request conn pointed to has been freed.
NewSlot(c) == [used |-> TRUE, flags |-> {"INIT"}, conn |-> c, count |-> 0,
               txCount |-> 0, txIndex |-> 0, settled |-> 0, gone |-> FALSE]
UnusedSlot == [NewSlot(None) EXCEPT !.used = FALSE, !.flags = {}]

\* slot is cgiData as long as cgi is set.  Of queue, the body bytes of each buffer
\* given to the network, the head is in flight and the rest is sendBacklog; backlog
\* is sendBacklogSize.  more counts the POST buffers to come.
NewCell == [pool |-> TRUE, parsed |-> FALSE, slot |-> None, queue |-> <<>>, backlog |-> 0,
            discon |-> FALSE, closing |-> FALSE, more |-> 0]
FreeCell == [NewCell EXCEPT !.pool = FALSE]

\* stale is history: the slot was given to another request in the meantime.
NoCapture == [slot |-> None, size |-> 0, reply |-> FALSE, stale |-> FALSE]

Connections == [used : BOOLEAN, flags : SUBSET Flags, conn : Cells \cup {None}, count : Nat,
                txCount : Nat, txIndex : Nat, settled : Nat, gone : BOOLEAN]
Requests == [pool : BOOLEAN, parsed : BOOLEAN, slot : Slots \cup {None}, queue : Seq(Nat),
             backlog : Int, discon : BOOLEAN, closing : BOOLEAN, more : Nat]
Captures == [slot : Slots \cup {None}, size : Nat, reply : BOOLEAN, stale : BOOLEAN]

Init ==
  /\ sscp_events \in EventModes
  /\ conns = [s \in Slots |-> UnusedSlot]
  /\ reqs = [c \in Cells |-> FreeCell]
  /\ capture = NoCapture
  /\ mcu = [s \in Slots |-> "unknown"]
  /\ wild = FALSE
  /\ astray = FALSE /\ early = FALSE /\ confused = FALSE

-----------------------------------------------------------------------------
(* Helpers. *)

\* sscp_send: an event about handle s, after which the microcontroller knows k.
\* 'G' (or 'P') opens a handle, 'S' is about data sent, 'X' and 'E' end it.
Tell(kind, s, k) ==
  LET fits == IF kind = "G" THEN {"unknown"} ELSE IF kind = "S" THEN {"sent"}
              ELSE {"asked", "sent", "ready"}
  IN /\ mcu' = [mcu EXCEPT ![s] = k]
     /\ confused' = IF mcu[s] \in fits THEN confused ELSE TRUE
Silent == UNCHANGED <<mcu, confused>>

\* What it knows after 'S': it counts the bytes, so it knows of the last one.
Informed(s, freed) ==
  IF freed THEN "unknown" ELSE IF mcu[s] = "sent" THEN "ready" ELSE mcu[s]

\* httpdUnbufferedSend: espconn_sent takes one buffer at a time, the others wait
\* in the backlog as long as there is room, and are dropped without a word.
httpdUnbufferedSend(r, n) ==
  IF r.queue = <<>> THEN [r EXCEPT !.queue = <<n>>]
  ELSE IF r.backlog + n <= MaxBacklog
    THEN [r EXCEPT !.queue = Append(@, n), !.backlog = @ + n] ELSE r

\* How many of the n body bytes of a payload are dropped.  The body of a REPLY goes
\* by way of sendBuff, where httpdSend drops it when the headers leave no room.
Dropped(r, n, reply) ==
  IF (reply /\ n > ReplyRoom) \/ (r.queue # <<>> /\ r.backlog + n > MaxBacklog)
    THEN n ELSE 0

\* History: n more bytes of the body are settled, no more than there are.
Settled(k, n) == IF k.settled + n > k.txCount THEN k.txCount ELSE k.settled + n

\* The buffer in flight is confirmed, and the first of the backlog takes its place.
NextBuffer(r) ==
  [r EXCEPT !.queue = Tail(@),
            !.backlog = IF Tail(r.queue) = <<>> THEN @ ELSE @ - Head(Tail(r.queue))]

\* The pointer of a slot leads to freed memory.  What using it does is left open:
\* the model stops there.
Dangling(s) == ~reqs[conns[s].conn].pool
UseFreed ==
  /\ wild' = TRUE
  /\ Silent
  /\ UNCHANGED <<sscp_events, conns, reqs, capture, astray, early>>

\* Mutant of Detached: cgiData keeps its pointer to the slot.
DetachedNot(s) == reqs

\* close_handler, and the slot given back.  Of what remains in a free slot only
\* the pointer can still be read, by the callback of a payload.
Detached(s) == [reqs EXCEPT ![conns[s].conn].slot = None]

Closed(k, s) ==
  [k EXCEPT ![s] = IF capture.slot = s
                     THEN [UnusedSlot EXCEPT !.conn = k[s].conn, !.gone = k[s].gone]
                     ELSE UnusedSlot]

-----------------------------------------------------------------------------
(* The web server calls back. *)

\* httpdConnectCb
Connect(c) ==
  /\ ~reqs[c].pool
  /\ reqs' = [reqs EXCEPT ![c] = NewCell]
  /\ Silent
  /\ UNCHANGED <<sscp_events, conns, capture, wild, astray, early>>

\* cgiSSCPHandleRequest for a request it has no slot for: httpdProcessRequest
\* calls it with the headers, or with the first POST buffer.
FirstCall(c, more) ==
  LET free == {s \in Slots : ~conns[s].used}
  IN \/ /\ free = {}
        /\ reqs' = [reqs EXCEPT ![c] = [httpdUnbufferedSend(@, 0) EXCEPT
                       !.parsed = TRUE, !.discon = TRUE, !.more = more]]
        /\ Silent
        /\ UNCHANGED <<conns, capture>>
     \/ \E s \in free :
          /\ \A t \in free : s <= t
          /\ reqs' = [reqs EXCEPT ![c].parsed = TRUE, ![c].slot = s, ![c].more = more]
          /\ conns' = [conns EXCEPT ![s] =
                [NewSlot(c) EXCEPT !.flags = IF sscp_events THEN {} ELSE @]]
          /\ IF sscp_events THEN Tell("G", s, "asked") ELSE Silent
          /\ capture' = IF capture.slot = s THEN [capture EXCEPT !.stale = TRUE] ELSE capture

Request(c, more) ==
  /\ reqs[c].pool /\ ~reqs[c].parsed /\ ~reqs[c].closing
  /\ FirstCall(c, more)
  /\ UNCHANGED <<sscp_events, wild, astray, early>>


\* Mutant of LaterCall: a request is done with its last buffer in the network.
LaterCallEager(c, r, n) ==
  LET s == r.slot
      index == conns[s].txIndex + 2 * conns[s].count
      done == index >= conns[s].txCount
      flags == conns[s].flags \cup {"TXDONE"} \cup (IF done THEN {"TXFREE"} ELSE {})
      freed == sscp_events /\ "TXFREE" \in flags
      now == [conns EXCEPT ![s].txIndex = index,
                           ![s].settled = Settled(conns[s], n),
                           ![s].flags = IF sscp_events THEN flags \ {"TXDONE"} ELSE flags]
  IN /\ conns' = IF freed THEN Closed(now, s) ELSE now
     /\ early' = IF done /\ Settled(conns[s], n) < conns[s].txCount THEN TRUE ELSE early
     /\ IF sscp_events THEN Tell("S", s, Informed(s, freed)) ELSE Silent
     /\ reqs' = [reqs EXCEPT ![c] =
          IF done THEN [r EXCEPT !.slot = None, !.discon = TRUE] ELSE r]

\* Mutant of LaterCall: only the end of the answer is reported.
LaterCallSilent(c, r, n) ==
  LET s == r.slot
      index == conns[s].txIndex + conns[s].count
      done == index >= conns[s].txCount
      now == [conns EXCEPT ![s].txIndex = index, ![s].settled = Settled(conns[s], n)]
  IN /\ conns' = IF done THEN Closed(now, s) ELSE now
     /\ early' = IF done /\ Settled(conns[s], n) < conns[s].txCount THEN TRUE ELSE early
     /\ IF done THEN Tell("S", s, "unknown") ELSE Silent
     /\ reqs' = [reqs EXCEPT ![c] =
          IF done THEN [r EXCEPT !.slot = None, !.discon = TRUE] ELSE r]

\* cgiSSCPHandleRequest for a request it knows, whatever the reason of the call;
\* n bytes of the body have been confirmed and r is the request without them.
LaterCall(c, r, n) ==
  LET s == r.slot
      index == conns[s].txIndex + conns[s].count
      done == index >= conns[s].txCount
      flags == conns[s].flags \cup {"TXDONE"} \cup (IF done THEN {"TXFREE"} ELSE {})
      freed == sscp_events /\ "TXFREE" \in flags
      now == [conns EXCEPT ![s].txIndex = index,
                           ![s].settled = Settled(conns[s], n),
                           ![s].flags = IF sscp_events THEN flags \ {"TXDONE"} ELSE flags]
  IN /\ conns' = IF freed THEN Closed(now, s) ELSE now
     /\ early' = IF done /\ Settled(conns[s], n) < conns[s].txCount THEN TRUE ELSE early
     /\ IF sscp_events
          THEN Tell("S", s, Informed(s, freed))
          ELSE Silent
     /\ reqs' = [reqs EXCEPT ![c] =
          IF done THEN [r EXCEPT !.slot = None, !.discon = TRUE] ELSE r]

\* httpdRecvCb: a further buffer of the POST body is full.
PostChunk(c) ==
  LET r == [reqs[c] EXCEPT !.more = @ - 1]
  IN /\ reqs[c].pool /\ reqs[c].more > 0 /\ ~reqs[c].closing
     /\ \/ r.slot # None /\ LaterCall(c, r, 0) /\ UNCHANGED capture
        \/ r.slot = None /\ FirstCall(c, r.more) /\ UNCHANGED early
     /\ UNCHANGED <<sscp_events, wild, astray>>

\* Mutant of Sent: the request is called for each buffer, not for the last one.
SentEachBuffer(c) ==
  LET r == NextBuffer(reqs[c])
      n == Head(reqs[c].queue)
  IN /\ reqs[c].pool /\ reqs[c].queue # <<>> /\ ~reqs[c].closing
     /\ \/ /\ r.discon \/ r.slot = None
           /\ reqs' = [reqs EXCEPT ![c] =
                IF r.queue = <<>> /\ r.discon THEN [r EXCEPT !.closing = TRUE] ELSE r]
           /\ Silent
           /\ UNCHANGED <<conns, early>>
        \/ /\ ~r.discon /\ r.slot # None
           /\ LaterCall(c, r, n)
     /\ UNCHANGED <<sscp_events, capture, wild, astray>>

\* httpdSentCb
Sent(c) ==
  LET r == NextBuffer(reqs[c])
      n == Head(reqs[c].queue)
      confirmed == IF r.slot = None THEN conns
                   ELSE [conns EXCEPT ![r.slot].settled = Settled(conns[r.slot], n)]
  IN /\ reqs[c].pool /\ reqs[c].queue # <<>> /\ ~reqs[c].closing
     /\ \/ /\ r.queue # <<>> \/ r.discon \/ r.slot = None
           /\ reqs' = [reqs EXCEPT ![c] =                    \* the backlog first
                IF r.queue = <<>> /\ r.discon THEN [r EXCEPT !.closing = TRUE] ELSE r]
           /\ conns' = confirmed
           /\ Silent
           /\ UNCHANGED early
        \/ /\ r.queue = <<>> /\ ~r.discon /\ r.slot # None
           /\ LaterCall(c, r, n)
     /\ UNCHANGED <<sscp_events, capture, wild, astray>>

\* Mutant of Disconnect: the cleanup call does not free the handle.
DisconnectKeeps(c, flag, kind) ==
  LET s == reqs[c].slot
      left == [t \in Slots |-> IF conns[t].conn = c THEN [conns[t] EXCEPT !.gone = TRUE]
                           ELSE conns[t]]
  IN /\ reqs[c].pool
     /\ reqs' = [reqs EXCEPT ![c] = FreeCell]
     /\ conns' = IF s = None THEN left ELSE [left EXCEPT ![s].flags = @ \cup {flag}]
     /\ IF sscp_events /\ s # None THEN Tell(kind, s, "unknown") ELSE Silent
     /\ UNCHANGED <<sscp_events, capture, wild, astray, early>>

\* httpdDisconCb and httpdReconCb: the cleanup call, and the cell is freed.
Disconnect(c, flag, kind) ==
  LET s == reqs[c].slot
      left == [t \in Slots |-> IF conns[t].conn = c THEN [conns[t] EXCEPT !.gone = TRUE]
                           ELSE conns[t]]
  IN /\ reqs[c].pool
     /\ reqs' = [(IF sscp_events /\ s # None THEN Detached(s) ELSE reqs)
                    EXCEPT ![c] = FreeCell]
     /\ \/ /\ s = None
           /\ conns' = left
           /\ Silent
        \/ /\ s # None
           /\ conns' = IF sscp_events THEN Closed(left, s)
                      ELSE [left EXCEPT ![s].flags = @ \cup {flag}]
           /\ IF sscp_events THEN Tell(kind, s, "unknown") ELSE Silent
     /\ UNCHANGED <<sscp_events, capture, wild, astray, early>>

DisconCb(c) == Disconnect(c, "TERM", "X")
ReconCb(c) == Disconnect(c, "FAIL", "E")

-----------------------------------------------------------------------------
(* The microcontroller's commands.  It sends the next one when it has the reply. *)

Ready == capture = NoCapture

\* A command on a handle that is not in use any more: error 2, which tells the
\* microcontroller so.
Refused(s) ==
  /\ ~conns[s].used
  /\ mcu' = [mcu EXCEPT ![s] = "unknown"]
  /\ UNCHANGED <<sscp_events, conns, reqs, capture, wild, astray, early, confused>>

\* reply_cb and send_cb: n bytes are there for slot s, and now is the rest of it.
PayloadIn(s, n, reply, stale, now) ==
  \/ Dangling(s) /\ UseFreed
  \/ /\ ~Dangling(s)
     /\ reqs' = [reqs EXCEPT ![now.conn] =
          httpdUnbufferedSend(@, IF reply /\ n > ReplyRoom THEN 0 ELSE n)]
     /\ conns' = [conns EXCEPT ![s] =
          IF now.used THEN [now EXCEPT !.count = n, !.flags = @ \ {TXFULL},
                              !.settled = Settled(now, Dropped(reqs[now.conn], n, reply))]
          ELSE UnusedSlot]
     /\ capture' = NoCapture
     /\ astray' = IF stale \/ now.gone \/ ~now.used THEN TRUE ELSE astray
     /\ mcu' = IF stale \/ ~now.used THEN mcu ELSE [mcu EXCEPT ![s] = "sent"]
     /\ UNCHANGED <<sscp_events, wild, early, confused>>

\* sscp_capturePayload for slot s, which becomes now.
Capture(s, n, reply, now) ==
  /\ capture' = [slot |-> s, size |-> n, reply |-> reply, stale |-> FALSE]
  /\ conns' = [conns EXCEPT ![s] = [now EXCEPT !.flags = @ \cup {TXFULL}]]
  /\ Silent
  /\ UNCHANGED <<sscp_events, reqs, wild, astray, early>>

\* A payload that is too long for the body is refused, but the length of the body
\* has been noted by then.  A REPLY may announce a payload of no bytes.
http_do_reply(s, total, n) ==
  /\ Ready /\ mcu[s] = "asked"
  /\ \/ Refused(s)
     \/ conns[s].used /\ Dangling(s) /\ UseFreed
     \/ /\ conns[s].used /\ ~Dangling(s)
        /\ LET now == [conns[s] EXCEPT !.txCount = total, !.txIndex = 0]
           IN \/ total = 0 /\ n = 0 /\ PayloadIn(s, 0, TRUE, FALSE, now)
              \/ total > 0 /\ total >= n /\ Capture(s, n, TRUE, now)
              \/ /\ total < n
                 /\ conns' = [conns EXCEPT ![s] = now]
                 /\ Silent
                 /\ UNCHANGED <<sscp_events, reqs, capture, wild, astray, early>>

\* A SEND of no bytes is answered and does nothing.
cmds_do_send(s, n) ==
  /\ Ready /\ n # 0
  /\ mcu[s] \in (IF Overlap THEN {"ready", "sent"} ELSE {"ready"})
  /\ \/ Refused(s)
     \/ /\ conns[s].used /\ TXFULL \notin conns[s].flags
        /\ conns[s].txIndex + n <= conns[s].txCount
        /\ Capture(s, n, FALSE, conns[s])

\* The last byte of the payload.  A payload of no bytes has none: the capture goes
\* on until a break.
PayloadDone ==
  /\ ~Ready /\ capture.size # 0
  /\ PayloadIn(capture.slot, capture.size, capture.reply, capture.stale, conns[capture.slot])

cmds_do_close(s) ==
  /\ Ready /\ mcu[s] # "unknown"
  /\ \/ Refused(s)
     \/ conns[s].used /\ Dangling(s) /\ UseFreed
     \/ /\ conns[s].used /\ ~Dangling(s)
        /\ reqs' = Detached(s)
        /\ conns' = Closed(conns, s)
        /\ mcu' = [mcu EXCEPT ![s] = "unknown"]
        /\ UNCHANGED <<sscp_events, capture, wild, astray, early, confused>>

\* checkForEvents_handler looks at the flags in this order.
Pending(s) ==
  IF "TXDONE" \in conns[s].flags THEN "S"
  ELSE IF "TERM" \in conns[s].flags THEN "X"
  ELSE IF "FAIL" \in conns[s].flags THEN "E"
  ELSE IF "INIT" \in conns[s].flags THEN "G" ELSE "none"

\* The first slot of those in the mask that has an event has it delivered.
cmds_do_poll(s, mask) ==
  LET kind == Pending(s)
      freed == "TXFREE" \in conns[s].flags
  IN /\ Ready
     /\ s \in mask /\ conns[s].used /\ kind # "none"
     /\ \A t \in mask : t < s /\ conns[t].used => Pending(t) = "none"
     /\ \/ /\ kind = "S"
           /\ conns' = IF freed THEN Closed(conns, s)
                      ELSE [conns EXCEPT ![s].flags = @ \ {"TXDONE"}]
           /\ reqs' = reqs
           /\ Tell("S", s, Informed(s, freed))
           /\ wild' = wild
        \/ /\ kind \in {"X", "E", "G"} /\ Dangling(s)
           /\ UseFreed
        \/ /\ kind \in {"X", "E"} /\ ~Dangling(s)
           /\ reqs' = Detached(s)
           /\ conns' = Closed(conns, s)
           /\ Tell(kind, s, "unknown")
           /\ wild' = wild
        \/ /\ kind = "G" /\ ~Dangling(s)
           /\ conns' = [conns EXCEPT ![s].flags = @ \ {"INIT"}]
           /\ reqs' = reqs
           /\ Tell("G", s, "asked")
           /\ wild' = wild
     /\ UNCHANGED <<sscp_events, capture, astray, early>>

\* The microcontroller starts again and sends a break: sscp_reset.
sscp_reset ==
  \/ (\E s \in Slots : conns[s].used /\ Dangling(s)) /\ UseFreed
  \/ /\ \A s \in Slots : conns[s].used => ~Dangling(s)
     /\ reqs' = [c \in Cells |-> IF \E s \in Slots : conns[s].used /\ conns[s].conn = c
                                 THEN [reqs[c] EXCEPT !.slot = None] ELSE reqs[c]]
     /\ conns' = [s \in Slots |-> UnusedSlot]
     /\ capture' = NoCapture
     /\ mcu' = [s \in Slots |-> "unknown"]
     /\ UNCHANGED <<sscp_events, wild, astray, early, confused>>

-----------------------------------------------------------------------------

Server ==
  \E c \in Cells :
    \/ Connect(c)
    \/ \E more \in MoreChunks : Request(c, more)
    \/ PostChunk(c)
    \/ Sent(c)
    \/ DisconCb(c)
    \/ ReconCb(c)

Commands ==
  \/ \E s \in Slots :
       \/ \E total \in Totals : \E n \in Sizes \cup {total} : http_do_reply(s, total, n)
       \/ \E n \in Sizes : cmds_do_send(s, n)
       \/ cmds_do_close(s)
       \/ \E mask \in SUBSET Slots : cmds_do_poll(s, mask)
  \/ PayloadDone
  \/ sscp_reset

Next ==
  \/ ~wild /\ (Server \/ Commands)
  \/ wild /\ UNCHANGED vars

\* The network confirms what it was given or closes the socket, a socket the
\* server has closed is reported as such, and the microcontroller completes the
\* payloads it has begun.
Fairness ==
  /\ \A c \in Cells : WF_vars(~wild /\ Sent(c)) /\ WF_vars(~wild /\ reqs[c].closing /\ DisconCb(c))
  /\ WF_vars(~wild /\ PayloadDone)
Spec == Init /\ [][Next]_vars
FairSpec == Spec /\ Fairness

-----------------------------------------------------------------------------
(* Properties. *)

TypeOK ==
  /\ sscp_events \in BOOLEAN /\ wild \in BOOLEAN /\ astray \in BOOLEAN
  /\ conns \in [Slots -> Connections]
  /\ reqs \in [Cells -> Requests]
  /\ capture \in Captures
  /\ mcu \in [Slots -> {"unknown", "asked", "sent", "ready"}]
  /\ early \in BOOLEAN /\ confused \in BOOLEAN

\* A request the microcontroller serves and the slot with its handle point to
\* each other, whatever was closed, freed and used again in between.  So no two
\* requests share a handle.
Linked ==
  \A c \in Cells : LET s == reqs[c].slot IN
    reqs[c].pool /\ s # None => conns[s].used /\ conns[s].conn = c

\* With events sent at once no handle is leaked: each slot in use belongs to a
\* request that is still there and will free it.
NoHandleLeaks ==
  sscp_events => \A s \in Slots : conns[s].used =>
    reqs[conns[s].conn].pool /\ reqs[conns[s].conn].slot = s

\* The strengthening the proofs need: a request that has a slot is in the pool, has
\* been parsed, and its answer is not complete.
Attached ==
  \A c \in Cells : LET s == reqs[c].slot IN
    s # None => /\ reqs[c].pool /\ reqs[c].parsed
                /\ conns[s].used /\ conns[s].conn = c
                /\ "TXFREE" \notin conns[s].flags
UsedSlots ==
  /\ \A s \in Slots : conns[s].used => conns[s].conn \in Cells
  /\ capture # NoCapture => capture.slot \in Slots /\ conns[capture.slot].conn \in Cells
IInv == TypeOK /\ Attached /\ UsedSlots /\ NoHandleLeaks

\* A handle is not given up while a buffer of its answer is under way: the sum kept
\* in txIndex never runs ahead of the bytes that were confirmed by the network or
\* dropped by the server, although count is overwritten by a SEND that overtakes the
\* sent callback of the one before.
NotFreedEarly == ~astray => ~early

\* With events sent at once they come in order for each handle: 'G' or 'P' opens
\* it, 'S' answers data the microcontroller sent, and nothing comes after the end.
EventsInOrder == sscp_events /\ ~astray => ~confused

\* Each REPLY and SEND is followed by an 'S', or by the end of its handle, unless
\* the microcontroller sends more in the meantime.
SendIsAnswered ==
  \A s \in Slots :
    mcu[s] = "sent" /\ capture.slot # s ~> mcu[s] # "sent" \/ capture.slot = s \/ wild
=============================================================================
