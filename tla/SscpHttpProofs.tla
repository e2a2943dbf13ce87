---------------------------- MODULE SscpHttpProofs ----------------------------
(***************************************************************************)
(* Proofs about SscpHttp for any number of slots and cells, any lengths and *)
(* either setting of sscp_events, in three layers.  IInv: requests and      *)
(* handles stay linked; most steps leave every link alone or cut some       *)
(* (LinksKept), only FirstCall makes one.  OrderInv, on top of it: what the *)
(* microcontroller knows of a handle agrees with what is under way, so the  *)
(* events come in order.  AmountInv, on top of both: the sum in txIndex and *)
(* the buffers under way never exceed what was confirmed, so no handle is   *)
(* given up early.                                                          *)
(***************************************************************************)
EXTENDS SscpHttp, TLAPS

\* httpdUnbufferedSend changes the queue of a request and nothing else.
LEMMA SendKeeps ==
  ASSUME NEW r \in Requests, NEW n \in Nat
  PROVE  LET q == httpdUnbufferedSend(r, n)
         IN /\ q \in Requests
            /\ q.pool = r.pool /\ q.parsed = r.parsed /\ q.slot = r.slot /\ q.more = r.more
            /\ q.discon = r.discon /\ q.closing = r.closing
            /\ r.queue = <<>> => q.queue = <<n>> /\ q.backlog = r.backlog
            /\ r.queue # <<>> /\ r.backlog + n <= MaxBacklog =>
                 q.queue = Append(r.queue, n) /\ q.backlog = r.backlog + n
            /\ r.queue # <<>> /\ ~(r.backlog + n <= MaxBacklog) => q = r
<1> DEFINE a == [r EXCEPT !.queue = <<n>>]
           b == [r EXCEPT !.queue = Append(@, n), !.backlog = @ + n]
<1>1. /\ a \in Requests
      /\ a.pool = r.pool /\ a.parsed = r.parsed /\ a.slot = r.slot /\ a.more = r.more
      /\ a.discon = r.discon /\ a.closing = r.closing
      /\ a.queue = <<n>> /\ a.backlog = r.backlog
  <2>1. <<n>> \in Seq(Nat)
    OBVIOUS
  <2>2. QED
    BY <2>1 DEF Requests
<1>2. /\ b \in Requests
      /\ b.pool = r.pool /\ b.parsed = r.parsed /\ b.slot = r.slot /\ b.more = r.more
      /\ b.discon = r.discon /\ b.closing = r.closing
      /\ b.queue = Append(r.queue, n) /\ b.backlog = r.backlog + n
  <2>1. Append(r.queue, n) \in Seq(Nat) /\ r.backlog + n \in Int
    BY DEF Requests
  <2>2. QED
    BY <2>1 DEF Requests
<1>3. httpdUnbufferedSend(r, n) = IF r.queue = <<>> THEN a
                                  ELSE IF r.backlog + n <= MaxBacklog THEN b ELSE r
  BY DEF httpdUnbufferedSend
<1> HIDE DEF a, b
<1>4. QED
  BY <1>1, <1>2, <1>3

\* The count of settled bytes stays a count.
LEMMA SettledType ==
  ASSUME NEW k \in Connections, NEW r \in Requests, NEW n \in Nat, NEW reply \in BOOLEAN
  PROVE  Settled(k, Dropped(r, n, reply)) \in Nat
<1>1. Dropped(r, n, reply) \in Nat
  BY DEF Dropped
<1>2. QED
  BY <1>1 DEF Settled, Connections

\* The next buffer goes out, and the rest of the request stays as it is.
LEMMA NextBufferKeeps ==
  ASSUME NEW r \in Requests, r.queue # <<>>
  PROVE  LET q == NextBuffer(r)
         IN /\ q \in Requests /\ q.queue = Tail(r.queue)
            /\ q.pool = r.pool /\ q.parsed = r.parsed /\ q.slot = r.slot /\ q.more = r.more
            /\ q.discon = r.discon /\ q.closing = r.closing
            /\ q.backlog = IF Tail(r.queue) = <<>> THEN r.backlog
                          ELSE r.backlog - Head(Tail(r.queue))
<1> DEFINE rest == IF Tail(r.queue) = <<>> THEN r.backlog ELSE r.backlog - Head(Tail(r.queue))
           queue == Tail(r.queue)
<1>1. queue \in Seq(Nat) /\ rest \in Int
  BY DEF Requests
<1>2. NextBuffer(r) = [r EXCEPT !.queue = queue, !.backlog = rest]
  BY DEF NextBuffer, Requests
<1> HIDE DEF queue, rest
<1>3. LET q == [r EXCEPT !.queue = queue, !.backlog = rest]
      IN /\ q \in Requests /\ q.queue = queue /\ q.backlog = rest
         /\ q.pool = r.pool /\ q.parsed = r.parsed /\ q.slot = r.slot /\ q.more = r.more
         /\ q.discon = r.discon /\ q.closing = r.closing
  BY <1>1 DEF Requests
<1>4. QED
  BY <1>2, <1>3 DEF queue, rest

\* A closed handle is not in use; the other slots are as they were, and a payload
\* under way still finds the request it was for.
LEMMA ClosedSlot ==
  ASSUME NEW k \in [Slots -> Connections], NEW s \in Slots, capture \in Captures
  PROVE  /\ Closed(k, s) \in [Slots -> Connections]
         /\ ~Closed(k, s)[s].used
         /\ \A t \in Slots : t # s => Closed(k, s)[t] = k[t]
         /\ Closed(k, s)[s].conn = IF capture.slot = s THEN k[s].conn ELSE None
<1>1. UnusedSlot \in Connections /\ UnusedSlot.used = FALSE /\ UnusedSlot.conn = None
  BY DEF UnusedSlot, NewSlot, Connections, Flags
<1>2. [UnusedSlot EXCEPT !.conn = k[s].conn, !.gone = k[s].gone] \in Connections
  BY <1>1 DEF Connections
<1> DEFINE v == IF capture.slot = s THEN [UnusedSlot EXCEPT !.conn = k[s].conn, !.gone = k[s].gone]
                ELSE UnusedSlot
<1>3. /\ v \in Connections /\ v.used = FALSE
      /\ v.conn = IF capture.slot = s THEN k[s].conn ELSE None
  BY <1>1, <1>2 DEF Connections
<1>4. Closed(k, s) = [k EXCEPT ![s] = v]
  BY DEF Closed
<1> HIDE DEF v
<1>5. QED
  BY <1>3, <1>4

\* Only the request the slot points to loses its pointer.
LEMMA DetachedCells ==
  ASSUME TypeOK, NEW s \in Slots
  PROVE  /\ Detached(s) \in [Cells -> Requests]
         /\ \A d \in Cells : /\ d # conns[s].conn => Detached(s)[d] = reqs[d]
                             /\ d = conns[s].conn => Detached(s)[d].slot = None
                             /\ Detached(s)[d].pool = reqs[d].pool
                             /\ Detached(s)[d].parsed = reqs[d].parsed
<1>1. reqs \in [Cells -> Requests]
  BY DEF TypeOK
<1>2. ASSUME NEW d \in Cells
      PROVE  LET v == [reqs[d] EXCEPT !.slot = None]
             IN  v \in Requests /\ v.slot = None /\ v.pool = reqs[d].pool /\ v.parsed = reqs[d].parsed
  BY <1>1 DEF Requests
<1>3. QED
  BY <1>1, <1>2 DEF Detached

\* An event leaves mcu and confused with their types.
LEMMA TellType ==
  ASSUME TypeOK, NEW kind, NEW s \in Slots,
         NEW k \in {"unknown", "asked", "sent", "ready"}, Tell(kind, s, k)
  PROVE  /\ mcu' \in [Slots -> {"unknown", "asked", "sent", "ready"}]
         /\ confused' \in BOOLEAN
<1>1. mcu' = [mcu EXCEPT ![s] = k] /\ mcu \in [Slots -> {"unknown", "asked", "sent", "ready"}]
  BY DEF Tell, TypeOK
<1>2. confused' \in {confused, TRUE} /\ confused \in BOOLEAN
  BY DEF Tell, TypeOK
<1>3. QED
  BY <1>1, <1>2

\* FirstCall
LEMMA FirstCallPreserves ==
  ASSUME IInv, NEW c \in Cells, NEW more \in Nat, FirstCall(c, more),
         reqs[c].pool, reqs[c].slot = None,
         UNCHANGED <<sscp_events, wild, astray, early>>
  PROVE  IInv'
<1> USE HttpAssumption
<1>0. TypeOK /\ Attached /\ UsedSlots /\ NoHandleLeaks /\ reqs[c] \in Requests
  BY DEF IInv, TypeOK
<1>1. CASE {s \in Slots : ~conns[s].used} = {}
  <2> DEFINE q == httpdUnbufferedSend(reqs[c], 0)
             r == [q EXCEPT !.parsed = TRUE, !.discon = TRUE, !.more = more]
  <2>1. /\ reqs' = [reqs EXCEPT ![c] = r]
        /\ UNCHANGED <<conns, capture, mcu, confused>>
    BY <1>1 DEF FirstCall, Silent
  <2>2. r \in Requests /\ r.pool /\ r.slot = None
    <3>1. q \in Requests /\ q.pool /\ q.slot = None
      BY <1>0, SendKeeps
    <3> HIDE DEF q
    <3>2. QED
      BY <3>1 DEF Requests
  <2> HIDE DEF r, q
  <2>3. TypeOK'
    BY <1>0, <2>1, <2>2 DEF TypeOK
  <2>4. Attached'
    BY <1>0, <2>1, <2>2 DEF Attached, TypeOK
  <2>5. UsedSlots'
    BY <1>0, <2>1 DEF UsedSlots, NoCapture
  <2>6. NoHandleLeaks'
    BY <1>0, <2>1, <2>2 DEF NoHandleLeaks, UsedSlots, TypeOK, Slots
  <2>7. QED
    BY <2>3, <2>4, <2>5, <2>6 DEF IInv
<1>2. ASSUME NEW s \in Slots, ~conns[s].used,
             reqs' = [reqs EXCEPT ![c].parsed = TRUE, ![c].slot = s, ![c].more = more],
             conns' = [conns EXCEPT ![s] =
                [NewSlot(c) EXCEPT !.flags = IF sscp_events THEN {} ELSE @]],
             IF sscp_events THEN Tell("G", s, "asked") ELSE Silent,
             capture' = IF capture.slot = s THEN [capture EXCEPT !.stale = TRUE] ELSE capture
      PROVE  IInv'
  <2> DEFINE new == [NewSlot(c) EXCEPT !.flags = IF sscp_events THEN {} ELSE @]
  <2> HIDE DEF new
  <2>1. new \in Connections /\ new.used /\ new.conn = c /\ "TXFREE" \notin new.flags
    BY DEF new, NewSlot, Connections, Flags
  <2>2. conns' = [conns EXCEPT ![s] = new]
    BY <1>2 DEF new
  <2>3. /\ reqs' \in [Cells -> Requests]
        /\ reqs'[c].pool /\ reqs'[c].parsed /\ reqs'[c].slot = s
        /\ \A d \in Cells \ {c} : reqs'[d] = reqs[d]
    BY <1>0, <1>2 DEF TypeOK, Requests
  <2>4. /\ capture' \in Captures /\ capture'.slot = capture.slot
        /\ capture' # NoCapture => capture # NoCapture
    <3>1. capture \in Captures
      BY <1>0 DEF TypeOK
    <3>2. capture.slot = s => capture # NoCapture
      BY DEF NoCapture, Slots
    <3>3. capture' = [capture EXCEPT !.stale = TRUE] \/ capture' = capture
      BY <1>2
    <3>4. capture' \in Captures /\ capture'.slot = capture.slot
      BY <3>1, <3>3 DEF Captures
    <3>5. QED
      BY <1>2, <3>2, <3>4
  <2>5. mcu' \in [Slots -> {"unknown", "asked", "sent", "ready"}] /\ confused' \in BOOLEAN
    BY <1>0, <1>2, TellType DEF Silent, TypeOK
  <2>6. TypeOK'
    BY <1>0, <2>1, <2>2, <2>3, <2>4, <2>5 DEF TypeOK
  <2>7. Attached'
    <3>1. /\ conns'[s] = new
          /\ \A d \in Cells : reqs[d].slot # None =>
               /\ reqs[d].slot \in Slots /\ reqs[d].slot # s
               /\ conns'[reqs[d].slot] = conns[reqs[d].slot]
      BY <1>0, <1>2, <2>2 DEF Attached, TypeOK, Requests
    <3>2. QED
      BY <1>0, <2>1, <2>3, <3>1 DEF Attached
  <2>8. UsedSlots'
    <3>1. conns'[s] = new /\ \A t \in Slots \ {s} : conns'[t] = conns[t]
      BY <1>0, <2>2 DEF TypeOK
    <3>2. capture' # NoCapture => /\ capture'.slot \in Slots
                                  /\ conns[capture'.slot].conn \in Cells
      BY <1>0, <2>4 DEF UsedSlots
    <3>3. \A t \in Slots : conns[t].used => conns[t].conn \in Cells
      BY <1>0 DEF UsedSlots
    <3>4. QED
      BY <2>1, <3>1, <3>2, <3>3 DEF UsedSlots
  <2>9. NoHandleLeaks'
    <3>1. ASSUME NEW t \in Slots, conns'[t].used, sscp_events
          PROVE  reqs'[conns'[t].conn].pool /\ reqs'[conns'[t].conn].slot = t
      <4>1. CASE t = s
        BY <1>0, <2>1, <2>2, <2>3, <4>1 DEF TypeOK
      <4>2. CASE t # s
        <5>1. conns'[t] = conns[t] /\ conns[t].conn \in Cells
          BY <1>0, <2>2, <3>1, <4>2 DEF TypeOK, UsedSlots
        <5>2. conns[t].conn # c
          BY <1>0, <3>1, <5>1 DEF NoHandleLeaks, Slots
        <5>3. QED
          BY <1>0, <2>3, <3>1, <5>1, <5>2 DEF NoHandleLeaks
      <4>3. QED
        BY <4>1, <4>2
    <3>2. QED
      BY <3>1 DEF NoHandleLeaks
  <2>10. QED
    BY <2>6, <2>7, <2>8, <2>9 DEF IInv
<1>3. QED
  BY <1>1, <1>2 DEF FirstCall

\* LaterCall, for a request that has lost buffers but not its slot.
LEMMA LaterCallPreserves ==
  ASSUME IInv, NEW c \in Cells, NEW r \in Requests, NEW n \in Nat, LaterCall(c, r, n),
         reqs[c].slot # None,
         r.slot = reqs[c].slot, r.pool = reqs[c].pool, r.parsed = reqs[c].parsed,
         UNCHANGED <<sscp_events, capture, wild, astray>>
  PROVE  IInv'
<1> USE HttpAssumption
<1> DEFINE s == r.slot
           index == conns[s].txIndex + conns[s].count
           done == index >= conns[s].txCount
           flags == conns[s].flags \cup {"TXDONE"} \cup (IF done THEN {"TXFREE"} ELSE {})
           freed == sscp_events /\ "TXFREE" \in flags
           new == [conns[s] EXCEPT !.txIndex = index, !.settled = Settled(conns[s], n),
                     !.flags = IF sscp_events THEN flags \ {"TXDONE"} ELSE flags]
           now == [conns EXCEPT ![s] = new]
           cell == IF done THEN [r EXCEPT !.slot = None, !.discon = TRUE] ELSE r
<1>0. /\ TypeOK /\ Attached /\ UsedSlots /\ NoHandleLeaks
      /\ s \in Slots /\ conns[s] \in Connections
      /\ conns[s].used /\ conns[s].conn = c /\ "TXFREE" \notin conns[s].flags
      /\ r.pool /\ r.parsed
  BY DEF IInv, TypeOK, Attached, Requests
<1>1. Settled(conns[s], n) \in Nat /\ index \in Nat
  BY <1>0 DEF Settled, Connections
<1>2. flags \in SUBSET Flags /\ (done <=> "TXFREE" \in flags)
  BY <1>0 DEF Flags, Connections
<1>3. /\ new \in Connections /\ new.used /\ new.conn = c
      /\ done <=> "TXFREE" \in new.flags
  <2> HIDE DEF flags, index
  <2>1. QED
    BY <1>0, <1>1, <1>2 DEF Connections
<1>4. now \in [Slots -> Connections]
  BY <1>0, <1>3 DEF TypeOK
<1>5. /\ conns' = IF freed THEN Closed(now, s) ELSE now
      /\ reqs' = [reqs EXCEPT ![c] = cell]
      /\ IF sscp_events THEN Tell("S", s, Informed(s, freed)) ELSE Silent
      /\ early' \in {early, TRUE}
  <2> DEFINE raw == [conns EXCEPT ![s].txIndex = index, ![s].settled = Settled(conns[s], n),
                       ![s].flags = IF sscp_events THEN flags \ {"TXDONE"} ELSE flags]
  <2>1. raw = now
    <3> HIDE DEF flags, index
    <3>1. QED
      BY <1>0 DEF TypeOK
  <2>2. /\ conns' = IF freed THEN Closed(raw, s) ELSE raw
        /\ reqs' = [reqs EXCEPT ![c] = cell]
        /\ IF sscp_events THEN Tell("S", s, Informed(s, freed)) ELSE Silent
        /\ early' = IF done /\ Settled(conns[s], n) < conns[s].txCount THEN TRUE ELSE early
    BY Zenon DEF LaterCall
  <2> HIDE DEF freed, flags, index, done, new, now, raw, cell
  <2>3. early' \in {early, TRUE}
    BY <2>2
  <2>4. QED
    BY Zenon, <2>1, <2>2, <2>3
<1> HIDE DEF new, flags
<1>6. cell \in Requests /\ cell.pool /\ cell.parsed
      /\ cell.slot = IF done THEN None ELSE s
  BY <1>0 DEF Requests
<1> HIDE DEF cell, index
<1>7. /\ conns' \in [Slots -> Connections]
      /\ conns'[s].used <=> ~freed
      /\ ~freed => conns'[s] = new
      /\ \A t \in Slots : t # s => conns'[t] = conns[t]
      /\ conns'[s].conn = c \/ capture.slot # s
  <2>1. now[s] = new /\ \A t \in Slots : t # s => now[t] = conns[t]
    BY <1>0 DEF TypeOK
  <2>2. capture \in Captures
    BY <1>0 DEF TypeOK
  <2> HIDE DEF now, freed
  <2>3. CASE freed
    <3>1. /\ Closed(now, s) \in [Slots -> Connections]
          /\ ~Closed(now, s)[s].used
          /\ \A t \in Slots : t # s => Closed(now, s)[t] = now[t]
          /\ Closed(now, s)[s].conn = IF capture.slot = s THEN now[s].conn ELSE None
      BY <1>0, <1>4, <2>2, ClosedSlot
    <3>2. QED
      BY <1>3, <1>5, <2>1, <2>3, <3>1
  <2>4. CASE ~freed
    BY <1>3, <1>4, <1>5, <2>1, <2>4
  <2>5. QED
    BY <2>3, <2>4
<1>8. freed <=> (sscp_events /\ done)
  BY <1>2
<1> HIDE DEF now, freed, done, s
<1>9. /\ reqs' \in [Cells -> Requests] /\ reqs'[c] = cell
      /\ \A d \in Cells \ {c} : reqs'[d] = reqs[d]
  BY <1>0, <1>5, <1>6 DEF TypeOK
<1>10. TypeOK'
  <2>1. mcu' \in [Slots -> {"unknown", "asked", "sent", "ready"}] /\ confused' \in BOOLEAN
    <3>1. Informed(s, freed) \in {"unknown", "asked", "sent", "ready"}
      BY <1>0 DEF Informed, TypeOK
    <3>2. QED
      BY <1>0, <1>5, <3>1, TellType DEF Silent, TypeOK
  <2>2. early' \in BOOLEAN
    BY <1>0, <1>5 DEF TypeOK
  <2>3. QED
    BY <1>0, <1>7, <1>9, <2>1, <2>2 DEF TypeOK
<1>11. Attached'
  <2>1. \A d \in Cells \ {c} : reqs[d].slot # None => reqs[d].slot \in Slots \ {s}
    BY <1>0 DEF Attached, TypeOK, Requests
  <2>2. QED
    BY <1>0, <1>3, <1>6, <1>7, <1>8, <1>9, <2>1 DEF Attached
<1>12. UsedSlots'
  BY <1>0, <1>3, <1>7 DEF UsedSlots, NoCapture, TypeOK
<1>13. NoHandleLeaks'
  <2>1. reqs[c].slot = s
    BY DEF s
  <2>2. ASSUME NEW t \in Slots, conns'[t].used, sscp_events
        PROVE  reqs'[conns'[t].conn].pool /\ reqs'[conns'[t].conn].slot = t
    <3>1. CASE t = s
      BY <1>0, <1>3, <1>6, <1>7, <1>8, <1>9, <2>2, <3>1
    <3>2. CASE t # s
      <4>1. conns'[t] = conns[t] /\ conns[t].conn \in Cells
        BY <1>0, <1>7, <2>2, <3>2 DEF UsedSlots
      <4>2. reqs[conns[t].conn].pool /\ reqs[conns[t].conn].slot = t
        BY <1>0, <2>2, <4>1 DEF NoHandleLeaks
      <4>3. QED
        BY <1>9, <2>1, <3>2, <4>1, <4>2
    <3>3. QED
      BY <3>1, <3>2
  <2>3. QED
    BY <2>2 DEF NoHandleLeaks
<1>14. QED
  BY <1>10, <1>11, <1>12, <1>13 DEF IInv

\* A step that frees the slots in F, and beyond that only takes requests away
\* from their slots, keeps the links.
LEMMA LinksKept ==
  ASSUME IInv, TypeOK', sscp_events' = sscp_events, NEW F \in SUBSET Slots,
         \A d \in Cells :
           \/ reqs'[d].slot = None
           \/ /\ reqs[d].slot \notin F
              /\ reqs'[d].slot = reqs[d].slot
              /\ reqs'[d].pool = reqs[d].pool /\ reqs'[d].parsed = reqs[d].parsed,
         sscp_events => \A d \in Cells : reqs[d].slot # None /\ reqs[d].slot \notin F =>
           reqs'[d].slot = reqs[d].slot /\ reqs'[d].pool = reqs[d].pool,
         \A s \in F : ~conns'[s].used,
         \A s \in Slots \ F :
           /\ conns'[s].used = conns[s].used
           /\ conns[s].used => /\ conns'[s].conn = conns[s].conn
                               /\ "TXFREE" \in conns'[s].flags => "TXFREE" \in conns[s].flags,
         capture' # NoCapture =>
           capture'.slot \in Slots /\ conns'[capture'.slot].conn \in Cells
  PROVE  IInv'
<1>0. /\ TypeOK /\ Attached /\ UsedSlots /\ NoHandleLeaks
      /\ \A d \in Cells : reqs[d].slot \in Slots \cup {None}
      /\ \A d \in Cells : reqs[d].pool \in BOOLEAN /\ reqs'[d].pool \in BOOLEAN
      /\ \A s \in Slots : conns[s].used \in BOOLEAN /\ conns'[s].used \in BOOLEAN
  BY DEF IInv, TypeOK, Requests, Connections
<1>1. Attached'
  BY <1>0 DEF Attached
<1>2. UsedSlots'
  BY <1>0 DEF UsedSlots, NoCapture
<1>3. NoHandleLeaks'
  <2>1. ASSUME NEW t \in Slots, conns'[t].used, sscp_events
        PROVE  reqs'[conns'[t].conn].pool /\ reqs'[conns'[t].conn].slot = t
    <3>1. /\ t \notin F /\ conns[t].used
          /\ conns'[t].conn = conns[t].conn /\ conns[t].conn \in Cells
      BY <1>0, <2>1 DEF UsedSlots
    <3>2. reqs[conns[t].conn].pool /\ reqs[conns[t].conn].slot = t
      BY <1>0, <2>1, <3>1 DEF NoHandleLeaks
    <3>3. t # None
      BY HttpAssumption DEF Slots
    <3>4. QED
      BY <2>1, <3>1, <3>2, <3>3
  <2>2. QED
    BY <2>1 DEF NoHandleLeaks
<1>4. QED
  BY <1>1, <1>2, <1>3 DEF IInv

\* The case of a step that frees no slot and lets every request keep its own.
LEMMA LinksSame ==
  ASSUME IInv, TypeOK', sscp_events' = sscp_events,
         \A d \in Cells : /\ reqs'[d].slot = reqs[d].slot
                          /\ reqs'[d].pool = reqs[d].pool
                          /\ reqs'[d].parsed = reqs[d].parsed,
         \A s \in Slots :
           /\ conns'[s].used = conns[s].used
           /\ conns[s].used => /\ conns'[s].conn = conns[s].conn
                               /\ "TXFREE" \in conns'[s].flags => "TXFREE" \in conns[s].flags,
         capture' # NoCapture =>
           capture'.slot \in Slots /\ conns'[capture'.slot].conn \in Cells
  PROVE  IInv'
<1> DEFINE F == {}
<1>1. F \in SUBSET Slots /\ \A s : s \notin F
  OBVIOUS
<1> HIDE DEF F
<1>2. QED
  BY <1>1, LinksKept

\* Nothing but wild changes when freed memory is used.
LEMMA UseFreedPreserves ==
  ASSUME IInv, UseFreed
  PROVE  IInv'
<1>1. TypeOK'
  BY DEF IInv, UseFreed, Silent, TypeOK
<1>2. QED
  BY <1>1 DEF IInv, UseFreed, Attached, UsedSlots, NoHandleLeaks, NoCapture

\* A command on a handle that is not in use changes only what is known of it.
LEMMA RefusedPreserves ==
  ASSUME IInv, NEW s \in Slots, Refused(s)
  PROVE  IInv'
<1>1. TypeOK'
  BY DEF IInv, Refused, TypeOK
<1>2. QED
  BY <1>1 DEF IInv, Refused, Attached, UsedSlots, NoHandleLeaks, NoCapture

\* reply_cb and send_cb
LEMMA PayloadInPreserves ==
  ASSUME IInv, NEW s \in Slots, NEW n \in Nat, NEW reply \in BOOLEAN,
         NEW stale \in BOOLEAN, NEW now \in Connections,
         now.used = conns[s].used, now.conn = conns[s].conn, now.flags = conns[s].flags,
         now.conn \in Cells,
         PayloadIn(s, n, reply, stale, now)
  PROVE  IInv'
<1>0. TypeOK /\ reqs[now.conn] \in Requests
  BY DEF IInv, TypeOK
<1>1. CASE Dangling(s) /\ UseFreed
  BY <1>1, UseFreedPreserves
<1>2. CASE ~Dangling(s)
  <2> DEFINE cell == httpdUnbufferedSend(reqs[now.conn], IF reply /\ n > ReplyRoom THEN 0 ELSE n)
             settled == Settled(now, Dropped(reqs[now.conn], n, reply))
             slot == IF now.used THEN [now EXCEPT !.count = n, !.flags = @ \ {TXFULL},
                                                  !.settled = settled]
                     ELSE UnusedSlot
  <2>1. /\ reqs' = [reqs EXCEPT ![now.conn] = cell]
        /\ conns' = [conns EXCEPT ![s] = slot]
        /\ capture' = NoCapture
        /\ astray' \in {astray, TRUE}
        /\ mcu' \in {mcu, [mcu EXCEPT ![s] = "sent"]}
        /\ UNCHANGED <<sscp_events, wild, early, confused>>
    BY <1>2 DEF PayloadIn
  <2>2. /\ cell \in Requests /\ cell.pool = reqs[now.conn].pool
        /\ cell.parsed = reqs[now.conn].parsed /\ cell.slot = reqs[now.conn].slot
    <3>1. PICK m \in Nat : m = IF reply /\ n > ReplyRoom THEN 0 ELSE n
      OBVIOUS
    <3>2. PICK r \in Requests : r = reqs[now.conn]
      BY <1>0
    <3>3. PICK q : q = httpdUnbufferedSend(r, m)
      OBVIOUS
    <3>4. q \in Requests /\ q.pool = r.pool /\ q.parsed = r.parsed /\ q.slot = r.slot
      BY <3>3, SendKeeps
    <3>5. cell = q
      BY <3>1, <3>2, <3>3
    <3>6. QED
      BY <3>2, <3>4, <3>5
  <2>3. /\ slot \in Connections /\ slot.used = conns[s].used
        /\ slot.used => slot.conn = conns[s].conn /\ slot.flags \subseteq conns[s].flags
    <3> settled \in Nat
      BY <1>0, SettledType
    <3> HIDE DEF settled
    <3>1. CASE now.used
      BY <3>1 DEF Connections
    <3>2. CASE ~now.used
      BY <3>2 DEF Connections, UnusedSlot, NewSlot
    <3>3. QED
      BY <3>1, <3>2
  <2> HIDE DEF cell, slot
  <2>4. TypeOK'
    <3>1. NoCapture \in Captures
      BY DEF Captures, NoCapture
    <3>2. mcu' \in [Slots -> {"unknown", "asked", "sent", "ready"}] /\ astray' \in BOOLEAN
      BY <1>0, <2>1 DEF TypeOK
    <3>3. QED
      BY <1>0, <2>1, <2>2, <2>3, <3>1, <3>2 DEF TypeOK
  <2>5. QED
    <3>1. \A d \in Cells : /\ reqs'[d].slot = reqs[d].slot
                           /\ reqs'[d].pool = reqs[d].pool
                           /\ reqs'[d].parsed = reqs[d].parsed
      BY <1>0, <2>1, <2>2 DEF TypeOK
    <3>2. \A t \in Slots :
            /\ conns'[t].used = conns[t].used
            /\ conns[t].used => /\ conns'[t].conn = conns[t].conn
                                /\ conns'[t].flags \subseteq conns[t].flags
      BY <1>0, <2>1, <2>3 DEF TypeOK
    <3>3. QED
      BY <2>1, <2>4, <3>1, <3>2, LinksSame
<1>3. QED
  BY <1>1, <1>2 DEF PayloadIn

-----------------------------------------------------------------------------
(* The web server calls back. *)

\* httpdConnectCb: a cell taken from the heap had no slot.
LEMMA ConnectPreserves ==
  ASSUME IInv, NEW c \in Cells, Connect(c)
  PROVE  IInv'
<1>0. /\ TypeOK /\ Attached /\ UsedSlots
      /\ NewCell \in Requests /\ NewCell.slot = None
  BY DEF IInv, NewCell, Requests
<1>1. /\ ~reqs[c].pool /\ reqs' = [reqs EXCEPT ![c] = NewCell]
      /\ UNCHANGED <<sscp_events, conns, capture, mcu, wild, astray, early, confused>>
  BY DEF Connect, Silent
<1>2. TypeOK'
  BY <1>0, <1>1 DEF TypeOK
<1>3. reqs[c].slot = None
  BY <1>0, <1>1 DEF Attached
<1>4. /\ reqs'[c].slot = None
      /\ \A d \in Cells \ {c} : reqs'[d] = reqs[d]
  BY <1>0, <1>1 DEF TypeOK
<1> DEFINE F == {}
<1>5. F \in SUBSET Slots /\ \A s : s \notin F
  OBVIOUS
<1>6. capture' # NoCapture =>
        capture'.slot \in Slots /\ conns'[capture'.slot].conn \in Cells
  BY <1>0, <1>1 DEF UsedSlots
<1> HIDE DEF F
<1>7. QED
  BY <1>1, <1>2, <1>3, <1>4, <1>5, <1>6, LinksKept

\* httpdRecvCb calls the handler of a request, which may be its first call.
LEMMA PostChunkPreserves ==
  ASSUME IInv, NEW c \in Cells, PostChunk(c)
  PROVE  IInv'
<1> DEFINE r == [reqs[c] EXCEPT !.more = @ - 1]
<1>0. TypeOK /\ reqs[c] \in Requests /\ reqs[c].pool /\ reqs[c].more > 0
  BY DEF IInv, TypeOK, PostChunk
<1>1. /\ r \in Requests /\ r.slot = reqs[c].slot
      /\ r.pool = reqs[c].pool /\ r.parsed = reqs[c].parsed /\ r.more \in Nat
  <2>1. reqs[c].more - 1 \in Nat
    BY <1>0 DEF Requests
  <2>2. QED
    BY <1>0, <2>1 DEF Requests
<1>2. \/ r.slot # None /\ LaterCall(c, r, 0) /\ UNCHANGED capture
      \/ r.slot = None /\ FirstCall(c, r.more) /\ UNCHANGED early
  BY Zenon DEF PostChunk
<1>3. UNCHANGED <<sscp_events, wild, astray>>
  BY DEF PostChunk
<1> HIDE DEF r
<1>4. QED
  BY <1>0, <1>1, <1>2, <1>3, LaterCallPreserves, FirstCallPreserves

\* httpdSentCb: the backlog moves on, or the handler is called.
LEMMA SentPreserves ==
  ASSUME IInv, NEW c \in Cells, Sent(c)
  PROVE  IInv'
<1> DEFINE r == NextBuffer(reqs[c])
           n == Head(reqs[c].queue)
           s == reqs[c].slot
           cell == IF r.queue = <<>> /\ r.discon THEN [r EXCEPT !.closing = TRUE] ELSE r
           told == [conns EXCEPT ![s].settled = Settled(conns[s], n)]
<1>0. /\ TypeOK /\ UsedSlots /\ reqs[c] \in Requests /\ reqs[c].queue # <<>>
      /\ reqs[c].queue \in Seq(Nat) /\ s \in Slots \cup {None}
  BY DEF IInv, TypeOK, Sent, Requests
<1>1. n \in Nat
  BY <1>0
<1>2. /\ r \in Requests /\ r.slot = s
      /\ r.pool = reqs[c].pool /\ r.parsed = reqs[c].parsed
  BY <1>0, NextBufferKeeps
<1>3. UNCHANGED <<sscp_events, capture, wild, astray>>
  BY DEF Sent
<1>4. CASE /\ reqs' = [reqs EXCEPT ![c] = cell]
           /\ conns' = (IF s = None THEN conns ELSE told)
           /\ Silent
           /\ UNCHANGED early
  <2>1. cell \in Requests /\ cell.slot = s /\ cell.pool = reqs[c].pool
        /\ cell.parsed = reqs[c].parsed
    <3> HIDE DEF r
    <3>1. QED
      BY <1>2 DEF Requests
  <2> HIDE DEF cell
  <2>2. ASSUME s \in Slots
        PROVE  /\ told \in [Slots -> Connections]
               /\ \A t \in Slots : /\ told[t].used = conns[t].used
                                   /\ told[t].conn = conns[t].conn
                                   /\ told[t].flags = conns[t].flags
    <3>1. Settled(conns[s], n) \in Nat
      BY <1>0, <1>1, <2>2 DEF Settled, TypeOK, Connections
    <3>2. conns \in [Slots -> Connections] /\ conns[s] \in Connections
      BY <1>0, <2>2 DEF TypeOK
    <3> DEFINE slot == [conns[s] EXCEPT !.settled = Settled(conns[s], n)]
    <3>3. /\ slot \in Connections
          /\ slot.used = conns[s].used
          /\ slot.conn = conns[s].conn
          /\ slot.flags = conns[s].flags
      BY <3>1, <3>2 DEF Connections
    <3>4. told = [conns EXCEPT ![s] = slot]
      BY <2>2, <3>2
    <3> HIDE DEF slot, told
    <3>5. QED
      BY <2>2, <3>2, <3>3, <3>4
  <2> HIDE DEF told
  <2>3. conns' \in [Slots -> Connections]
        /\ \A t \in Slots : /\ conns'[t].used = conns[t].used
                            /\ conns'[t].conn = conns[t].conn
                            /\ conns'[t].flags = conns[t].flags
    BY <1>0, <1>4, <2>2 DEF TypeOK
  <2>4. TypeOK'
    BY <1>0, <1>3, <1>4, <2>1, <2>3 DEF TypeOK, Silent
  <2>5. \A d \in Cells : /\ reqs'[d].slot = reqs[d].slot
                         /\ reqs'[d].pool = reqs[d].pool
                         /\ reqs'[d].parsed = reqs[d].parsed
    BY <1>0, <1>4, <2>1 DEF TypeOK
  <2>6. capture' # NoCapture =>
          capture'.slot \in Slots /\ conns'[capture'.slot].conn \in Cells
    BY <1>0, <1>3, <2>3 DEF UsedSlots
  <2>7. QED
    BY <1>3, <2>3, <2>4, <2>5, <2>6, LinksSame
<1>5. CASE r.slot # None /\ LaterCall(c, r, n)
  <2> HIDE DEF r, n
  <2>1. QED
    BY <1>1, <1>2, <1>3, <1>5, LaterCallPreserves
<1>6. QED
  <2>1. r.slot = s
    BY <1>2
  <2>2. \/ /\ reqs' = [reqs EXCEPT ![c] = cell]
           /\ conns' = (IF r.slot = None THEN conns
                        ELSE [conns EXCEPT ![r.slot].settled = Settled(conns[r.slot], n)])
           /\ Silent
           /\ UNCHANGED early
        \/ r.slot # None /\ LaterCall(c, r, n)
    BY Zenon DEF Sent
  <2> HIDE DEF r, n, s, cell
  <2>3. QED
    BY Zenon, <1>4, <1>5, <2>1, <2>2

\* httpdDisconCb and httpdReconCb: whoever pointed to the freed cell is closed too.
LEMMA DisconnectPreserves ==
  ASSUME IInv, NEW c \in Cells, NEW flag \in Flags \ {"TXFREE"}, NEW kind,
         Disconnect(c, flag, kind)
  PROVE  IInv'
<1> USE HttpAssumption
<1> DEFINE s == reqs[c].slot
           left == [t \in Slots |-> IF conns[t].conn = c
                                      THEN [conns[t] EXCEPT !.gone = TRUE] ELSE conns[t]]
<1>0. /\ TypeOK /\ Attached /\ UsedSlots
      /\ s \in Slots \cup {None} /\ conns \in [Slots -> Connections]
      /\ s # None => conns[s].used /\ conns[s].conn = c
      /\ capture \in Captures
  BY DEF IInv, TypeOK, Attached, Requests
<1>1. /\ left \in [Slots -> Connections]
      /\ \A t \in Slots : /\ left[t].used = conns[t].used
                          /\ left[t].conn = conns[t].conn
                          /\ left[t].flags = conns[t].flags
  <2>1. ASSUME NEW k \in Connections
        PROVE  LET g == [k EXCEPT !.gone = TRUE]
               IN g \in Connections /\ g.used = k.used /\ g.conn = k.conn /\ g.flags = k.flags
    BY DEF Connections
  <2>2. QED
    BY <1>0, <2>1
<1>2. /\ UNCHANGED <<sscp_events, capture, wild, astray, early>>
      /\ reqs' = [(IF sscp_events /\ s # None THEN Detached(s) ELSE reqs)
                     EXCEPT ![c] = FreeCell]
      /\ \/ s = None /\ conns' = left /\ Silent
         \/ /\ s # None
            /\ conns' = IF sscp_events THEN Closed(left, s)
                        ELSE [left EXCEPT ![s].flags = @ \cup {flag}]
            /\ IF sscp_events THEN Tell(kind, s, "unknown") ELSE Silent
  BY Zenon DEF Disconnect
<1>3. FreeCell \in Requests /\ FreeCell.slot = None
  <2>1. NewCell \in Requests /\ NewCell.slot = None
    BY DEF NewCell, Requests
  <2>2. QED
    BY <2>1 DEF FreeCell, Requests
<1>4. /\ reqs' \in [Cells -> Requests] /\ reqs'[c] = FreeCell
      /\ \A d \in Cells \ {c} : reqs'[d] = reqs[d]
  <2>1. CASE sscp_events /\ s # None
    <3>1. Detached(s) = [reqs EXCEPT ![c].slot = None]
      BY <1>0, <2>1 DEF Detached
    <3>2. reqs' = [reqs EXCEPT ![c] = FreeCell]
      BY <1>0, <1>2, <2>1, <3>1 DEF TypeOK
    <3>3. QED
      BY <1>0, <1>3, <3>2 DEF TypeOK
  <2>2. CASE ~(sscp_events /\ s # None)
    <3>1. reqs' = [reqs EXCEPT ![c] = FreeCell]
      BY <1>2, <2>2
    <3>2. QED
      BY <1>0, <1>3, <3>1 DEF TypeOK
  <2>3. QED
    BY <2>1, <2>2
<1>5. /\ mcu' \in [Slots -> {"unknown", "asked", "sent", "ready"}]
      /\ confused' \in BOOLEAN
  BY <1>0, <1>2, TellType DEF Silent, TypeOK
<1>6. \A d \in Cells \ {c} : reqs[d].slot # None => reqs[d].slot # s
  BY <1>0 DEF Attached
<1> HIDE DEF left
<1>7. CASE sscp_events /\ s # None
  <2>1. conns' = Closed(left, s)
    BY <1>2, <1>7
  <2>2. /\ conns' \in [Slots -> Connections] /\ ~conns'[s].used
        /\ \A t \in Slots \ {s} : conns'[t] = left[t]
        /\ capture.slot = s => conns'[s].conn = left[s].conn
    BY <1>0, <1>1, <1>7, <2>1, ClosedSlot
  <2>3. TypeOK'
    BY <1>0, <1>2, <1>4, <1>5, <2>2 DEF TypeOK
  <2>4. capture' # NoCapture =>
          capture'.slot \in Slots /\ conns'[capture'.slot].conn \in Cells
    BY <1>0, <1>1, <1>2, <2>2 DEF UsedSlots
  <2> DEFINE F == {s}
  <2>5. F \in SUBSET Slots /\ \A t : t \in F <=> t = s
    BY <1>0, <1>7
  <2> HIDE DEF F, s
  <2>6. reqs[c].slot = s
    BY DEF s
  <2>7. QED
    <3>1. \A d \in Cells :
            \/ reqs'[d].slot = None
            \/ reqs[d].slot \notin F /\ reqs'[d] = reqs[d]
      BY <1>3, <1>4, <1>6, <2>5
    <3>2. \A d \in Cells : reqs[d].slot # None /\ reqs[d].slot \notin F => reqs'[d] = reqs[d]
      BY <1>4, <2>5, <2>6
    <3>3. \A t \in F : ~conns'[t].used
      BY <2>2, <2>5
    <3>4. \A t \in Slots \ F : /\ conns'[t].used = conns[t].used
                              /\ conns'[t].conn = conns[t].conn
                              /\ conns'[t].flags = conns[t].flags
      BY <1>1, <2>2, <2>5
    <3>5. \A d \in Cells :
            \/ reqs'[d].slot = None
            \/ /\ reqs[d].slot \notin F
               /\ reqs'[d].slot = reqs[d].slot
               /\ reqs'[d].pool = reqs[d].pool /\ reqs'[d].parsed = reqs[d].parsed
      BY <3>1
    <3>6. sscp_events => \A d \in Cells : reqs[d].slot # None /\ reqs[d].slot \notin F =>
            reqs'[d].slot = reqs[d].slot /\ reqs'[d].pool = reqs[d].pool
      BY <3>2
    <3>7. sscp_events' = sscp_events /\ F \in SUBSET Slots
      BY <1>2, <2>5
    <3>8. QED
      BY <2>3, <2>4, <3>3, <3>4, <3>5, <3>6, <3>7, LinksKept
<1>8. CASE ~(sscp_events /\ s # None)
  <2>1. \/ conns' = left
        \/ s # None /\ ~sscp_events /\ conns' = [left EXCEPT ![s].flags = @ \cup {flag}]
    BY <1>2, <1>8
  <2>2. /\ conns' \in [Slots -> Connections]
        /\ \A t \in Slots : /\ conns'[t].used = left[t].used
                            /\ conns'[t].conn = left[t].conn
                            /\ "TXFREE" \in conns'[t].flags => "TXFREE" \in left[t].flags
    <3>1. CASE conns' = left
      BY <1>1, <3>1
    <3>2. CASE s # None /\ conns' = [left EXCEPT ![s].flags = @ \cup {flag}]
      BY <1>0, <1>1, <3>2 DEF Connections, Flags
    <3>3. QED
      BY <2>1, <3>1, <3>2
  <2>3. TypeOK'
    BY <1>0, <1>2, <1>4, <1>5, <2>2 DEF TypeOK
  <2>4. capture' # NoCapture =>
          capture'.slot \in Slots /\ conns'[capture'.slot].conn \in Cells
    BY <1>0, <1>1, <1>2, <2>2 DEF UsedSlots
  <2> DEFINE F == {}
  <2>5. F \in SUBSET Slots /\ \A t : t \notin F
    OBVIOUS
  <2> HIDE DEF F
  <2>6. sscp_events => reqs[c].slot = None
    BY <1>8
  <2>7. QED
    <3>1. \A d \in Cells :
            \/ reqs'[d].slot = None
            \/ reqs[d].slot \notin F /\ reqs'[d] = reqs[d]
      BY <1>3, <1>4, <2>5
    <3>2. sscp_events => \A d \in Cells : reqs[d].slot # None => reqs'[d] = reqs[d]
      BY <1>4, <2>6
    <3>3. \A t \in Slots :
            /\ conns'[t].used = conns[t].used
            /\ conns'[t].conn = conns[t].conn
            /\ "TXFREE" \in conns'[t].flags => "TXFREE" \in conns[t].flags
      BY <1>1, <2>2
    <3>4. QED
      BY <1>2, <2>3, <2>4, <2>5, <3>1, <3>2, <3>3, LinksKept
<1>9. QED
  BY <1>7, <1>8

-----------------------------------------------------------------------------
(* The microcontroller's commands. *)

\* sscp_capturePayload
LEMMA CapturePreserves ==
  ASSUME IInv, Ready, NEW s \in Slots, NEW n \in Nat, NEW reply \in BOOLEAN,
         NEW now \in Connections,
         conns[s].used, now.used, now.conn = conns[s].conn, now.flags = conns[s].flags,
         Capture(s, n, reply, now)
  PROVE  IInv'
<1> DEFINE full == [now EXCEPT !.flags = @ \cup {TXFULL}]
<1>0. TypeOK /\ UsedSlots
  BY DEF IInv
<1>1. /\ capture' = [slot |-> s, size |-> n, reply |-> reply, stale |-> FALSE]
      /\ conns' = [conns EXCEPT ![s] = full]
      /\ UNCHANGED <<sscp_events, reqs, mcu, confused, wild, astray, early>>
  BY DEF Capture, Silent
<1>2. /\ full \in Connections /\ full.used /\ full.conn = conns[s].conn
      /\ "TXFREE" \in full.flags => "TXFREE" \in conns[s].flags
  BY DEF Connections, Flags, TXFULL
<1> HIDE DEF full
<1>3. TypeOK'
  BY <1>0, <1>1, <1>2 DEF TypeOK, Captures
<1>4. capture'.slot = s /\ conns'[s].conn \in Cells
  BY <1>0, <1>1, <1>2 DEF UsedSlots, TypeOK
<1>5. \A t \in Slots :
        /\ conns'[t].used = conns[t].used
        /\ conns'[t].conn = conns[t].conn
        /\ "TXFREE" \in conns'[t].flags => "TXFREE" \in conns[t].flags
  BY <1>0, <1>1, <1>2 DEF TypeOK, Connections
<1>6. QED
  BY <1>1, <1>3, <1>4, <1>5, LinksSame

\* http_do_reply
LEMMA ReplyPreserves ==
  ASSUME IInv, NEW s \in Slots, NEW total \in Totals,
         NEW n \in Sizes \cup {total},
         http_do_reply(s, total, n)
  PROVE  IInv'
<1> DEFINE now == [conns[s] EXCEPT !.txCount = total, !.txIndex = 0]
<1>0. /\ TypeOK /\ UsedSlots /\ Ready /\ conns[s] \in Connections
      /\ total \in Nat /\ n \in Nat
  BY HttpAssumption DEF IInv, TypeOK, http_do_reply
<1>1. /\ now \in Connections /\ now.used = conns[s].used
      /\ now.conn = conns[s].conn /\ now.flags = conns[s].flags
  BY <1>0 DEF Connections
<1>2. \/ Refused(s)
      \/ conns[s].used /\ Dangling(s) /\ UseFreed
      \/ /\ conns[s].used
         /\ \/ PayloadIn(s, 0, TRUE, FALSE, now)
            \/ Capture(s, n, TRUE, now)
            \/ /\ conns' = [conns EXCEPT ![s] = now]
               /\ Silent
               /\ UNCHANGED <<sscp_events, reqs, capture, wild, astray, early>>
  BY Zenon DEF http_do_reply
<1>3. conns[s].used => now.conn \in Cells
  BY <1>0, <1>1 DEF UsedSlots
<1> HIDE DEF now
<1>4. CASE Refused(s)
  BY <1>4, RefusedPreserves
<1>5. CASE UseFreed
  BY <1>5, UseFreedPreserves
<1>6. CASE conns[s].used /\ PayloadIn(s, 0, TRUE, FALSE, now)
  BY <1>1, <1>3, <1>6, PayloadInPreserves
<1>7. CASE conns[s].used /\ Capture(s, n, TRUE, now)
  BY <1>0, <1>1, <1>7, CapturePreserves
<1>8. CASE /\ conns' = [conns EXCEPT ![s] = now]
           /\ Silent
           /\ UNCHANGED <<sscp_events, reqs, capture, wild, astray, early>>
  <2>1. /\ conns' \in [Slots -> Connections]
        /\ \A t \in Slots : /\ conns'[t].used = conns[t].used
                            /\ conns'[t].conn = conns[t].conn
                            /\ conns'[t].flags = conns[t].flags
    BY <1>0, <1>1, <1>8 DEF TypeOK
  <2>2. TypeOK'
    BY <1>0, <1>8, <2>1 DEF TypeOK, Silent
  <2>3. capture' # NoCapture =>
          capture'.slot \in Slots /\ conns'[capture'.slot].conn \in Cells
    BY <1>0, <1>8, <2>1 DEF UsedSlots
  <2>4. QED
    BY <1>8, <2>1, <2>2, <2>3, LinksSame
<1>9. QED
  BY <1>2, <1>4, <1>5, <1>6, <1>7, <1>8

\* cmds_do_send
LEMMA SendPreserves ==
  ASSUME IInv, NEW s \in Slots, NEW n \in Sizes, cmds_do_send(s, n)
  PROVE  IInv'
<1>1. /\ Ready /\ conns[s] \in Connections /\ n \in Nat
      /\ Refused(s) \/ (conns[s].used /\ Capture(s, n, FALSE, conns[s]))
  <2>1. Ready /\ conns[s] \in Connections /\ n \in Nat
    BY HttpAssumption DEF IInv, TypeOK, cmds_do_send
  <2>2. Refused(s) \/ (conns[s].used /\ Capture(s, n, FALSE, conns[s]))
    BY DEF cmds_do_send
  <2>3. QED
    BY <2>1, <2>2
<1>2. QED
  BY <1>1, RefusedPreserves, CapturePreserves

\* The last byte of a payload, for whatever request its slot stands for by then.
LEMMA PayloadDonePreserves ==
  ASSUME IInv, PayloadDone
  PROVE  IInv'
<1>1. /\ capture.slot \in Slots /\ capture.size \in Nat /\ capture.reply \in BOOLEAN
      /\ capture.stale \in BOOLEAN /\ conns[capture.slot] \in Connections
      /\ conns[capture.slot].conn \in Cells
  BY DEF IInv, TypeOK, UsedSlots, PayloadDone, Ready, Captures
<1>2. PayloadIn(capture.slot, capture.size, capture.reply, capture.stale, conns[capture.slot])
  BY DEF PayloadDone
<1>3. QED
  BY <1>1, <1>2, PayloadInPreserves

\* A handle is closed together with its request's pointer to it.
LEMMA DetachPreserves ==
  ASSUME IInv, NEW s \in Slots, conns[s].used,
         reqs' = Detached(s), conns' = Closed(conns, s),
         mcu' \in [Slots -> {"unknown", "asked", "sent", "ready"}], confused' \in BOOLEAN,
         UNCHANGED <<sscp_events, capture, wild, astray, early>>
  PROVE  IInv'
<1>0. /\ TypeOK /\ Attached /\ UsedSlots /\ NoHandleLeaks /\ capture \in Captures
      /\ conns \in [Slots -> Connections] /\ conns[s].conn \in Cells
  BY DEF IInv, TypeOK, UsedSlots
<1>1. /\ reqs' \in [Cells -> Requests]
      /\ reqs'[conns[s].conn].slot = None
      /\ \A d \in Cells : d # conns[s].conn => reqs'[d] = reqs[d]
  BY <1>0, DetachedCells
<1>2. /\ conns' \in [Slots -> Connections] /\ ~conns'[s].used
      /\ \A t \in Slots \ {s} : conns'[t] = conns[t]
      /\ capture.slot = s => conns'[s].conn = conns[s].conn
  BY <1>0, ClosedSlot
<1>3. TypeOK'
  BY <1>0, <1>1, <1>2 DEF TypeOK
<1>4. capture' # NoCapture =>
        capture'.slot \in Slots /\ conns'[capture'.slot].conn \in Cells
  BY <1>0, <1>2 DEF UsedSlots
<1> DEFINE F == {s}
<1>5. F \in SUBSET Slots /\ \A t : t \in F <=> t = s
  OBVIOUS
<1>6. \A d \in Cells : reqs[d].slot # None /\ d # conns[s].conn => reqs[d].slot # s
  BY <1>0 DEF Attached
<1>7. sscp_events => reqs[conns[s].conn].slot = s
  BY <1>0 DEF NoHandleLeaks
<1> HIDE DEF F
<1>8. \A d \in Cells : \/ reqs'[d].slot = None
                       \/ reqs[d].slot \notin F /\ reqs'[d] = reqs[d]
  BY <1>1, <1>5, <1>6
<1>9. sscp_events =>
        \A d \in Cells : reqs[d].slot # None /\ reqs[d].slot \notin F => reqs'[d] = reqs[d]
  BY <1>1, <1>5, <1>7
<1>10. \A t \in F : ~conns'[t].used
  BY <1>2, <1>5
<1>11. \A t \in Slots \ F : conns'[t] = conns[t]
  BY <1>2, <1>5
<1>12. QED
  BY <1>3, <1>4, <1>5, <1>8, <1>9, <1>10, <1>11, LinksKept

\* cmds_do_close
LEMMA ClosePreserves ==
  ASSUME IInv, NEW s \in Slots, cmds_do_close(s)
  PROVE  IInv'
<1>1. CASE Refused(s)
  BY <1>1, RefusedPreserves
<1>2. CASE UseFreed
  BY <1>2, UseFreedPreserves
<1>3. CASE /\ conns[s].used
           /\ reqs' = Detached(s)
           /\ conns' = Closed(conns, s)
           /\ mcu' = [mcu EXCEPT ![s] = "unknown"]
           /\ UNCHANGED <<sscp_events, capture, wild, astray, early, confused>>
  <2>1. mcu' \in [Slots -> {"unknown", "asked", "sent", "ready"}] /\ confused' \in BOOLEAN
    BY <1>3 DEF IInv, TypeOK
  <2>2. QED
    BY <1>3, <2>1, DetachPreserves
<1>4. QED
  BY Zenon, <1>1, <1>2, <1>3 DEF cmds_do_close

\* cmds_do_poll
LEMMA PollPreserves ==
  ASSUME IInv, NEW s \in Slots, NEW mask, cmds_do_poll(s, mask)
  PROVE  IInv'
<1> DEFINE freed == "TXFREE" \in conns[s].flags
<1>0. /\ TypeOK /\ Attached /\ UsedSlots /\ conns[s].used /\ capture \in Captures
      /\ conns \in [Slots -> Connections] /\ conns[s] \in Connections
  BY DEF IInv, TypeOK, cmds_do_poll
<1>1. UNCHANGED <<sscp_events, capture, astray, early>>
  BY DEF cmds_do_poll
<1>2. \/ /\ conns' = IF freed THEN Closed(conns, s)
                     ELSE [conns EXCEPT ![s].flags = @ \ {"TXDONE"}]
         /\ reqs' = reqs
         /\ Tell("S", s, Informed(s, freed))
         /\ wild' = wild
      \/ UseFreed
      \/ /\ reqs' = Detached(s)
         /\ conns' = Closed(conns, s)
         /\ \E kind : Tell(kind, s, "unknown")
         /\ wild' = wild
      \/ /\ conns' = [conns EXCEPT ![s].flags = @ \ {"INIT"}]
         /\ reqs' = reqs
         /\ Tell("G", s, "asked")
         /\ wild' = wild
  BY Zenon DEF cmds_do_poll
<1>3. ASSUME NEW f \in Flags \ {"TXFREE"},
             conns' = [conns EXCEPT ![s].flags = @ \ {f}], reqs' = reqs, wild' = wild,
             mcu' \in [Slots -> {"unknown", "asked", "sent", "ready"}], confused' \in BOOLEAN
      PROVE  IInv'
  <2>1. /\ conns' \in [Slots -> Connections]
        /\ \A t \in Slots : /\ conns'[t].used = conns[t].used
                            /\ conns'[t].conn = conns[t].conn
                            /\ conns'[t].flags \subseteq conns[t].flags
    BY <1>0, <1>3 DEF Connections
  <2>2. TypeOK'
    BY <1>0, <1>1, <1>3, <2>1 DEF TypeOK
  <2>3. capture' # NoCapture =>
          capture'.slot \in Slots /\ conns'[capture'.slot].conn \in Cells
    BY <1>0, <1>1, <2>1 DEF UsedSlots
  <2>4. QED
    BY <1>1, <1>3, <2>1, <2>2, <2>3, LinksSame
<1>4. CASE /\ conns' = IF freed THEN Closed(conns, s)
                       ELSE [conns EXCEPT ![s].flags = @ \ {"TXDONE"}]
           /\ reqs' = reqs
           /\ Tell("S", s, Informed(s, freed))
           /\ wild' = wild
  <2>1. /\ mcu' \in [Slots -> {"unknown", "asked", "sent", "ready"}]
        /\ confused' \in BOOLEAN
    <3>1. Informed(s, freed) \in {"unknown", "asked", "sent", "ready"}
      BY <1>0 DEF Informed, TypeOK
    <3>2. QED
      BY <1>0, <1>4, <3>1, TellType
  <2>2. CASE freed
    <3>1. /\ conns' \in [Slots -> Connections] /\ ~conns'[s].used
          /\ \A t \in Slots \ {s} : conns'[t] = conns[t]
          /\ capture.slot = s => conns'[s].conn = conns[s].conn
      BY <1>0, <1>4, <2>2, ClosedSlot
    <3>2. TypeOK'
      BY <1>0, <1>1, <1>4, <2>1, <3>1 DEF TypeOK
    <3>3. capture' # NoCapture =>
            capture'.slot \in Slots /\ conns'[capture'.slot].conn \in Cells
      BY <1>0, <1>1, <3>1 DEF UsedSlots
    <3>4. \A d \in Cells : reqs[d].slot # s
      BY <1>0, <2>2, HttpAssumption DEF Attached, Slots
    <3> DEFINE F == {s}
    <3>5. F \in SUBSET Slots /\ \A t : t \in F <=> t = s
      OBVIOUS
    <3> HIDE DEF F
    <3>6. QED
      BY <1>1, <1>4, <3>1, <3>2, <3>3, <3>4, <3>5, LinksKept
  <2>3. CASE ~freed
    <3>1. "TXDONE" \in Flags \ {"TXFREE"}
      BY DEF Flags
    <3>2. conns' = [conns EXCEPT ![s].flags = @ \ {"TXDONE"}]
      BY <1>4, <2>3
    <3>3. QED
      BY Zenon, <1>3, <1>4, <2>1, <3>1, <3>2
  <2>4. QED
    BY <2>2, <2>3
<1>5. CASE /\ reqs' = Detached(s)
           /\ conns' = Closed(conns, s)
           /\ \E kind : Tell(kind, s, "unknown")
           /\ wild' = wild
  <2>1. /\ mcu' \in [Slots -> {"unknown", "asked", "sent", "ready"}]
        /\ confused' \in BOOLEAN
    BY <1>0, <1>5, TellType
  <2>2. QED
    BY <1>0, <1>1, <1>5, <2>1, DetachPreserves
<1>6. CASE /\ conns' = [conns EXCEPT ![s].flags = @ \ {"INIT"}]
           /\ reqs' = reqs
           /\ Tell("G", s, "asked")
           /\ wild' = wild
  <2>1. /\ mcu' \in [Slots -> {"unknown", "asked", "sent", "ready"}]
        /\ confused' \in BOOLEAN
    BY <1>0, <1>6, TellType
  <2>2. QED
    <3>1. "INIT" \in Flags \ {"TXFREE"}
      BY DEF Flags
    <3>2. QED
      BY Zenon, <1>3, <1>6, <2>1, <3>1
<1>7. QED
  BY <1>2, <1>4, <1>5, <1>6, UseFreedPreserves

\* sscp_reset
LEMMA ResetPreserves ==
  ASSUME IInv, sscp_reset
  PROVE  IInv'
<1>1. CASE UseFreed
  BY <1>1, UseFreedPreserves
<1>2. CASE /\ reqs' = [c \in Cells |-> IF \E s \in Slots : conns[s].used /\ conns[s].conn = c
                                       THEN [reqs[c] EXCEPT !.slot = None] ELSE reqs[c]]
           /\ conns' = [s \in Slots |-> UnusedSlot]
           /\ capture' = NoCapture
           /\ mcu' = [s \in Slots |-> "unknown"]
           /\ UNCHANGED <<sscp_events, wild, astray, early, confused>>
  <2>0. /\ TypeOK /\ Attached /\ reqs \in [Cells -> Requests]
        /\ \A c \in Cells : reqs[c].slot \in Slots \cup {None}
    BY DEF IInv, TypeOK, Requests
  <2>1. UnusedSlot \in Connections /\ ~UnusedSlot.used
    BY DEF UnusedSlot, NewSlot, Connections, Flags
  <2>2. ASSUME NEW r \in Requests
        PROVE  [r EXCEPT !.slot = None] \in Requests /\ [r EXCEPT !.slot = None].slot = None
    BY DEF Requests
  <2>3. reqs' \in [Cells -> Requests] /\ \A c \in Cells : reqs'[c].slot = None
    <3>1. \A c \in Cells : reqs[c].slot # None =>
            \E s \in Slots : conns[s].used /\ conns[s].conn = c
      BY <2>0 DEF Attached
    <3>2. QED
      BY <1>2, <2>0, <2>2, <3>1
  <2>4. NoCapture \in Captures
    BY DEF NoCapture, Captures
  <2>5. TypeOK'
    BY <1>2, <2>0, <2>1, <2>3, <2>4 DEF TypeOK
  <2>6. QED
    BY <1>2, <2>1, <2>3, <2>5 DEF IInv, Attached, UsedSlots, NoHandleLeaks, NoCapture
<1>3. QED
  BY Zenon, <1>1, <1>2 DEF sscp_reset

-----------------------------------------------------------------------------
(* The theorems. *)

\* Every step keeps the invariant.
LEMMA StepInv == IInv /\ [Next]_vars => IInv'
<1> SUFFICES ASSUME IInv, [Next]_vars PROVE IInv'
  OBVIOUS
<1>1. ASSUME NEW c \in Cells, NEW more \in MoreChunks, Request(c, more)
      PROVE  IInv'
  <2>1. /\ reqs[c].pool /\ reqs[c].slot = None /\ more \in Nat
        /\ FirstCall(c, more) /\ UNCHANGED <<sscp_events, wild, astray, early>>
    BY <1>1, HttpAssumption DEF Request, IInv, Attached
  <2>2. QED
    BY <2>1, FirstCallPreserves
<1>2. ASSUME NEW c \in Cells, DisconCb(c) \/ ReconCb(c)
      PROVE  IInv'
  BY <1>2, DisconnectPreserves DEF DisconCb, ReconCb, Flags
<1>3. CASE UNCHANGED vars
  BY <1>3 DEF IInv, TypeOK, Attached, UsedSlots, NoHandleLeaks, NoCapture, vars
<1>4. CASE Server
  BY <1>1, <1>2, <1>4, ConnectPreserves, PostChunkPreserves, SentPreserves DEF Server
<1>5. CASE Commands
  BY <1>5, ReplyPreserves, SendPreserves, ClosePreserves, PollPreserves,
     PayloadDonePreserves, ResetPreserves DEF Commands
<1>6. QED
  BY <1>3, <1>4, <1>5 DEF Next

\* Whatever requests come, are closed and are replaced by others in the same memory,
\* and whatever commands the microcontroller sends: the invariant of sscp-http.c.
THEOREM Inductive == Spec => []IInv
<1>1. Init => IInv
  <2> SUFFICES ASSUME Init PROVE IInv
    OBVIOUS
  <2>1. /\ UnusedSlot \in Connections /\ ~UnusedSlot.used
        /\ FreeCell \in Requests /\ FreeCell.slot = None
        /\ NoCapture \in Captures
    <3>1. NewCell \in Requests /\ NewCell.slot = None
      BY DEF NewCell, Requests
    <3>2. QED
      BY <3>1 DEF UnusedSlot, NewSlot, Connections, Flags, FreeCell, Requests,
                  NoCapture, Captures
  <2>2. TypeOK
    BY <2>1, HttpAssumption DEF Init, TypeOK
  <2>3. QED
    BY <2>1, <2>2 DEF Init, IInv, Attached, UsedSlots, NoHandleLeaks
<1>2. QED
  BY <1>1, StepInv, PTL DEF Spec

\* The variables keep their types.
THEOREM TypeCorrect == Spec => []TypeOK
<1>1. IInv => TypeOK
  BY DEF IInv
<1>2. QED
  BY <1>1, Inductive, PTL

\* A request and the handle that stands for it point to each other.
THEOREM RequestsLinked == Spec => []Linked
<1>1. IInv => Linked
  BY DEF IInv, Attached, Linked
<1>2. QED
  BY <1>1, Inductive, PTL

\* With events sent at once no handle is leaked.
THEOREM HandlesFreed == Spec => []NoHandleLeaks
<1>1. IInv => NoHandleLeaks
  BY DEF IInv
<1>2. QED
  BY <1>1, Inductive, PTL

-----------------------------------------------------------------------------
(* What the microcontroller knows of a handle. *)

\* The handler is called once before the answer: with the whole body of the request.
OneBuffer == MoreChunks \subseteq {0}

Once == \A c \in Cells : reqs[c].more = 0

\* What the microcontroller knows of a handle that is not in use.
Unheard == \A s \in Slots : ~conns[s].used => mcu[s] = "unknown"

\* With events sent at once no flag waits for a poll.
Quiet == sscp_events => \A s \in Slots : conns[s].used =>
  /\ conns[s].flags \subseteq {TXFULL}
  /\ TXFULL \in conns[s].flags => capture.slot = s

\* A slot whose request has not been freed is that request's only one.
Owned == \A s \in Slots : conns[s].used /\ ~conns[s].gone =>
  LET r == reqs[conns[s].conn] IN r.pool /\ r.parsed /\ r.slot \in {s, None}
Present == \A c \in Cells : reqs[c].slot # None => ~conns[reqs[c].slot].gone

\* Nothing is under way before the first REPLY.
Fresh == \A c \in Cells : reqs[c].pool /\ ~reqs[c].parsed => reqs[c].queue = <<>>
Blank == \A c \in Cells : LET s == reqs[c].slot IN
  s # None /\ mcu[s] \in {"unknown", "asked"} => reqs[c].queue = <<>> /\ conns[s].settled = 0

\* With events sent at once, what is under way is what the microcontroller sent last.
Turns == \A c \in Cells : LET s == reqs[c].slot IN
  s # None => /\ mcu[s] # "unknown"
              /\ reqs[c].queue # <<>> => mcu[s] = "sent"

\* A request waits for its first poll, and nothing has been sent for it: the payload
\* being captured for its slot is of the one before.
Opening == \A s \in Slots : conns[s].used /\ "INIT" \in conns[s].flags =>
  mcu[s] = "unknown" /\ (capture.slot = s => capture.stale)

OrderInv ==
  /\ Once /\ Unheard /\ Quiet /\ Owned /\ Present /\ Opening
  /\ ~astray => Fresh /\ Blank /\ (sscp_events => Turns /\ ~confused)

-----------------------------------------------------------------------------
(* What each step changes. *)

\* The request r of cell c, called for n bytes that were confirmed: what LaterCall
\* changes.
Called(c, r, n) ==
  LET s == r.slot
      index == conns[s].txIndex + conns[s].count
      done == index >= conns[s].txCount
      freed == sscp_events /\ done
  IN /\ reqs'[c].slot = (IF done THEN None ELSE s)
     /\ reqs'[c].pool = r.pool /\ reqs'[c].parsed = r.parsed /\ reqs'[c].more = r.more
     /\ reqs'[c].queue = r.queue /\ reqs'[c].backlog = r.backlog
     /\ \A d \in Cells \ {c} : reqs'[d] = reqs[d]
     /\ \A t \in Slots \ {s} : conns'[t] = conns[t] /\ mcu'[t] = mcu[t]
     /\ conns'[s].used <=> ~freed
     /\ ~freed => /\ conns'[s].conn = conns[s].conn /\ conns'[s].gone = conns[s].gone
                  /\ conns'[s].txIndex = index /\ conns'[s].settled = Settled(conns[s], n)
                  /\ conns'[s].count = conns[s].count
                  /\ conns'[s].txCount = conns[s].txCount
                  /\ conns'[s].flags \subseteq conns[s].flags
                        \cup (IF sscp_events THEN {} ELSE {"TXDONE", "TXFREE"})
     /\ mcu'[s] = IF sscp_events THEN Informed(s, freed) ELSE mcu[s]
     /\ confused' = IF sscp_events /\ mcu[s] # "sent" THEN TRUE ELSE confused
     /\ early' = IF done /\ Settled(conns[s], n) < conns[s].txCount THEN TRUE ELSE early

LEMMA LaterCallEffect ==
  ASSUME IInv, NEW c \in Cells, NEW r \in Requests, NEW n \in Nat, LaterCall(c, r, n),
         r.slot \in Slots, reqs[c].slot = r.slot
  PROVE  Called(c, r, n)
<1> DEFINE s == r.slot
           index == conns[s].txIndex + conns[s].count
           done == index >= conns[s].txCount
           flags == conns[s].flags \cup {"TXDONE"} \cup (IF done THEN {"TXFREE"} ELSE {})
           freed == sscp_events /\ "TXFREE" \in flags
           keep == IF sscp_events THEN flags \ {"TXDONE"} ELSE flags
           raw == [conns EXCEPT ![s].txIndex = index, ![s].settled = Settled(conns[s], n),
                                ![s].flags = keep]
           new == [conns[s] EXCEPT !.txIndex = index, !.settled = Settled(conns[s], n),
                     !.flags = keep]
           now == [conns EXCEPT ![s] = new]
           cell == IF done THEN [r EXCEPT !.slot = None, !.discon = TRUE] ELSE r
<1>0. /\ conns \in [Slots -> Connections] /\ conns[s] \in Connections
      /\ reqs \in [Cells -> Requests] /\ capture \in Captures
      /\ mcu \in [Slots -> {"unknown", "asked", "sent", "ready"}]
      /\ conns[s].used /\ "TXFREE" \notin conns[s].flags /\ s # None
      /\ s \in Slots /\ reqs[c].slot = s
  BY HttpAssumption DEF IInv, TypeOK, Attached, Slots
<1>1. /\ conns' = IF freed THEN Closed(raw, s) ELSE raw
      /\ reqs' = [reqs EXCEPT ![c] = cell]
      /\ IF sscp_events THEN Tell("S", s, Informed(s, freed)) ELSE Silent
      /\ early' = IF done /\ Settled(conns[s], n) < conns[s].txCount THEN TRUE ELSE early
  BY Zenon DEF LaterCall
<1>2. freed <=> (sscp_events /\ done)
  BY <1>0
<1>3. /\ keep \in SUBSET Flags
      /\ ~freed => keep \subseteq conns[s].flags
                     \cup (IF sscp_events THEN {} ELSE {"TXDONE", "TXFREE"})
  BY <1>0 DEF Flags, Connections
<1>4. Settled(conns[s], n) \in Nat /\ index \in Nat
  BY <1>0 DEF Settled, Connections
<1>5. raw = now
  <2> HIDE DEF keep, index
  <2>1. QED
    BY <1>0
<1> HIDE DEF flags, keep, index, freed, raw
<1>6. /\ new \in Connections /\ new.used /\ new.conn = conns[s].conn
      /\ new.gone = conns[s].gone /\ new.txIndex = index /\ new.settled = Settled(conns[s], n)
      /\ new.count = conns[s].count /\ new.txCount = conns[s].txCount /\ new.flags = keep
  BY <1>0, <1>3, <1>4 DEF Connections
<1> HIDE DEF new
<1>7. /\ cell.slot = (IF done THEN None ELSE s)
      /\ cell.pool = r.pool /\ cell.parsed = r.parsed /\ cell.more = r.more
      /\ cell.queue = r.queue /\ cell.backlog = r.backlog
  BY DEF Requests
<1> HIDE DEF cell, done
<1>8. reqs'[c] = cell /\ \A d \in Cells \ {c} : reqs'[d] = reqs[d]
  BY <1>0, <1>1
<1>9. now \in [Slots -> Connections] /\ now[s] = new /\ \A t \in Slots \ {s} : now[t] = conns[t]
  BY <1>0, <1>6
<1>10. /\ Closed(now, s) \in [Slots -> Connections]
       /\ ~Closed(now, s)[s].used
       /\ \A t \in Slots : t # s => Closed(now, s)[t] = now[t]
  BY <1>0, <1>9, ClosedSlot
<1> HIDE DEF now
<1>11. /\ conns'[s].used <=> ~freed
       /\ ~freed => conns'[s] = new
       /\ \A t \in Slots \ {s} : conns'[t] = conns[t]
  BY <1>1, <1>5, <1>6, <1>9, <1>10
<1>12. /\ mcu'[s] = IF sscp_events THEN Informed(s, freed) ELSE mcu[s]
       /\ \A t \in Slots \ {s} : mcu'[t] = mcu[t]
       /\ confused' = IF sscp_events /\ mcu[s] # "sent" THEN TRUE ELSE confused
  BY <1>0, <1>1 DEF Tell, Silent
<1>13. QED
  BY <1>1, <1>2, <1>3, <1>6, <1>7, <1>8, <1>11, <1>12 DEF Called, done, index

\* A buffer is confirmed while others are behind it, or the request has no slot.
LEMMA SentEffect ==
  ASSUME IInv, NEW c \in Cells, Sent(c)
  PROVE  LET r == NextBuffer(reqs[c])
             n == Head(reqs[c].queue)
             s == reqs[c].slot
         IN /\ r \in Requests /\ n \in Nat /\ r.slot = s /\ reqs[c].queue # <<>>
            /\ reqs[c].pool /\ UNCHANGED <<sscp_events, capture, wild, astray>>
            /\ \/ /\ r.queue # <<>> \/ r.discon \/ s = None
                  /\ reqs'[c].slot = s /\ reqs'[c].pool /\ reqs'[c].parsed = r.parsed
                  /\ reqs'[c].queue = r.queue /\ reqs'[c].backlog = r.backlog
                  /\ reqs'[c].more = r.more
                  /\ \A d \in Cells \ {c} : reqs'[d] = reqs[d]
                  /\ \A t \in Slots \ {s} : conns'[t] = conns[t]
                  /\ s # None =>
                       /\ conns'[s].used = conns[s].used /\ conns'[s].flags = conns[s].flags
                       /\ conns'[s].conn = conns[s].conn /\ conns'[s].gone = conns[s].gone
                       /\ conns'[s].txIndex = conns[s].txIndex
                       /\ conns'[s].count = conns[s].count
                       /\ conns'[s].txCount = conns[s].txCount
                       /\ conns'[s].settled = Settled(conns[s], n)
                  /\ UNCHANGED <<mcu, confused, early>>
               \/ r.queue = <<>> /\ s # None /\ LaterCall(c, r, n)
<1> DEFINE r == NextBuffer(reqs[c])
           n == Head(reqs[c].queue)
           s == reqs[c].slot
           cell == IF r.queue = <<>> /\ r.discon THEN [r EXCEPT !.closing = TRUE] ELSE r
           told == [conns EXCEPT ![s].settled = Settled(conns[s], n)]
<1>1. /\ TypeOK /\ reqs[c] \in Requests /\ reqs[c].pool /\ reqs[c].queue # <<>>
      /\ reqs[c].queue \in Seq(Nat) /\ s \in Slots \cup {None}
      /\ UNCHANGED <<sscp_events, capture, wild, astray>>
  BY DEF IInv, TypeOK, Sent, Requests
<1>2. /\ n \in Nat /\ r \in Requests /\ r.slot = s /\ r.pool
  BY <1>1, NextBufferKeeps
<1>3. /\ cell.slot = s /\ cell.pool /\ cell.parsed = r.parsed
      /\ cell.queue = r.queue /\ cell.backlog = r.backlog /\ cell.more = r.more
  <2> HIDE DEF r
  <2>1. QED
    BY <1>2 DEF Requests
<1>4. \/ /\ r.queue # <<>> \/ r.discon \/ r.slot = None
         /\ reqs' = [reqs EXCEPT ![c] = cell]
         /\ conns' = (IF r.slot = None THEN conns
                      ELSE [conns EXCEPT ![r.slot].settled = Settled(conns[r.slot], n)])
         /\ Silent
         /\ UNCHANGED early
      \/ r.queue = <<>> /\ r.slot # None /\ LaterCall(c, r, n)
  BY Zenon DEF Sent
<1> HIDE DEF r, n, cell
<1>5. CASE /\ r.queue # <<>> \/ r.discon \/ s = None
           /\ reqs' = [reqs EXCEPT ![c] = cell]
           /\ conns' = (IF s = None THEN conns ELSE told)
           /\ Silent
           /\ UNCHANGED early
  <2>1. reqs'[c] = cell /\ \A d \in Cells \ {c} : reqs'[d] = reqs[d]
    BY <1>1, <1>5 DEF TypeOK
  <2>2. /\ \A t \in Slots \ {s} : conns'[t] = conns[t]
        /\ s # None => conns'[s] = [conns[s] EXCEPT !.settled = Settled(conns[s], n)]
    BY <1>1, <1>5 DEF TypeOK
  <2>3. s # None => conns[s] \in Connections
    BY <1>1 DEF TypeOK
  <2> HIDE DEF told, s
  <2>4. s # None =>
          /\ conns'[s].used = conns[s].used /\ conns'[s].flags = conns[s].flags
          /\ conns'[s].conn = conns[s].conn /\ conns'[s].gone = conns[s].gone
          /\ conns'[s].txIndex = conns[s].txIndex
          /\ conns'[s].count = conns[s].count
          /\ conns'[s].txCount = conns[s].txCount
          /\ conns'[s].settled = Settled(conns[s], n)
    BY <2>2, <2>3 DEF Connections
  <2>5. QED
    BY <1>1, <1>2, <1>3, <1>5, <2>1, <2>2, <2>4 DEF Silent, r, n, s
<1>6. CASE r.queue = <<>> /\ s # None /\ LaterCall(c, r, n)
  BY <1>1, <1>2, <1>6 DEF r, n, s
<1>7. QED
  BY <1>2, <1>4, <1>5, <1>6

LEMMA SentOrder ==
  ASSUME IInv, OrderInv, NEW c \in Cells, Sent(c)
  PROVE  OrderInv'
<1> USE HttpAssumption
<1> DEFINE r == NextBuffer(reqs[c])
           n == Head(reqs[c].queue)
           s == r.slot
<1>0. /\ TypeOK /\ Attached /\ NoHandleLeaks /\ reqs[c] \in Requests
      /\ Once /\ Unheard /\ Quiet /\ Owned /\ Present /\ Opening
      /\ ~astray => Fresh /\ Blank /\ (sscp_events => Turns /\ ~confused)
      /\ \A d \in Cells : reqs[d].slot \in Slots \cup {None}
      /\ None \notin Slots
  BY DEF IInv, TypeOK, OrderInv, Requests, Slots
<1>1. /\ r \in Requests /\ n \in Nat /\ reqs[c].slot = s /\ r.parsed = reqs[c].parsed
      /\ reqs[c].queue # <<>> /\ reqs[c].pool /\ r.more = 0
      /\ UNCHANGED <<sscp_events, capture, wild, astray>>
  BY <1>0, SentEffect, NextBufferKeeps DEF Once
<1> HIDE DEF r, n, s
<1>2. s # None => s \in Slots /\ conns[s].used /\ conns[s].conn = c /\ ~conns[s].gone
  BY <1>0, <1>1 DEF Attached, Present
<1>3. ~astray /\ s # None => mcu[s] \notin {"unknown", "asked"}
  BY <1>0, <1>1 DEF Blank
<1>4. \A d \in Cells \ {c} : reqs[d].slot # None => reqs[d].slot # s
  BY <1>0, <1>1 DEF Attached
<1>5. CASE ~(r.queue = <<>> /\ s # None /\ LaterCall(c, r, n))
  <2>1. /\ r.queue # <<>> \/ r.discon \/ s = None
        /\ reqs'[c].slot = s /\ reqs'[c].pool /\ reqs'[c].parsed = r.parsed
        /\ reqs'[c].queue = r.queue /\ reqs'[c].more = 0
        /\ \A d \in Cells \ {c} : reqs'[d] = reqs[d]
        /\ \A t \in Slots \ {s} : conns'[t] = conns[t]
        /\ s # None =>
             /\ conns'[s].used = conns[s].used /\ conns'[s].flags = conns[s].flags
             /\ conns'[s].conn = conns[s].conn /\ conns'[s].gone = conns[s].gone
        /\ UNCHANGED <<mcu, confused>>
    BY <1>1, <1>5, SentEffect DEF r, n, s
  <2>a. \A t \in Slots : /\ conns'[t].used = conns[t].used /\ conns'[t].flags = conns[t].flags
                         /\ conns'[t].conn = conns[t].conn /\ conns'[t].gone = conns[t].gone
    BY <1>0, <1>2, <2>1
  <2>2. Once' /\ Unheard' /\ Quiet'
    BY <1>0, <1>1, <2>1, <2>a DEF Once, Unheard, Quiet
  <2>3. Owned'
    <3>1. \A d \in Cells : /\ reqs'[d].slot = reqs[d].slot /\ reqs'[d].parsed = reqs[d].parsed
                           /\ reqs[d].pool => reqs'[d].pool
      BY <1>1, <2>1 
    <3>2. \A t \in Slots : conns[t].used => conns[t].conn \in Cells
      BY DEF IInv, UsedSlots
    <3>3. QED
      BY <1>0, <2>a, <3>1, <3>2 DEF Owned
  <2>4. Present' /\ Opening'
    BY <1>0, <1>1, <1>2, <1>4, <2>1, <2>a DEF Present, Opening
  <2>5. ASSUME ~astray PROVE Fresh' /\ Blank' /\ (sscp_events => Turns' /\ ~confused')
    <3>1. Fresh'
      BY <1>0, <1>1, <2>1, <2>5 DEF Fresh
    <3>2. Blank'
      BY <1>0, <1>1, <1>2, <1>3, <1>4, <2>1, <2>5 DEF Blank
    <3>3. sscp_events => Turns' /\ ~confused'
      BY <1>0, <1>1, <1>2, <1>3, <1>4, <2>1, <2>5 DEF Turns
    <3>4. QED
      BY <3>1, <3>2, <3>3
  <2>6. QED
    BY <1>1, <2>2, <2>3, <2>4, <2>5 DEF OrderInv
<1>6. CASE r.queue = <<>> /\ s # None /\ LaterCall(c, r, n)
  <2> DEFINE done == conns[s].txIndex + conns[s].count >= conns[s].txCount
             freed == sscp_events /\ done
  <2>1. /\ reqs'[c].slot = (IF done THEN None ELSE s)
        /\ reqs'[c].pool = r.pool /\ reqs'[c].parsed = r.parsed /\ reqs'[c].more = r.more
        /\ reqs'[c].queue = r.queue
        /\ \A d \in Cells \ {c} : reqs'[d] = reqs[d]
        /\ \A t \in Slots \ {s} : conns'[t] = conns[t] /\ mcu'[t] = mcu[t]
        /\ conns'[s].used <=> ~freed
        /\ ~freed => /\ conns'[s].conn = conns[s].conn /\ conns'[s].gone = conns[s].gone
                     /\ conns'[s].flags \subseteq conns[s].flags
                          \cup (IF sscp_events THEN {} ELSE {"TXDONE", "TXFREE"})
        /\ mcu'[s] = IF sscp_events THEN Informed(s, freed) ELSE mcu[s]
        /\ confused' = IF sscp_events /\ mcu[s] # "sent" THEN TRUE ELSE confused
    <3>1. r.slot \in Slots /\ reqs[c].slot = r.slot
      BY <1>1, <1>2, <1>6 DEF s
    <3>2. Called(c, r, n)
      BY <1>1, <1>6, <3>1, LaterCallEffect
    <3>3. QED
      BY <3>2 DEF Called, s
  <2>2. r.pool
    BY <1>1, NextBufferKeeps, <1>0 DEF r
  <2> HIDE DEF freed, done
  <2>a. \A t \in Slots : conns'[t].used =>
          /\ conns[t].used
          /\ conns'[t].conn = conns[t].conn /\ conns'[t].gone = conns[t].gone
          /\ conns'[t].flags \subseteq conns[t].flags
               \cup (IF sscp_events THEN {} ELSE {"TXDONE", "TXFREE"})
    BY <1>0, <1>2, <2>1
  <2>3. Once' /\ Unheard'
    BY <1>0, <1>1, <1>2, <2>1 DEF Once, Unheard, Informed, freed
  <2>4. Quiet'
    BY <1>0, <1>1, <2>a DEF Quiet
  <2>5. Owned'
    <3>1. \A d \in Cells : /\ reqs'[d].slot \in {reqs[d].slot, None}
                           /\ reqs'[d].parsed = reqs[d].parsed
                           /\ reqs[d].pool => reqs'[d].pool
      BY <1>1, <2>1, <2>2 
    <3>2. \A t \in Slots : conns[t].used => conns[t].conn \in Cells
      BY DEF IInv, UsedSlots
    <3>3. QED
      BY <1>0, <2>a, <3>1, <3>2 DEF Owned
  <2>6. Present' /\ Opening'
    BY <1>0, <1>1, <1>2, <1>4, <2>1, <2>a DEF Present, Opening, Informed, freed
  <2>7. ASSUME ~astray PROVE Fresh' /\ Blank' /\ (sscp_events => Turns' /\ ~confused')
    <3>1. Fresh'
      BY <1>0, <1>1, <1>6, <2>1, <2>7 DEF Fresh
    <3>2. Blank'
      BY <1>0, <1>1, <1>2, <1>3, <1>4, <1>6, <2>1, <2>7 DEF Blank, Informed, freed
    <3>3. sscp_events => Turns' /\ ~confused'
      BY <1>0, <1>1, <1>2, <1>3, <1>4, <1>6, <2>1, <2>7 DEF Turns, Informed, freed
    <3>4. QED
      BY <3>1, <3>2, <3>3
  <2>8. QED
    BY <1>1, <2>3, <2>4, <2>5, <2>6, <2>7 DEF OrderInv
<1>7. QED
  BY <1>5, <1>6

-----------------------------------------------------------------------------

\* httpdConnectCb
LEMMA ConnectOrder ==
  ASSUME IInv, OrderInv, NEW c \in Cells, Connect(c)
  PROVE  OrderInv'
<1>0. /\ TypeOK /\ Attached /\ UsedSlots
      /\ Once /\ Unheard /\ Quiet /\ Owned /\ Present /\ Opening
      /\ ~astray => Fresh /\ Blank /\ (sscp_events => Turns /\ ~confused)
  BY DEF IInv, OrderInv
<1>1. /\ ~reqs[c].pool
      /\ reqs'[c].slot = None /\ reqs'[c].queue = <<>> /\ reqs'[c].more = 0
      /\ \A d \in Cells \ {c} : reqs'[d] = reqs[d]
      /\ UNCHANGED <<sscp_events, conns, capture, mcu, wild, astray, early, confused>>
  BY <1>0 DEF Connect, Silent, TypeOK, NewCell
<1>2. Once' /\ Unheard' /\ Quiet' /\ Present' /\ Opening'
  BY <1>0, <1>1 DEF Once, Unheard, Quiet, Present, Opening
<1>3. Owned'
  BY <1>0, <1>1 DEF Owned, UsedSlots
<1>4. ~astray => Fresh' /\ Blank' /\ (sscp_events => Turns' /\ ~confused')
  BY <1>0, <1>1 DEF Fresh, Blank, Turns
<1>5. QED
  BY <1>1, <1>2, <1>3, <1>4 DEF OrderInv

\* cgiSSCPHandleRequest for a new request.
LEMMA RequestOrder ==
  ASSUME OneBuffer, IInv, OrderInv, NEW c \in Cells, NEW more \in MoreChunks,
         Request(c, more)
  PROVE  OrderInv'
<1> USE HttpAssumption
<1>0. /\ TypeOK /\ Attached /\ UsedSlots /\ reqs[c] \in Requests
      /\ Once /\ Unheard /\ Quiet /\ Owned /\ Present /\ Opening
      /\ ~astray => Fresh /\ Blank /\ (sscp_events => Turns /\ ~confused)
      /\ None \notin Slots /\ more = 0
  BY DEF IInv, OrderInv, OneBuffer, TypeOK, Slots
<1>1. /\ reqs[c].pool /\ ~reqs[c].parsed /\ reqs[c].slot = None /\ FirstCall(c, more)
      /\ UNCHANGED <<sscp_events, wild, astray, early>>
  BY <1>0 DEF Request, Attached
<1>2. \A t \in Slots : conns[t].used /\ ~conns[t].gone => conns[t].conn # c
  BY <1>0, <1>1 DEF Owned
<1>3. CASE {s \in Slots : ~conns[s].used} = {}
  <2> DEFINE q == httpdUnbufferedSend(reqs[c], 0)
             r == [q EXCEPT !.parsed = TRUE, !.discon = TRUE, !.more = more]
  <2>1. /\ reqs' = [reqs EXCEPT ![c] = r]
        /\ UNCHANGED <<conns, capture, mcu, confused>>
    BY <1>1, <1>3 DEF FirstCall, Silent
  <2>2. r.pool /\ r.parsed /\ r.slot = None /\ r.more = 0
    <3>1. q \in Requests /\ q.pool /\ q.slot = None
      BY <1>0, <1>1, SendKeeps
    <3> HIDE DEF q
    <3>2. QED
      BY <1>0, <3>1 DEF Requests
  <2> HIDE DEF r
  <2>3. reqs'[c] = r /\ \A d \in Cells \ {c} : reqs'[d] = reqs[d]
    BY <1>0, <2>1 DEF TypeOK
  <2>4. Once' /\ Unheard' /\ Quiet' /\ Present' /\ Opening'
    BY <1>0, <1>1, <2>1, <2>2, <2>3 DEF Once, Unheard, Quiet, Present, Opening
  <2>5. Owned'
    BY <1>0, <1>1, <1>2, <2>1, <2>2, <2>3 DEF Owned, UsedSlots
  <2>6. ~astray => Fresh' /\ Blank' /\ (sscp_events => Turns' /\ ~confused')
    BY <1>0, <1>1, <2>1, <2>2, <2>3 DEF Fresh, Blank, Turns
  <2>7. QED
    BY <1>1, <2>4, <2>5, <2>6 DEF OrderInv
<1>4. ASSUME NEW s \in Slots, ~conns[s].used,
             reqs' = [reqs EXCEPT ![c].parsed = TRUE, ![c].slot = s, ![c].more = more],
             conns' = [conns EXCEPT ![s] =
                [NewSlot(c) EXCEPT !.flags = IF sscp_events THEN {} ELSE @]],
             IF sscp_events THEN Tell("G", s, "asked") ELSE Silent,
             capture' = IF capture.slot = s THEN [capture EXCEPT !.stale = TRUE] ELSE capture
      PROVE  OrderInv'
  <2>1. /\ reqs'[c].pool /\ reqs'[c].parsed /\ reqs'[c].slot = s /\ reqs'[c].more = 0
        /\ reqs'[c].queue = reqs[c].queue
        /\ \A d \in Cells \ {c} : reqs'[d] = reqs[d]
    BY <1>0, <1>1, <1>4 DEF TypeOK, Requests
  <2>2. /\ conns'[s].used /\ conns'[s].conn = c /\ ~conns'[s].gone
        /\ conns'[s].settled = 0
        /\ conns'[s].flags = IF sscp_events THEN {} ELSE {"INIT"}
        /\ \A t \in Slots \ {s} : conns'[t] = conns[t]
    BY <1>0, <1>4 DEF TypeOK, NewSlot
  <2>3. /\ capture'.slot = capture.slot
        /\ capture.slot = s => capture'.stale
        /\ capture.stale => capture'.stale
    BY <1>0, <1>4 DEF TypeOK, Captures
  <2>4. mcu[s] = "unknown"
    BY <1>0, <1>4 DEF Unheard
  <2>5. /\ \A t \in Slots \ {s} : mcu'[t] = mcu[t]
        /\ mcu'[s] = IF sscp_events THEN "asked" ELSE "unknown"
        /\ confused' = confused
    BY <1>0, <1>4, <2>4 DEF Tell, Silent, TypeOK
  <2>6. \A d \in Cells : reqs[d].slot # None => reqs[d].slot # s /\ reqs[d].slot \in Slots
    BY <1>0, <1>4 DEF Attached, TypeOK, Requests
  <2>7. Once' /\ Unheard' /\ Quiet' /\ Opening'
    BY <1>0, <1>1, <2>1, <2>2, <2>3, <2>5 DEF Once, Unheard, Quiet, Opening
  <2>8. Present'
    BY <1>0, <2>1, <2>2, <2>6 DEF Present
  <2>9. Owned'
    BY <1>0, <1>2, <2>1, <2>2 DEF Owned, UsedSlots
  <2>10. ASSUME ~astray PROVE Fresh' /\ Blank' /\ (sscp_events => Turns' /\ ~confused')
    <3>1. reqs[c].queue = <<>>
      BY <1>0, <1>1, <2>10 DEF Fresh
    <3>2. QED
      BY <1>0, <1>1, <2>1, <2>2, <2>5, <2>6, <2>10, <3>1 DEF Fresh, Blank, Turns
  <2>11. QED
    BY <1>1, <2>7, <2>8, <2>9, <2>10 DEF OrderInv
<1>5. QED
  BY <1>1, <1>3, <1>4 DEF FirstCall

\* httpdDisconCb and httpdReconCb
LEMMA DisconnectOrder ==
  ASSUME IInv, OrderInv, NEW c \in Cells, NEW flag \in {"TERM", "FAIL"},
         NEW kind \in {"X", "E"}, Disconnect(c, flag, kind)
  PROVE  OrderInv'
<1> USE HttpAssumption
<1> DEFINE s == reqs[c].slot
           left == [t \in Slots |-> IF conns[t].conn = c
                                      THEN [conns[t] EXCEPT !.gone = TRUE] ELSE conns[t]]
<1>0. /\ TypeOK /\ Attached /\ UsedSlots /\ s \in Slots \cup {None}
      /\ Once /\ Unheard /\ Quiet /\ Owned /\ Present /\ Opening
      /\ ~astray => Fresh /\ Blank /\ (sscp_events => Turns /\ ~confused)
      /\ None \notin Slots
      /\ conns \in [Slots -> Connections] /\ capture \in Captures
  BY DEF IInv, OrderInv, TypeOK, Requests, Slots
<1>1. /\ left \in [Slots -> Connections]
      /\ \A t \in Slots : /\ left[t].used = conns[t].used /\ left[t].conn = conns[t].conn
                          /\ left[t].flags = conns[t].flags
                          /\ left[t].settled = conns[t].settled
                          /\ left[t].gone <=> (conns[t].gone \/ conns[t].conn = c)
  <2>1. ASSUME NEW k \in Connections
        PROVE  LET g == [k EXCEPT !.gone = TRUE]
               IN /\ g \in Connections /\ g.used = k.used /\ g.conn = k.conn
                  /\ g.flags = k.flags /\ g.settled = k.settled /\ g.gone = TRUE
                  /\ k.gone \in BOOLEAN
    BY DEF Connections
  <2>2. QED
    BY <1>0, <2>1
<1>2. /\ UNCHANGED <<sscp_events, capture, wild, astray, early>>
      /\ reqs' = [(IF sscp_events /\ s # None THEN Detached(s) ELSE reqs)
                     EXCEPT ![c] = FreeCell]
      /\ \/ s = None /\ conns' = left /\ Silent
         \/ /\ s # None
            /\ conns' = IF sscp_events THEN Closed(left, s)
                        ELSE [left EXCEPT ![s].flags = @ \cup {flag}]
            /\ IF sscp_events THEN Tell(kind, s, "unknown") ELSE Silent
  BY Zenon DEF Disconnect
<1>3. s # None => conns[s].used /\ conns[s].conn = c
  BY <1>0 DEF Attached
<1>4. /\ reqs'[c] = FreeCell
      /\ \A d \in Cells \ {c} : reqs'[d] = reqs[d]
  <2>1. CASE sscp_events /\ s # None
    <3>1. Detached(s) = [reqs EXCEPT ![c].slot = None]
      BY <1>3, <2>1 DEF Detached
    <3>2. QED
      BY <1>0, <1>2, <2>1, <3>1 DEF TypeOK
  <2>2. CASE ~(sscp_events /\ s # None)
    BY <1>0, <1>2, <2>2 DEF TypeOK
  <2>3. QED
    BY <2>1, <2>2
<1>5. ~FreeCell.pool /\ FreeCell.slot = None /\ FreeCell.queue = <<>> /\ FreeCell.more = 0
  BY DEF FreeCell, NewCell
<1>6. \A d \in Cells \ {c} : reqs[d].slot # None =>
        reqs[d].slot # s /\ reqs[d].slot \in Slots /\ conns[reqs[d].slot].conn = d
  BY <1>0, <1>3 DEF Attached, TypeOK, Requests
<1> HIDE DEF left
<1>7. /\ \A t \in Slots \ {s} : conns'[t] = left[t] /\ mcu'[t] = mcu[t]
      /\ s # None /\ sscp_events => /\ ~conns'[s].used /\ mcu'[s] = "unknown"
                                   /\ (confused' = confused \/ mcu[s] = "unknown")
      /\ s # None /\ ~sscp_events => /\ conns'[s].used /\ conns'[s].conn = c /\ conns'[s].gone
                                    /\ conns'[s].flags = conns[s].flags \cup {flag}
                                    /\ mcu'[s] = mcu[s] /\ confused' = confused
      /\ s = None => confused' = confused
  <2>1. CASE s = None
    BY <1>0, <1>2, <2>1 DEF Silent
  <2>2. CASE s # None /\ sscp_events
    <3>1. conns' = Closed(left, s) /\ Tell(kind, s, "unknown")
      BY <1>2, <2>2
    <3>2. ~conns'[s].used /\ \A t \in Slots \ {s} : conns'[t] = left[t]
      BY <1>0, <1>1, <2>2, <3>1, ClosedSlot
    <3>3. /\ \A t \in Slots \ {s} : mcu'[t] = mcu[t]
          /\ mcu'[s] = "unknown"
          /\ (confused' = confused \/ mcu[s] = "unknown")
      BY <1>0, <2>2, <3>1 DEF Tell, TypeOK
    <3>4. QED
      BY <2>2, <3>2, <3>3
  <2>3. CASE s # None /\ ~sscp_events
    <3>1. conns' = [left EXCEPT ![s].flags = @ \cup {flag}] /\ Silent
      BY <1>2, <2>3
    <3>2. /\ \A t \in Slots \ {s} : conns'[t] = left[t]
          /\ conns'[s] = [left[s] EXCEPT !.flags = @ \cup {flag}]
      BY <1>0, <1>1, <2>3, <3>1
    <3>3. left[s] \in Connections
      BY <1>0, <1>1, <2>3
    <3>4. /\ conns'[s].used /\ conns'[s].conn = c /\ conns'[s].gone
          /\ conns'[s].flags = conns[s].flags \cup {flag}
      BY <1>0, <1>1, <1>3, <2>3, <3>2, <3>3 DEF Connections
    <3>5. QED
      BY <2>3, <3>1, <3>2, <3>4 DEF Silent
  <2>4. QED
    BY <2>1, <2>2, <2>3
<1> HIDE DEF s
<1>a. \A t \in Slots \ {s} :
        /\ conns'[t].used = conns[t].used /\ conns'[t].conn = conns[t].conn
        /\ conns'[t].flags = conns[t].flags
        /\ conns'[t].gone <=> (conns[t].gone \/ conns[t].conn = c)
  BY <1>1, <1>7
<1>8. ASSUME NEW t \in Slots, conns'[t].used, ~conns'[t].gone
      PROVE  /\ conns[t].used /\ ~conns[t].gone
             /\ conns'[t].conn = conns[t].conn /\ conns[t].conn # c
  <2>1. t # s
    BY <1>0, <1>7, <1>8
  <2>2. QED
    BY <1>a, <1>8, <2>1
<1>9. Once' /\ Unheard'
  BY <1>0, <1>3, <1>4, <1>5, <1>7, <1>a DEF Once, Unheard
<1>10. Quiet' /\ Opening'
  BY <1>0, <1>2, <1>3, <1>7, <1>a DEF Quiet, Opening
<1>11. Owned'
  BY <1>0, <1>4, <1>8 DEF Owned, UsedSlots
<1>12. Present'
  BY <1>0, <1>1, <1>4, <1>5, <1>6, <1>7 DEF Present
<1>13. ASSUME ~astray PROVE Fresh' /\ Blank' /\ (sscp_events => Turns' /\ ~confused')
  <2>1. Fresh'
    BY <1>0, <1>4, <1>5, <1>13 DEF Fresh
  <2>2. Blank'
    BY <1>0, <1>1, <1>4, <1>5, <1>6, <1>7, <1>13 DEF Blank
  <2>3. sscp_events => Turns' /\ ~confused'
    BY <1>0, <1>4, <1>5, <1>6, <1>7, <1>13 DEF Turns, s
  <2>4. QED
    BY <2>1, <2>2, <2>3
<1>14. QED
  BY <1>2, <1>9, <1>10, <1>11, <1>12, <1>13 DEF OrderInv

\* Nothing but wild changes when freed memory is used.
LEMMA UseFreedOrder == ASSUME OrderInv, UseFreed PROVE OrderInv'
BY DEF OrderInv, UseFreed, Silent, Once, Unheard, Quiet, Owned, Present, Opening, Fresh,
       Blank, Turns

\* What is known of a handle that is not in use is nothing already.
LEMMA RefusedOrder ==
  ASSUME TypeOK, OrderInv, NEW s \in Slots, Refused(s)
  PROVE  OrderInv'
<1>1. mcu' = mcu /\ UNCHANGED <<sscp_events, conns, reqs, capture, astray, confused>>
  BY DEF OrderInv, Unheard, Refused, TypeOK
<1>2. QED
  BY <1>1 DEF OrderInv, Once, Unheard, Quiet, Owned, Present, Opening, Fresh, Blank, Turns

\* A payload that came for slot s, which was now: what PayloadIn changes.
Came(s, n, reply, stale, now) ==
  LET c == now.conn
      q == httpdUnbufferedSend(reqs[c], IF reply /\ n > ReplyRoom THEN 0 ELSE n)
  IN /\ reqs'[c] = q
     /\ q.pool /\ q.parsed = reqs[c].parsed /\ q.slot = reqs[c].slot
     /\ q.more = reqs[c].more
     /\ \A d \in Cells \ {c} : reqs'[d] = reqs[d]
     /\ \A t \in Slots \ {s} : conns'[t] = conns[t] /\ mcu'[t] = mcu[t]
     /\ conns'[s].used = now.used
     /\ now.used => /\ conns'[s].conn = c /\ conns'[s].gone = now.gone
                    /\ conns'[s].flags = now.flags \ {TXFULL}
                    /\ conns'[s].count = n
                    /\ conns'[s].settled = Settled(now, Dropped(reqs[c], n, reply))
                    /\ conns'[s].txIndex = now.txIndex /\ conns'[s].txCount = now.txCount
     /\ capture' = NoCapture
     /\ astray' = IF stale \/ now.gone \/ ~now.used THEN TRUE ELSE astray
     /\ mcu'[s] = IF stale \/ ~now.used THEN mcu[s] ELSE "sent"
     /\ UNCHANGED <<sscp_events, wild, early, confused>>

LEMMA PayloadInEffect ==
  ASSUME TypeOK, NEW s \in Slots, NEW n \in Nat, NEW reply \in BOOLEAN,
         NEW stale \in BOOLEAN, NEW now \in Connections,
         now.conn = conns[s].conn, now.conn \in Cells,
         ~Dangling(s), PayloadIn(s, n, reply, stale, now)
  PROVE  Came(s, n, reply, stale, now)
<1> DEFINE sent == IF reply /\ n > ReplyRoom THEN 0 ELSE n
           q == httpdUnbufferedSend(reqs[now.conn], sent)
           settled == Settled(now, Dropped(reqs[now.conn], n, reply))
           kept == [now EXCEPT !.count = n, !.flags = @ \ {TXFULL}, !.settled = settled]
           slot == IF now.used THEN kept ELSE UnusedSlot
<1>0. /\ reqs \in [Cells -> Requests] /\ reqs[now.conn] \in Requests
      /\ conns \in [Slots -> Connections] /\ reqs[now.conn].pool
      /\ mcu \in [Slots -> {"unknown", "asked", "sent", "ready"}]
      /\ sent \in Nat
  BY DEF TypeOK, Dangling
<1>1. /\ reqs' = [reqs EXCEPT ![now.conn] = q]
      /\ conns' = [conns EXCEPT ![s] = slot]
      /\ capture' = NoCapture
      /\ astray' = IF stale \/ now.gone \/ ~now.used THEN TRUE ELSE astray
      /\ mcu' = IF stale \/ ~now.used THEN mcu ELSE [mcu EXCEPT ![s] = "sent"]
      /\ UNCHANGED <<sscp_events, wild, early, confused>>
  BY DEF PayloadIn
<1>2. /\ q.pool /\ q.parsed = reqs[now.conn].parsed /\ q.slot = reqs[now.conn].slot
      /\ q.more = reqs[now.conn].more
  <2> HIDE DEF sent
  <2>1. QED
    BY <1>0, SendKeeps
<1>3. /\ kept.used = now.used /\ kept.conn = now.conn /\ kept.gone = now.gone
      /\ kept.flags = now.flags \ {TXFULL} /\ kept.count = n
      /\ kept.settled = settled
      /\ kept.txIndex = now.txIndex /\ kept.txCount = now.txCount
  <2> HIDE DEF settled
  <2>1. QED
    BY DEF Connections
<1> HIDE DEF q, kept
<1>4. reqs'[now.conn] = q /\ \A d \in Cells \ {now.conn} : reqs'[d] = reqs[d]
  BY <1>0, <1>1
<1>5. conns'[s] = slot /\ \A t \in Slots \ {s} : conns'[t] = conns[t]
  BY <1>0, <1>1
<1>6. /\ slot.used = now.used
      /\ now.used => slot = kept
  BY <1>3 DEF UnusedSlot, NewSlot, Connections
<1>7. /\ \A t \in Slots \ {s} : mcu'[t] = mcu[t]
      /\ mcu'[s] = IF stale \/ ~now.used THEN mcu[s] ELSE "sent"
  BY <1>0, <1>1
<1> HIDE DEF slot
<1>8. QED
  BY <1>1, <1>2, <1>3, <1>4, <1>5, <1>6, <1>7 DEF Came, q

\* reply_cb and send_cb
LEMMA PayloadInOrder ==
  ASSUME IInv, OrderInv, NEW s \in Slots, NEW n \in Nat, NEW reply \in BOOLEAN,
         NEW stale \in BOOLEAN, NEW now \in Connections,
         now.used = conns[s].used, now.conn = conns[s].conn, now.flags = conns[s].flags,
         now.gone = conns[s].gone, now.settled = conns[s].settled, now.conn \in Cells,
         capture.slot \in {s, None},
         now.used /\ ~stale => "INIT" \notin now.flags,
         PayloadIn(s, n, reply, stale, now)
  PROVE  OrderInv'
<1> USE HttpAssumption
<1> DEFINE c == now.conn
<1>0. /\ TypeOK /\ Attached /\ UsedSlots /\ None \notin Slots
      /\ Once /\ Unheard /\ Quiet /\ Owned /\ Present /\ Opening
      /\ ~astray => Fresh /\ Blank /\ (sscp_events => Turns /\ ~confused)
      /\ \A d \in Cells : reqs[d].slot \in Slots \cup {None}
      /\ now.gone \in BOOLEAN /\ now.used \in BOOLEAN /\ stale \in BOOLEAN
  <2>1. TypeOK /\ Attached /\ UsedSlots
    BY DEF IInv
  <2>2. /\ Once /\ Unheard /\ Quiet /\ Owned /\ Present /\ Opening
        /\ ~astray => Fresh /\ Blank /\ (sscp_events => Turns /\ ~confused)
    BY DEF OrderInv
  <2>3. None \notin Slots
    BY DEF Slots
  <2>4. \A d \in Cells : reqs[d].slot \in Slots \cup {None}
    BY <2>1 DEF TypeOK, Requests
  <2>5. now.gone \in BOOLEAN /\ now.used \in BOOLEAN
    BY DEF Connections
  <2>6. QED
    BY <2>1, <2>2, <2>3, <2>4, <2>5
<1>1. CASE UseFreed
  BY <1>1, UseFreedOrder
<1>2. CASE ~UseFreed
  <2>1. ~Dangling(s)
    BY <1>2 DEF PayloadIn
  <2>2. Came(s, n, reply, stale, now)
    BY <1>0, <2>1, PayloadInEffect
  <2>3. /\ reqs'[c].pool /\ reqs'[c].parsed = reqs[c].parsed
        /\ reqs'[c].slot = reqs[c].slot /\ reqs'[c].more = reqs[c].more
        /\ \A d \in Cells \ {c} : reqs'[d] = reqs[d]
        /\ \A t \in Slots \ {s} : conns'[t] = conns[t] /\ mcu'[t] = mcu[t]
        /\ conns'[s].used = conns[s].used
        /\ now.used => /\ conns'[s].conn = c /\ conns'[s].gone = conns[s].gone
                       /\ conns'[s].flags = conns[s].flags \ {TXFULL}
        /\ capture'.slot = None
        /\ astray' = IF stale \/ now.gone \/ ~now.used THEN TRUE ELSE astray
        /\ mcu'[s] = IF stale \/ ~now.used THEN mcu[s] ELSE "sent"
        /\ UNCHANGED <<sscp_events, wild, early, confused>>
    BY <2>2 DEF Came, NoCapture
  <2> HIDE DEF c
  <2>4. c = conns[s].conn /\ c \in Cells
    BY DEF c
  <2>5. Once' /\ Unheard'
    BY <1>0, <2>3, <2>4 DEF Once, Unheard
  <2>6. Quiet' /\ Opening'
    BY <1>0, <2>3 DEF Quiet, Opening
  <2>7. Owned'
    BY <1>0, <2>3, <2>4 DEF Owned, UsedSlots
  <2>8. Present'
    <3>1. \A d \in Cells : reqs'[d].slot = reqs[d].slot
      BY <2>3
    <3>2. \A d \in Cells : reqs[d].slot # None => conns[reqs[d].slot].used
      BY <1>0 DEF Attached
    <3>3. QED
      BY <1>0, <2>3, <3>1, <3>2 DEF Present
  <2>9. ASSUME ~astray'
        PROVE  Fresh' /\ Blank' /\ (sscp_events' => Turns' /\ ~confused')
    <3>1. /\ ~astray /\ ~stale /\ conns[s].used /\ ~conns[s].gone /\ mcu'[s] = "sent"
          /\ now.used
      BY <1>0, <2>3, <2>9
    <3>2. reqs[c].parsed /\ reqs[c].slot \in {s, None}
      BY <1>0, <2>4, <3>1 DEF Owned
    <3>3. Fresh'
      <4>1. Fresh
        BY <1>0, <3>1
      <4>2. reqs'[c].parsed
        BY <2>3, <3>2
      <4>3. \A d \in Cells : d # c => reqs'[d] = reqs[d]
        BY <2>3
      <4>4. QED
        BY <4>1, <4>2, <4>3 DEF Fresh
    <3>4. \A d \in Cells : reqs[d].slot # None /\ reqs[d].slot # s =>
            reqs'[d] = reqs[d] /\ reqs[d].slot \in Slots
      BY <1>0, <2>3, <3>2
    <3>5. \A d \in Cells : reqs'[d].slot = reqs[d].slot
      BY <2>3
    <3>6. Blank'
      BY <1>0, <2>3, <3>1, <3>4, <3>5 DEF Blank
    <3>7. sscp_events' => Turns' /\ ~confused'
      BY <1>0, <2>3, <3>1, <3>4, <3>5 DEF Turns
    <3>8. QED
      BY <3>3, <3>6, <3>7
  <2>10. QED
    BY <2>5, <2>6, <2>7, <2>8, <2>9 DEF OrderInv
<1>3. QED
  BY <1>1, <1>2

\* A step that changes no more of the slots than counters and, for the slot of the
\* payload that is captured from now on, TXFULL.
LEMMA QuietOrder ==
  ASSUME IInv, OrderInv, NEW s \in Slots, "INIT" \notin conns[s].flags,
         \A t \in Slots : /\ conns'[t].used = conns[t].used /\ conns'[t].conn = conns[t].conn
                          /\ conns'[t].gone = conns[t].gone
                          /\ conns'[t].settled = conns[t].settled
                          /\ t # s => conns'[t].flags = conns[t].flags,
         capture = NoCapture,
         \/ capture' = capture /\ conns'[s].flags = conns[s].flags
         \/ capture'.slot = s /\ conns'[s].flags = conns[s].flags \cup {TXFULL},
         UNCHANGED <<sscp_events, reqs, mcu, wild, astray, early, confused>>
  PROVE  OrderInv'
<1>0. /\ TypeOK /\ Attached /\ UsedSlots /\ None \notin Slots
      /\ Once /\ Unheard /\ Quiet /\ Owned /\ Present /\ Opening
      /\ ~astray => Fresh /\ Blank /\ (sscp_events => Turns /\ ~confused)
      /\ \A d \in Cells : reqs[d].slot \in Slots \cup {None}
      /\ capture.slot = None
  BY HttpAssumption DEF IInv, OrderInv, TypeOK, Requests, Slots, NoCapture
<1>1. Once' /\ Unheard' /\ Owned' /\ Present'
  BY <1>0 DEF Once, Unheard, Owned, Present
<1>2. Quiet'
  BY <1>0 DEF Quiet
<1>3. Opening'
  BY <1>0 DEF Opening, TXFULL
<1>4. ~astray => Fresh' /\ Blank' /\ (sscp_events => Turns' /\ ~confused')
  BY <1>0 DEF Fresh, Blank, Turns
<1>5. QED
  BY <1>1, <1>2, <1>3, <1>4 DEF OrderInv

\* sscp_capturePayload
LEMMA CaptureOrder ==
  ASSUME IInv, OrderInv, Ready, NEW s \in Slots, NEW n \in Nat, NEW reply \in BOOLEAN,
         NEW now \in Connections,
         now.used = conns[s].used, now.conn = conns[s].conn, now.flags = conns[s].flags,
         now.gone = conns[s].gone, now.settled = conns[s].settled,
         "INIT" \notin now.flags, Capture(s, n, reply, now)
  PROVE  OrderInv'
<1> DEFINE full == [now EXCEPT !.flags = @ \cup {TXFULL}]
<1>0. conns \in [Slots -> Connections]
  BY DEF IInv, TypeOK
<1>1. /\ capture' = [slot |-> s, size |-> n, reply |-> reply, stale |-> FALSE]
      /\ conns' = [conns EXCEPT ![s] = full]
      /\ UNCHANGED <<sscp_events, reqs, mcu, confused, wild, astray, early>>
  BY DEF Capture, Silent
<1>2. /\ full.used = conns[s].used /\ full.conn = conns[s].conn /\ full.gone = conns[s].gone
      /\ full.settled = conns[s].settled /\ full.flags = conns[s].flags \cup {TXFULL}
  BY DEF Connections
<1> HIDE DEF full
<1>3. conns'[s] = full /\ \A t \in Slots \ {s} : conns'[t] = conns[t]
  BY <1>0, <1>1
<1>4. QED
  BY <1>1, <1>2, <1>3, QuietOrder DEF Ready

\* http_do_reply
LEMMA ReplyOrder ==
  ASSUME IInv, OrderInv, NEW s \in Slots, NEW total \in Totals,
         NEW n \in Sizes \cup {total},
         http_do_reply(s, total, n)
  PROVE  OrderInv'
<1> DEFINE now == [conns[s] EXCEPT !.txCount = total, !.txIndex = 0]
<1>0. /\ TypeOK /\ UsedSlots /\ Ready /\ conns[s] \in Connections
      /\ conns \in [Slots -> Connections]
      /\ total \in Nat /\ n \in Nat /\ mcu[s] = "asked"
      /\ capture.slot = None
  BY HttpAssumption DEF IInv, TypeOK, http_do_reply, Ready, NoCapture
<1>1. /\ now \in Connections /\ now.used = conns[s].used
      /\ now.conn = conns[s].conn /\ now.flags = conns[s].flags
      /\ now.gone = conns[s].gone /\ now.settled = conns[s].settled
  BY <1>0 DEF Connections
<1>2. \/ Refused(s)
      \/ conns[s].used /\ Dangling(s) /\ UseFreed
      \/ /\ conns[s].used
         /\ \/ PayloadIn(s, 0, TRUE, FALSE, now)
            \/ Capture(s, n, TRUE, now)
            \/ /\ conns' = [conns EXCEPT ![s] = now]
               /\ Silent
               /\ UNCHANGED <<sscp_events, reqs, capture, wild, astray, early>>
  BY Zenon DEF http_do_reply
<1>3. conns[s].used => now.conn \in Cells /\ "INIT" \notin conns[s].flags
  BY <1>0, <1>1 DEF UsedSlots, OrderInv, Opening
<1> HIDE DEF now
<1>4. CASE Refused(s)
  BY <1>0, <1>4, RefusedOrder
<1>5. CASE UseFreed
  BY <1>5, UseFreedOrder
<1>6. CASE conns[s].used /\ PayloadIn(s, 0, TRUE, FALSE, now)
  BY <1>0, <1>1, <1>3, <1>6, PayloadInOrder
<1>7. CASE conns[s].used /\ Capture(s, n, TRUE, now)
  BY <1>0, <1>1, <1>3, <1>7, CaptureOrder
<1>8. CASE /\ conns[s].used
           /\ conns' = [conns EXCEPT ![s] = now]
           /\ Silent
           /\ UNCHANGED <<sscp_events, reqs, capture, wild, astray, early>>
  <2>1. conns'[s] = now /\ \A t \in Slots \ {s} : conns'[t] = conns[t]
    BY <1>0, <1>8
  <2>2. QED
    BY <1>0, <1>1, <1>3, <1>8, <2>1, QuietOrder DEF Ready, Silent
<1>9. QED
  BY <1>2, <1>4, <1>5, <1>6, <1>7, <1>8

\* cmds_do_send
LEMMA SendOrder ==
  ASSUME IInv, OrderInv, NEW s \in Slots, NEW n \in Sizes, cmds_do_send(s, n)
  PROVE  OrderInv'
<1>1. /\ Ready /\ conns[s] \in Connections /\ n \in Nat /\ mcu[s] \in {"ready", "sent"}
      /\ TypeOK
  BY HttpAssumption DEF IInv, TypeOK, cmds_do_send
<1>2. Refused(s) \/ (conns[s].used /\ Capture(s, n, FALSE, conns[s]))
  BY DEF cmds_do_send
<1>3. conns[s].used => "INIT" \notin conns[s].flags
  BY <1>1 DEF OrderInv, Opening
<1>4. QED
  BY <1>1, <1>2, <1>3, RefusedOrder, CaptureOrder

LEMMA PayloadDoneOrder ==
  ASSUME IInv, OrderInv, PayloadDone
  PROVE  OrderInv'
<1>1. /\ capture.slot \in Slots /\ capture.size \in Nat /\ capture.reply \in BOOLEAN
      /\ capture.stale \in BOOLEAN /\ conns[capture.slot] \in Connections
      /\ conns[capture.slot].conn \in Cells
  BY DEF IInv, TypeOK, UsedSlots, PayloadDone, Ready, Captures
<1>2. PayloadIn(capture.slot, capture.size, capture.reply, capture.stale, conns[capture.slot])
  BY DEF PayloadDone
<1>3. conns[capture.slot].used /\ ~capture.stale => "INIT" \notin conns[capture.slot].flags
  BY <1>1 DEF OrderInv, Opening
<1>4. QED
  BY <1>1, <1>2, <1>3, PayloadInOrder

\* A handle is closed together with its request's pointer to it.
LEMMA DetachOrder ==
  ASSUME IInv, OrderInv, NEW s \in Slots, conns[s].used,
         reqs' = Detached(s), conns' = Closed(conns, s),
         mcu' = [mcu EXCEPT ![s] = "unknown"], sscp_events => confused' = confused,
         UNCHANGED <<sscp_events, capture, wild, astray, early>>
  PROVE  OrderInv'
<1>0. /\ TypeOK /\ Attached /\ UsedSlots /\ None \notin Slots
      /\ Once /\ Unheard /\ Quiet /\ Owned /\ Present /\ Opening
      /\ ~astray => Fresh /\ Blank /\ (sscp_events => Turns /\ ~confused)
      /\ \A d \in Cells : reqs[d].slot \in Slots \cup {None}
      /\ conns \in [Slots -> Connections] /\ conns[s].conn \in Cells
      /\ mcu \in [Slots -> {"unknown", "asked", "sent", "ready"}]
      /\ capture \in Captures
  BY HttpAssumption DEF IInv, OrderInv, TypeOK, Requests, Slots, UsedSlots
<1> DEFINE c == conns[s].conn
<1>1. /\ reqs'[c].slot = None /\ reqs'[c].queue = reqs[c].queue
      /\ reqs'[c].pool = reqs[c].pool /\ reqs'[c].parsed = reqs[c].parsed
      /\ reqs'[c].more = reqs[c].more
      /\ \A d \in Cells \ {c} : reqs'[d] = reqs[d]
  BY <1>0 DEF Detached, TypeOK, Requests
<1>2. /\ ~conns'[s].used
      /\ \A t \in Slots \ {s} : conns'[t] = conns[t] /\ mcu'[t] = mcu[t]
      /\ mcu'[s] = "unknown"
  BY <1>0, ClosedSlot
<1>3. \A d \in Cells \ {c} : reqs[d].slot # s
  BY <1>0 DEF Attached
<1> HIDE DEF c
<1>4. Once' /\ Unheard' /\ Quiet' /\ Opening'
  BY <1>0, <1>1, <1>2 DEF Once, Unheard, Quiet, Opening
<1>5. Owned'
  BY <1>0, <1>1, <1>2 DEF Owned, UsedSlots
<1>6. Present'
  BY <1>0, <1>1, <1>2, <1>3 DEF Present
<1>7. ~astray => Fresh' /\ Blank' /\ (sscp_events => Turns' /\ ~confused')
  BY <1>0, <1>1, <1>2, <1>3 DEF Fresh, Blank, Turns
<1>8. QED
  BY <1>4, <1>5, <1>6, <1>7 DEF OrderInv

\* cmds_do_close
LEMMA CloseOrder ==
  ASSUME IInv, OrderInv, NEW s \in Slots, cmds_do_close(s)
  PROVE  OrderInv'
<1>1. CASE Refused(s)
  BY <1>1, RefusedOrder DEF IInv
<1>2. CASE UseFreed
  BY <1>2, UseFreedOrder
<1>3. CASE /\ conns[s].used
           /\ reqs' = Detached(s)
           /\ conns' = Closed(conns, s)
           /\ mcu' = [mcu EXCEPT ![s] = "unknown"]
           /\ UNCHANGED <<sscp_events, capture, wild, astray, early, confused>>
  BY <1>3, DetachOrder
<1>4. QED
  BY Zenon, <1>1, <1>2, <1>3 DEF cmds_do_close

\* With events sent at once a poll has nothing to deliver.
LEMMA PollsInVain ==
  ASSUME IInv, OrderInv, NEW s \in Slots, NEW mask, cmds_do_poll(s, mask)
  PROVE  ~sscp_events
<1>1. conns[s].used /\ Pending(s) # "none" /\ capture.slot = None
  BY DEF cmds_do_poll, Ready, NoCapture
<1>2. conns[s].flags # {}
  BY <1>1 DEF Pending
<1>3. None \notin Slots
  BY HttpAssumption DEF Slots
<1>4. QED
  BY <1>1, <1>2, <1>3 DEF OrderInv, Quiet

\* cmds_do_poll
LEMMA PollOrder ==
  ASSUME IInv, OrderInv, NEW s \in Slots, NEW mask, cmds_do_poll(s, mask)
  PROVE  OrderInv'
<1> DEFINE freed == "TXFREE" \in conns[s].flags
<1>0. /\ TypeOK /\ Attached /\ UsedSlots /\ None \notin Slots
      /\ Once /\ Unheard /\ Quiet /\ Owned /\ Present /\ Opening
      /\ ~astray => Fresh /\ Blank /\ (sscp_events => Turns /\ ~confused)
      /\ \A d \in Cells : reqs[d].slot \in Slots \cup {None}
      /\ conns \in [Slots -> Connections] /\ conns[s] \in Connections
      /\ mcu \in [Slots -> {"unknown", "asked", "sent", "ready"}]
      /\ capture \in Captures /\ conns[s].used /\ ~sscp_events
  <2>1. None \notin Slots
    BY HttpAssumption DEF Slots
  <2>2. conns[s].used
    BY DEF cmds_do_poll
  <2>3. ~sscp_events
    BY PollsInVain
  <2>4. TypeOK /\ Attached /\ UsedSlots
    BY DEF IInv
  <2>5. QED
    BY <2>1, <2>2, <2>3, <2>4 DEF OrderInv, TypeOK, Requests
<1>1. UNCHANGED <<sscp_events, capture, astray, early>>
  BY DEF cmds_do_poll
<1>2. \/ /\ conns' = IF freed THEN Closed(conns, s)
                     ELSE [conns EXCEPT ![s].flags = @ \ {"TXDONE"}]
         /\ reqs' = reqs
         /\ Tell("S", s, Informed(s, freed))
         /\ wild' = wild
      \/ UseFreed
      \/ /\ reqs' = Detached(s)
         /\ conns' = Closed(conns, s)
         /\ \E kind : Tell(kind, s, "unknown")
         /\ wild' = wild
      \/ /\ "INIT" \in conns[s].flags
         /\ conns' = [conns EXCEPT ![s].flags = @ \ {"INIT"}]
         /\ reqs' = reqs
         /\ Tell("G", s, "asked")
         /\ wild' = wild
  <2>1. Pending(s) = "G" => "INIT" \in conns[s].flags
    BY DEF Pending
  <2>2. QED
    BY Zenon, <2>1 DEF cmds_do_poll
<1>3. CASE freed /\ conns' = Closed(conns, s) /\ reqs' = reqs /\ mcu' = [mcu EXCEPT ![s] = "unknown"]
  <2>1. /\ ~conns'[s].used
        /\ \A t \in Slots \ {s} : conns'[t] = conns[t] /\ mcu'[t] = mcu[t]
        /\ mcu'[s] = "unknown"
    BY <1>0, <1>3, ClosedSlot
  <2>2. \A d \in Cells : reqs[d].slot # s
    BY <1>0, <1>3 DEF Attached
  <2>3. Once' /\ Unheard' /\ Quiet' /\ Opening' /\ Owned' /\ Present'
    BY <1>0, <1>1, <1>3, <2>1, <2>2 DEF Once, Unheard, Quiet, Opening, Owned, Present
  <2>4. ~astray => Fresh' /\ Blank'
    BY <1>0, <1>3, <2>1, <2>2 DEF Fresh, Blank
  <2>5. QED
    BY <1>0, <1>1, <2>3, <2>4 DEF OrderInv
<1>4. ASSUME NEW f, conns' = [conns EXCEPT ![s].flags = @ \ {f}], reqs' = reqs,
             \/ mcu' = [mcu EXCEPT ![s] = "asked"] /\ "INIT" \in conns[s].flags /\ f = "INIT"
             \/ mcu' = [mcu EXCEPT ![s] = Informed(s, FALSE)]
      PROVE  OrderInv'
  <2>1. /\ \A t \in Slots \ {s} : conns'[t] = conns[t] /\ mcu'[t] = mcu[t]
        /\ conns'[s].used = conns[s].used /\ conns'[s].conn = conns[s].conn
        /\ conns'[s].gone = conns[s].gone /\ conns'[s].settled = conns[s].settled
        /\ conns'[s].flags = conns[s].flags \ {f}
        /\ mcu'[s] \in {"unknown", "asked"} => mcu[s] \in {"unknown", "asked"}
        /\ "INIT" \in conns'[s].flags => mcu'[s] = "unknown"
    <3>1. conns'[s] = [conns[s] EXCEPT !.flags = @ \ {f}]
      BY <1>0, <1>4
    <3>2. "INIT" \in conns[s].flags => mcu[s] = "unknown"
      BY <1>0 DEF Opening
    <3>3. /\ conns'[s].used = conns[s].used /\ conns'[s].conn = conns[s].conn
          /\ conns'[s].gone = conns[s].gone /\ conns'[s].settled = conns[s].settled
          /\ conns'[s].flags = conns[s].flags \ {f}
      BY <1>0, <3>1 DEF Connections
    <3>4. \A t \in Slots \ {s} : conns'[t] = conns[t] /\ mcu'[t] = mcu[t]
      BY <1>0, <1>4
    <3>5. CASE mcu' = [mcu EXCEPT ![s] = "asked"] /\ "INIT" \in conns[s].flags /\ f = "INIT"
      BY <1>0, <3>2, <3>3, <3>4, <3>5
    <3>6. CASE mcu' = [mcu EXCEPT ![s] = Informed(s, FALSE)]
      <4>1. mcu'[s] = IF mcu[s] = "sent" THEN "ready" ELSE mcu[s]
        BY <1>0, <3>6 DEF Informed
      <4>2. QED
        BY <3>2, <3>3, <3>4, <4>1
    <3>7. QED
      BY <1>4, <3>5, <3>6
  <2>2. Once' /\ Unheard' /\ Quiet' /\ Owned' /\ Present'
    BY <1>0, <1>1, <1>4, <2>1 DEF Once, Unheard, Quiet, Owned, Present
  <2>3. Opening'
    BY <1>0, <1>1, <2>1 DEF Opening
  <2>4. ~astray => Fresh' /\ Blank'
    BY <1>0, <1>4, <2>1 DEF Fresh, Blank
  <2>5. QED
    BY <1>0, <1>1, <2>2, <2>3, <2>4 DEF OrderInv
<1>5. CASE /\ conns' = IF freed THEN Closed(conns, s)
                       ELSE [conns EXCEPT ![s].flags = @ \ {"TXDONE"}]
           /\ reqs' = reqs
           /\ Tell("S", s, Informed(s, freed))
  <2>1. CASE freed
    BY <1>3, <1>5, <2>1 DEF Tell, Informed
  <2>2. CASE ~freed
    <3>1. mcu' = [mcu EXCEPT ![s] = Informed(s, FALSE)]
      BY <1>5, <2>2 DEF Tell, Informed
    <3>2. QED
      BY <1>4, <1>5, <2>2, <3>1
  <2>3. QED
    BY <2>1, <2>2
<1>6. CASE /\ reqs' = Detached(s)
           /\ conns' = Closed(conns, s)
           /\ \E kind : Tell(kind, s, "unknown")
           /\ wild' = wild
  <2>1. mcu' = [mcu EXCEPT ![s] = "unknown"]
    BY <1>6 DEF Tell
  <2>2. QED
    BY <1>0, <1>1, <1>6, <2>1, DetachOrder
<1>7. CASE /\ "INIT" \in conns[s].flags
           /\ conns' = [conns EXCEPT ![s].flags = @ \ {"INIT"}]
           /\ reqs' = reqs
           /\ Tell("G", s, "asked")
  <2>1. mcu' = [mcu EXCEPT ![s] = "asked"]
    BY <1>7 DEF Tell
  <2>2. QED
    BY <1>4, <1>7, <2>1
<1>8. QED
  BY <1>2, <1>5, <1>6, <1>7, UseFreedOrder

\* sscp_reset
LEMMA ResetOrder ==
  ASSUME IInv, OrderInv, sscp_reset
  PROVE  OrderInv'
<1>1. CASE UseFreed
  BY <1>1, UseFreedOrder
<1>2. CASE /\ reqs' = [c \in Cells |-> IF \E s \in Slots : conns[s].used /\ conns[s].conn = c
                                       THEN [reqs[c] EXCEPT !.slot = None] ELSE reqs[c]]
           /\ conns' = [s \in Slots |-> UnusedSlot]
           /\ capture' = NoCapture
           /\ mcu' = [s \in Slots |-> "unknown"]
           /\ UNCHANGED <<sscp_events, wild, astray, early, confused>>
  <2>0. /\ TypeOK /\ Attached /\ Once /\ (~astray => Fresh) /\ (~astray /\ sscp_events => ~confused)
        /\ reqs \in [Cells -> Requests]
    BY DEF IInv, OrderInv, TypeOK
  <2>1. ASSUME NEW d \in Cells
        PROVE  /\ reqs'[d].slot = None /\ reqs'[d].more = reqs[d].more
               /\ reqs'[d].queue = reqs[d].queue
               /\ reqs'[d].pool = reqs[d].pool /\ reqs'[d].parsed = reqs[d].parsed
    <3>1. reqs'[d] \in {[reqs[d] EXCEPT !.slot = None], reqs[d]}
          /\ (reqs'[d] = reqs[d] => reqs[d].slot = None \/ reqs'[d].slot = None)
      <4>1. reqs[d].slot # None => \E s \in Slots : conns[s].used /\ conns[s].conn = d
        BY <2>0 DEF Attached, TypeOK, Requests
      <4>2. [reqs[d] EXCEPT !.slot = None].slot = None
        BY <2>0 DEF Requests
      <4>3. QED
        BY <1>2, <4>1, <4>2
    <3>2. QED
      BY <2>0, <3>1 DEF Requests
  <2>2. \A s \in Slots : ~conns'[s].used /\ mcu'[s] = "unknown"
    BY <1>2 DEF UnusedSlot, NewSlot
  <2>3. QED
    BY <1>2, <2>0, <2>1, <2>2
    DEF OrderInv, Once, Unheard, Quiet, Owned, Present, Opening, Fresh, Blank, Turns
<1>3. QED
  BY Zenon, <1>1, <1>2 DEF sscp_reset

\* Every step keeps the invariant.
LEMMA StepOrder == ASSUME OneBuffer, IInv, OrderInv, [Next]_vars PROVE OrderInv'
<1>1. ASSUME NEW c \in Cells, DisconCb(c) \/ ReconCb(c)
      PROVE  OrderInv'
  BY <1>1, DisconnectOrder DEF DisconCb, ReconCb
<1>2. ASSUME NEW c \in Cells PROVE ~PostChunk(c)
  BY DEF OrderInv, Once, PostChunk
<1>3. CASE UNCHANGED vars
  BY <1>3 DEF vars, OrderInv, Once, Unheard, Quiet, Owned, Present, Opening, Fresh, Blank, Turns
<1>4. CASE Server
  BY <1>1, <1>2, <1>4, ConnectOrder, RequestOrder, SentOrder DEF Server
<1>5. CASE Commands
  BY <1>5, ReplyOrder, SendOrder, CloseOrder, PollOrder, PayloadDoneOrder, ResetOrder
  DEF Commands
<1>6. QED
  BY <1>3, <1>4, <1>5 DEF Next

LEMMA Ordered == ASSUME OneBuffer PROVE Spec => []OrderInv
<1>1. Init => OrderInv
  <2> SUFFICES ASSUME Init PROVE OrderInv
    OBVIOUS
  <2>1. \A s \in Slots : ~conns[s].used /\ mcu[s] = "unknown"
    BY DEF Init, UnusedSlot, NewSlot
  <2>2. \A c \in Cells : reqs[c].slot = None /\ reqs[c].queue = <<>> /\ reqs[c].more = 0
    BY DEF Init, FreeCell, NewCell
  <2>3. ~confused
    BY DEF Init
  <2>4. QED
    BY <2>1, <2>2, <2>3
    DEF OrderInv, Once, Unheard, Quiet, Owned, Present, Opening, Fresh, Blank, Turns
<1>2. IInv /\ OrderInv /\ [Next]_vars => OrderInv'
  BY StepOrder
<1>3. QED
  BY <1>1, <1>2, Inductive, PTL DEF Spec

\* With events sent at once they come in order for each handle.
THEOREM InOrder == ASSUME OneBuffer PROVE Spec => []EventsInOrder
<1>1. OrderInv => EventsInOrder
  BY DEF OrderInv, EventsInOrder
<1>2. QED
  BY <1>1, Ordered, PTL

-----------------------------------------------------------------------------
(* Amounts. *)

\* b is the sum of the buffers behind the first of q: the difference of the first
\* and the last of the partial sums f.
Sums(q, b) ==
  \E f \in [1..Len(q) -> Int] :
    /\ \A i \in 2..Len(q) : f[i] = f[i - 1] + q[i]
    /\ \A i, j \in 1..Len(q) : i <= j => f[i] <= f[j]
    /\ b = IF q = <<>> THEN 0 ELSE f[Len(q)] - f[1]

Summed == \A c \in Cells : Sums(reqs[c].queue, reqs[c].backlog)

\* Slot k of a request with the buffers q, b of them behind the first: txIndex has not
\* overtaken what was confirmed, and will not when the last of them is confirmed.
Amounts(k, q, b) ==
  /\ k.txIndex <= k.settled /\ k.settled <= k.txCount
  /\ q # <<>> => \/ k.txCount <= k.settled + Head(q) + b
                 \/ k.txIndex + k.count <= k.settled + Head(q) + b
Amount(c) ==
  reqs[c].slot # None => Amounts(conns[reqs[c].slot], reqs[c].queue, reqs[c].backlog)

AmountInv ==
  /\ Summed
  /\ ~astray => ~early /\ \A c \in Cells : Amount(c)

LEMMA SumsShort == Sums(<<>>, 0) /\ \A n \in Nat : Sums(<<n>>, 0)
<1>1. Sums(<<>>, 0)
  <2> DEFINE f == [i \in 1..0 |-> 0]
  <2>1. Len(<<>>) = 0 /\ f \in [1..0 -> Int] /\ 1..0 = {} /\ 2..0 = {}
    OBVIOUS
  <2> HIDE DEF f
  <2>2. /\ f \in [1..Len(<<>>) -> Int]
        /\ \A i \in 2..Len(<<>>) : f[i] = f[i - 1] + <<>>[i]
        /\ \A i, j \in 1..Len(<<>>) : i <= j => f[i] <= f[j]
        /\ 0 = IF <<>> = <<>> THEN 0 ELSE f[Len(<<>>)] - f[1]
    BY <2>1
  <2>3. QED
    BY Zenon, <2>2 DEF Sums
<1>2. ASSUME NEW n \in Nat PROVE Sums(<<n>>, 0)
  <2> DEFINE f == [i \in 1..1 |-> 0]
  <2>1. Len(<<n>>) = 1 /\ <<n>> # <<>> /\ f \in [1..1 -> Int] /\ f[1] = 0
    OBVIOUS
  <2> HIDE DEF f
  <2>2. QED
    BY <2>1 DEF Sums
<1>3. QED
  BY <1>1, <1>2

LEMMA SumsAtLeastZero ==
  ASSUME NEW q \in Seq(Nat), NEW b \in Int, Sums(q, b)
  PROVE  b >= 0 /\ (q = <<>> => b = 0)
<1>1. PICK f \in [1..Len(q) -> Int] :
        /\ \A i, j \in 1..Len(q) : i <= j => f[i] <= f[j]
        /\ b = IF q = <<>> THEN 0 ELSE f[Len(q)] - f[1]
  BY DEF Sums
<1>2. q # <<>> => Len(q) \in 1..Len(q) /\ 1 \in 1..Len(q) /\ 1 <= Len(q)
  OBVIOUS
<1>3. QED
  BY <1>1, <1>2

LEMMA SumsAppend ==
  ASSUME NEW q \in Seq(Nat), q # <<>>, NEW b \in Int, NEW n \in Nat, Sums(q, b)
  PROVE  Sums(Append(q, n), b + n)
<1> DEFINE p == Append(q, n)
           k == Len(q)
<1>1. PICK f \in [1..k -> Int] :
        /\ \A i \in 2..k : f[i] = f[i - 1] + q[i]
        /\ \A i, j \in 1..k : i <= j => f[i] <= f[j]
        /\ b = f[k] - f[1]
  BY DEF Sums
<1> DEFINE g == [i \in 1..(k + 1) |-> IF i <= k THEN f[i] ELSE f[k] + n]
<1>2. /\ k \in Nat /\ k >= 1 /\ Len(p) = k + 1 /\ p # <<>>
      /\ \A i \in 1..k : p[i] = q[i]
      /\ p[k + 1] = n
  OBVIOUS
<1> HIDE DEF p, k
<1>3. \A i \in 1..k : f[i] \in Int /\ f[i] <= f[k]
  BY <1>1, <1>2
<1>4. /\ g \in [1..(k + 1) -> Int] /\ g[k + 1] = f[k] + n
      /\ \A i \in 1..k : g[i] = f[i]
  BY <1>2, <1>3
<1> HIDE DEF g
<1>5. ASSUME NEW i \in 2..(k + 1) PROVE g[i] = g[i - 1] + p[i]
  <2>1. CASE i \in 2..k
    <3>1. i - 1 \in 1..k /\ i \in 1..k
      BY <1>2, <2>1
    <3>2. QED
      BY <1>1, <1>2, <1>4, <2>1, <3>1
  <2>2. CASE i = k + 1
    <3>1. i - 1 = k /\ k \in 1..k
      BY <1>2, <2>2
    <3>2. QED
      BY <1>2, <1>4, <2>2, <3>1
  <2>3. QED
    BY <1>2, <2>1, <2>2
<1>6. ASSUME NEW i \in 1..(k + 1), NEW j \in 1..(k + 1), i <= j PROVE g[i] <= g[j]
  <2>1. CASE j \in 1..k
    <3>1. i \in 1..k
      BY <1>2, <1>6, <2>1
    <3>2. QED
      BY <1>1, <1>4, <1>6, <2>1, <3>1
  <2>2. CASE j = k + 1
    <3>1. g[j] = f[k] + n /\ f[k] \in Int
      BY <1>2, <1>3, <1>4, <2>2
    <3>2. i \in 1..k \/ i = k + 1
      BY <1>2
    <3>3. QED
      BY <1>3, <1>4, <2>2, <3>1, <3>2
  <2>3. QED
    BY <1>2, <2>1, <2>2
<1>7. b + n = g[k + 1] - g[1]
  BY <1>1, <1>2, <1>3, <1>4
<1>8. Sums(p, b + n)
  BY <1>2, <1>4, <1>5, <1>6, <1>7 DEF Sums
<1>9. QED
  BY <1>8 DEF p

LEMMA SumsTail ==
  ASSUME NEW q \in Seq(Nat), q # <<>>, NEW b \in Int, Sums(q, b)
  PROVE  Sums(Tail(q), IF Tail(q) = <<>> THEN b ELSE b - Head(Tail(q)))
<1> DEFINE p == Tail(q)
           k == Len(q)
<1>1. PICK f \in [1..k -> Int] :
        /\ \A i \in 2..k : f[i] = f[i - 1] + q[i]
        /\ \A i, j \in 1..k : i <= j => f[i] <= f[j]
        /\ b = f[k] - f[1]
  BY DEF Sums
<1>2. /\ k \in Nat /\ k >= 1 /\ Len(p) = k - 1 /\ p \in Seq(Nat)
      /\ (p = <<>>) <=> (k = 1)
      /\ \A i \in 1..(k - 1) : p[i] = q[i + 1]
      /\ (p # <<>> => Head(p) = p[1])
  <2>1. k \in Nat /\ k >= 1 /\ Len(p) = k - 1 /\ p \in Seq(Nat)
    OBVIOUS
  <2>2. \A i \in 1..(k - 1) : p[i] = q[i + 1]
    OBVIOUS
  <2> HIDE DEF p, k
  <2>3. (p = <<>>) <=> (k = 1)
    BY <2>1
  <2>4. p # <<>> => Head(p) = p[1]
    BY <2>1
  <2>5. QED
    BY <2>1, <2>2, <2>3, <2>4
<1>3. CASE p = <<>>
  <2>1. b = 0
    BY <1>1, <1>2, <1>3
  <2>2. QED
    BY <1>3, <2>1, SumsShort
<1>4. CASE p # <<>>
  <2> DEFINE g == [i \in 1..(k - 1) |-> f[i + 1]]
  <2>0. k >= 2 /\ \A i \in 1..(k - 1) : i + 1 \in 2..k /\ i + 1 \in 1..k /\ i \in 1..k
    BY <1>2, <1>4
  <2> HIDE DEF p, k
  <2>1. /\ g \in [1..(k - 1) -> Int]
        /\ \A i \in 1..(k - 1) : g[i] = f[i + 1]
    BY <1>1, <1>2, <2>0
  <2> HIDE DEF g
  <2>2. ASSUME NEW i \in 2..(k - 1) PROVE g[i] = g[i - 1] + p[i]
    <3>1. i \in 1..(k - 1) /\ i - 1 \in 1..(k - 1) /\ (i - 1) + 1 = i /\ i + 1 \in 2..k
          /\ (i + 1) - 1 = i
      BY <1>2
    <3>2. f[i + 1] = f[i] + q[i + 1]
      BY <1>1, <3>1
    <3>3. QED
      BY <1>2, <2>1, <3>1, <3>2
  <2>3. ASSUME NEW i \in 1..(k - 1), NEW j \in 1..(k - 1), i <= j PROVE g[i] <= g[j]
    <3>1. i + 1 \in 1..k /\ j + 1 \in 1..k /\ i + 1 <= j + 1
      BY <1>2, <2>0, <2>3
    <3>2. QED
      BY <1>1, <2>1, <3>1
  <2>4. b - p[1] = g[k - 1] - g[1]
    <3>1. 1 \in 1..(k - 1) /\ k - 1 \in 1..(k - 1) /\ 2 \in 2..k /\ (k - 1) + 1 = k
          /\ 1 \in 1..k /\ k \in 1..k /\ 2 \in 1..k
      BY <1>2, <2>0
    <3>2. g[1] = f[2] /\ g[k - 1] = f[k] /\ p[1] = q[2]
      BY <1>2, <2>1, <3>1
    <3>3. f[2] = f[1] + q[2]
      BY <1>1, <3>1
    <3>4. f[1] \in Int /\ f[2] \in Int /\ f[k] \in Int /\ q[2] \in Nat
      BY <1>1, <3>1 DEF k
    <3>5. b = f[k] - f[1]
      BY <1>1
    <3>6. PICK x, y, z, h : x = f[1] /\ y = f[2] /\ z = f[k] /\ h = q[2]
      OBVIOUS
    <3>7. x \in Int /\ z \in Int /\ h \in Nat /\ y = x + h /\ b = z - x
      BY <3>3, <3>4, <3>5, <3>6
    <3>8. b - h = z - y
      BY <3>7
    <3>9. QED
      BY <3>2, <3>6, <3>8
  <2>5. Sums(p, b - p[1])
    BY <1>2, <1>4, <2>1, <2>2, <2>3, <2>4 DEF Sums
  <2>6. QED
    BY <1>2, <1>4, <2>5 DEF p
<1>5. QED
  BY <1>3, <1>4

\* A buffer more, or one less, and the size of the backlog agree.
LEMMA SendSums ==
  ASSUME NEW r \in Requests, NEW n \in Nat, Sums(r.queue, r.backlog)
  PROVE  LET q == httpdUnbufferedSend(r, n) IN Sums(q.queue, q.backlog)
<1> DEFINE q == httpdUnbufferedSend(r, n)
<1>1. r.queue \in Seq(Nat) /\ r.backlog \in Int
  BY DEF Requests
<1>2. /\ r.queue = <<>> => q.queue = <<n>> /\ q.backlog = r.backlog
      /\ r.queue # <<>> /\ r.backlog + n <= MaxBacklog =>
           q.queue = Append(r.queue, n) /\ q.backlog = r.backlog + n
      /\ r.queue # <<>> /\ ~(r.backlog + n <= MaxBacklog) => q = r
  BY SendKeeps
<1> HIDE DEF q
<1>3. CASE r.queue = <<>>
  <2>1. r.backlog = 0
    BY <1>1, <1>3, SumsAtLeastZero
  <2>2. QED
    BY <1>2, <1>3, <2>1, SumsShort DEF q
<1>4. CASE r.queue # <<>> /\ r.backlog + n <= MaxBacklog
  <2>1. Sums(Append(r.queue, n), r.backlog + n)
    BY <1>1, <1>4, SumsAppend
  <2>2. QED
    BY <1>2, <1>4, <2>1 DEF q
<1>5. CASE r.queue # <<>> /\ ~(r.backlog + n <= MaxBacklog)
  BY <1>2, <1>5 DEF q
<1>6. QED
  BY <1>3, <1>4, <1>5

LEMMA NextSums ==
  ASSUME NEW r \in Requests, r.queue # <<>>, Sums(r.queue, r.backlog)
  PROVE  LET q == NextBuffer(r) IN Sums(q.queue, q.backlog)
<1>1. r.queue \in Seq(Nat) /\ r.backlog \in Int
  BY DEF Requests
<1>2. QED
  BY <1>1, NextBufferKeeps, SumsTail

-----------------------------------------------------------------------------
(* What each step does to the amounts. *)

\* The amounts of the requests outside X are as they were.
LEMMA AmountsKept ==
  ASSUME AmountInv, NEW X \in SUBSET Cells,
         \A d \in Cells \ X :
           /\ reqs'[d].queue = reqs[d].queue /\ reqs'[d].backlog = reqs[d].backlog
           /\ reqs'[d].slot # None =>
                LET s == reqs[d].slot IN
                /\ reqs'[d].slot = s
                /\ conns'[s].txIndex = conns[s].txIndex /\ conns'[s].count = conns[s].count
                /\ conns'[s].txCount = conns[s].txCount
                /\ conns'[s].settled = conns[s].settled,
         \A d \in X : Sums(reqs'[d].queue, reqs'[d].backlog),
         ~astray' => /\ ~astray /\ ~early'
                     /\ \A d \in X : reqs'[d].slot # None =>
                          Amounts(conns'[reqs'[d].slot], reqs'[d].queue, reqs'[d].backlog)
  PROVE  AmountInv'
<1>1. Summed'
  BY DEF AmountInv, Summed
<1>2. ASSUME ~astray', NEW d \in Cells PROVE Amount(d)'
  <2>1. CASE d \in X
    BY <1>2, <2>1 DEF Amount
  <2>2. CASE d \notin X
    <3>1. Amount(d)
      BY <1>2 DEF AmountInv
    <3>2. QED
      BY <2>2, <3>1 DEF Amount, Amounts
  <2>3. QED
    BY <2>1, <2>2
<1>3. QED
  BY <1>1, <1>2 DEF AmountInv

LEMMA CellChanged ==
  ASSUME AmountInv, NEW c \in Cells,
         \A d \in Cells \ {c} :
           /\ reqs'[d] = reqs[d]
           /\ reqs[d].slot # None => conns'[reqs[d].slot] = conns[reqs[d].slot],
         Sums(reqs'[c].queue, reqs'[c].backlog),
         ~astray' => ~astray /\ ~early',
         ~astray' /\ reqs'[c].slot # None =>
           Amounts(conns'[reqs'[c].slot], reqs'[c].queue, reqs'[c].backlog)
  PROVE  AmountInv'
<1> DEFINE X == {c}
<1>1. X \in SUBSET Cells /\ \A d \in X : d = c
  OBVIOUS
<1> HIDE DEF X
<1>2. \A d \in Cells \ X : d \in Cells \ {c}
  BY DEF X
<1>3. QED
  BY <1>1, <1>2, AmountsKept

\* A slot that is used by no request does not matter.
LEMMA SlotGiven ==
  ASSUME IInv, AmountInv, NEW s \in Slots,
         \A d \in Cells : /\ reqs'[d].queue = reqs[d].queue
                          /\ reqs'[d].backlog = reqs[d].backlog
                          /\ reqs'[d].slot # None => reqs'[d].slot = reqs[d].slot
                                                    /\ reqs'[d].slot # s,
         \A t \in Slots \ {s} : conns'[t] = conns[t],
         UNCHANGED <<astray, early>>
  PROVE  AmountInv'
<1>1. \A d \in Cells : reqs[d].slot \in Slots \cup {None}
  BY DEF IInv, TypeOK, Requests
<1>2. ~astray' => ~astray /\ ~early'
  BY DEF AmountInv
<1> DEFINE X == {}
<1>3. X \in SUBSET Cells /\ \A d \in X : FALSE
  OBVIOUS
<1> HIDE DEF X
<1>4. \A d \in Cells : reqs'[d].slot # None => reqs[d].slot \in Slots \ {s}
  BY <1>1
<1>5. QED
  BY <1>2, <1>3, <1>4, AmountsKept

\* httpdConnectCb
LEMMA ConnectAmount ==
  ASSUME IInv, AmountInv, NEW c \in Cells, Connect(c)
  PROVE  AmountInv'
<1>1. /\ reqs'[c].slot = None /\ reqs'[c].queue = <<>> /\ reqs'[c].backlog = 0
      /\ \A d \in Cells \ {c} : reqs'[d] = reqs[d]
      /\ UNCHANGED <<conns, capture, astray, early>>
  BY DEF Connect, IInv, TypeOK, NewCell
<1>2. Sums(reqs'[c].queue, reqs'[c].backlog)
  BY <1>1, SumsShort
<1>3. (~astray' => ~astray /\ ~early')
  BY <1>1 DEF AmountInv
<1>4. QED
  BY <1>1, <1>2, <1>3, CellChanged

\* cgiSSCPHandleRequest for a new request.
LEMMA RequestAmount ==
  ASSUME IInv, AmountInv, NEW c \in Cells, NEW more \in MoreChunks, Request(c, more)
  PROVE  AmountInv'
<1>0. /\ TypeOK /\ Attached /\ reqs[c] \in Requests /\ None \notin Slots
      /\ more \in Nat
      /\ Sums(reqs[c].queue, reqs[c].backlog)
      /\ reqs[c].queue \in Seq(Nat) /\ reqs[c].backlog \in Int
  BY HttpAssumption DEF IInv, TypeOK, AmountInv, Summed, Slots, Requests
<1>1. /\ ~reqs[c].parsed /\ FirstCall(c, more)
      /\ UNCHANGED <<sscp_events, wild, astray, early>>
  BY DEF Request
<1>2. reqs[c].slot = None /\ (~astray' => ~astray /\ ~early')
  BY <1>0, <1>1 DEF Attached, AmountInv
<1>3. CASE {s \in Slots : ~conns[s].used} = {}
  <2> DEFINE q == httpdUnbufferedSend(reqs[c], 0)
             r == [q EXCEPT !.parsed = TRUE, !.discon = TRUE, !.more = more]
  <2>1. reqs' = [reqs EXCEPT ![c] = r] /\ UNCHANGED <<conns, capture>>
    BY <1>1, <1>3 DEF FirstCall
  <2>2. q \in Requests /\ q.slot = None /\ Sums(q.queue, q.backlog)
    BY <1>0, <1>2, SendKeeps, SendSums
  <2> HIDE DEF q
  <2>3. r.slot = None /\ r.queue = q.queue /\ r.backlog = q.backlog
    BY <2>2 DEF Requests
  <2> HIDE DEF r
  <2>4. reqs'[c] = r /\ \A d \in Cells \ {c} : reqs'[d] = reqs[d]
    BY <1>0, <2>1 DEF TypeOK
  <2>5. QED
    BY <1>2, <2>1, <2>2, <2>3, <2>4, CellChanged
<1>4. ASSUME NEW s \in Slots, ~conns[s].used,
             reqs' = [reqs EXCEPT ![c].parsed = TRUE, ![c].slot = s, ![c].more = more],
             conns' = [conns EXCEPT ![s] =
                [NewSlot(c) EXCEPT !.flags = IF sscp_events THEN {} ELSE @]],
             capture' = IF capture.slot = s THEN [capture EXCEPT !.stale = TRUE] ELSE capture
      PROVE  AmountInv'
  <2>1. /\ reqs'[c].slot = s
        /\ reqs'[c].queue = reqs[c].queue /\ reqs'[c].backlog = reqs[c].backlog
        /\ \A d \in Cells \ {c} : reqs'[d] = reqs[d]
    BY <1>0, <1>4 DEF TypeOK, Requests
  <2>2. /\ conns'[s].settled = 0 /\ conns'[s].txIndex = 0
        /\ conns'[s].txCount = 0 /\ conns'[s].count = 0
        /\ \A t \in Slots \ {s} : conns'[t] = conns[t]
    BY <1>0, <1>4 DEF TypeOK, NewSlot
  <2>3. \A d \in Cells : reqs[d].slot # None => reqs[d].slot # s /\ reqs[d].slot \in Slots
    BY <1>0, <1>4 DEF Attached, TypeOK, Requests
  <2>5. Amounts(conns'[s], reqs[c].queue, reqs[c].backlog)
    <3>1. reqs[c].queue # <<>> => Head(reqs[c].queue) \in Nat
      BY <1>0
    <3>2. reqs[c].backlog >= 0
      BY <1>0, SumsAtLeastZero
    <3>3. QED
      BY <1>0, <2>2, <3>1, <3>2 DEF Amounts
  <2>6. QED
    <3>1. Sums(reqs'[c].queue, reqs'[c].backlog)
      BY <1>0, <2>1
    <3>2. QED
      BY <1>2, <2>1, <2>2, <2>3, <2>5, <3>1, CellChanged
<1>5. QED
  BY <1>1, <1>3, <1>4 DEF FirstCall

\* The arithmetic of a confirmation: the buffer q[1] leaves, and the rest counts on.
LEMMA ConfirmedAmounts ==
  ASSUME NEW s \in Slots, conns[s] \in Connections, NEW q \in Seq(Nat), q # <<>>,
         NEW b \in Int, Sums(q, b), Amounts(conns[s], q, b),
         NEW k, k.txIndex = conns[s].txIndex, k.count = conns[s].count,
         k.txCount = conns[s].txCount, k.settled = Settled(conns[s], Head(q))
  PROVE  Amounts(k, Tail(q), IF Tail(q) = <<>> THEN b ELSE b - Head(Tail(q)))
<1> DEFINE n == Head(q)
           p == Tail(q)
           index == conns[s].txIndex
           count == conns[s].count
           total == conns[s].txCount
           before == conns[s].settled
<1>1. /\ index \in Nat /\ count \in Nat /\ total \in Nat /\ before \in Nat
      /\ n \in Nat /\ (p # <<>> => Head(p) \in Nat)
  <2>1. index \in Nat /\ count \in Nat /\ total \in Nat /\ before \in Nat
    BY DEF Connections
  <2>2. n \in Nat /\ p \in Seq(Nat)
    OBVIOUS
  <2> HIDE DEF n, p
  <2>3. p # <<>> => Head(p) \in Nat
    BY <2>2
  <2>4. QED
    BY <2>1, <2>2, <2>3
<1>2. b >= 0
  BY SumsAtLeastZero
<1>3. /\ index <= before /\ before <= total
      /\ (total <= before + n + b \/ index + count <= before + n + b)
  BY DEF Amounts
<1>4. k.settled = IF before + n > total THEN total ELSE before + n
  BY DEF Settled
<1>5. /\ k.txIndex = index /\ k.count = count /\ k.txCount = total
  OBVIOUS
<1> HIDE DEF n, p, index, count, total, before
<1>6. Amounts(k, p, IF p = <<>> THEN b ELSE b - Head(p))
  <2>1. PICK d : d = k.settled
    OBVIOUS
  <2>2. index <= d /\ d <= total
    BY <1>1, <1>3, <1>4, <2>1
  <2>3. ASSUME p # <<>>
        PROVE  \/ total <= d + Head(p) + (b - Head(p))
               \/ index + count <= d + Head(p) + (b - Head(p))
    <3>1. PICK h \in Nat : h = Head(p)
      BY <1>1, <2>3
    <3>2. total <= d + b \/ index + count <= d + b
      BY <1>1, <1>2, <1>3, <1>4, <2>1
    <3>3. d \in Nat
      BY <1>1, <1>4, <2>1
    <3>4. d + h + (b - h) = d + b
      BY <3>1, <3>3
    <3>5. QED
      BY <3>1, <3>2, <3>4
  <2>4. QED
    BY <1>5, <2>1, <2>2, <2>3 DEF Amounts
<1>7. QED
  BY <1>6 DEF p

\* With the last buffer confirmed the sum in txIndex is not beyond what was confirmed.
LEMMA LastConfirmed ==
  ASSUME NEW s \in Slots, conns[s] \in Connections, NEW q \in Seq(Nat), q # <<>>,
         Sums(q, 0), Amounts(conns[s], q, 0)
  PROVE  LET index == conns[s].txIndex + conns[s].count
             got == Settled(conns[s], Head(q))
         IN /\ got <= conns[s].txCount
            /\ index >= conns[s].txCount => got = conns[s].txCount
            /\ index < conns[s].txCount => index <= got
<1> DEFINE n == Head(q)
           index == conns[s].txIndex
           count == conns[s].count
           total == conns[s].txCount
           before == conns[s].settled
<1>1. /\ index \in Nat /\ count \in Nat /\ total \in Nat /\ before \in Nat /\ n \in Nat
  BY DEF Connections
<1>2. /\ index <= before /\ before <= total
      /\ (total <= before + n + 0 \/ index + count <= before + n + 0)
  BY DEF Amounts
<1>3. Settled(conns[s], n) = IF before + n > total THEN total ELSE before + n
  BY DEF Settled
<1> HIDE DEF n, index, count, total, before
<1>4. /\ Settled(conns[s], n) <= total
      /\ index + count >= total => Settled(conns[s], n) = total
      /\ index + count < total => index + count <= Settled(conns[s], n)
  BY <1>1, <1>2, <1>3
<1>5. QED
  BY <1>4 DEF n, index, count, total

\* httpdSentCb
LEMMA SentAmount ==
  ASSUME IInv, AmountInv, NEW c \in Cells, Sent(c)
  PROVE  AmountInv'
<1> DEFINE r == NextBuffer(reqs[c])
           n == Head(reqs[c].queue)
           s == r.slot
<1>0. /\ TypeOK /\ Attached /\ reqs[c] \in Requests /\ None \notin Slots
      /\ reqs[c].queue \in Seq(Nat) /\ reqs[c].backlog \in Int
      /\ Sums(reqs[c].queue, reqs[c].backlog)
      /\ \A d \in Cells : reqs[d].slot \in Slots \cup {None}
  BY HttpAssumption DEF IInv, TypeOK, AmountInv, Summed, Slots, Requests
<1>1. /\ r \in Requests /\ n \in Nat /\ reqs[c].slot = s /\ reqs[c].queue # <<>>
      /\ UNCHANGED <<sscp_events, capture, wild, astray>>
      /\ r.queue = Tail(reqs[c].queue)
      /\ r.backlog = IF Tail(reqs[c].queue) = <<>> THEN reqs[c].backlog
                     ELSE reqs[c].backlog - Head(Tail(reqs[c].queue))
  BY <1>0, SentEffect, NextBufferKeeps
<1>2. Sums(r.queue, r.backlog)
  BY <1>0, <1>1, NextSums
<1> HIDE DEF r, n, s
<1>3. s # None => s \in Slots /\ conns[s] \in Connections
  BY <1>0, <1>1 DEF TypeOK
<1>4. \A d \in Cells \ {c} : reqs[d].slot # None =>
        reqs[d].slot # s /\ reqs[d].slot \in Slots
  <2>1. Attached /\ reqs[c].slot = s
    BY <1>0, <1>1
  <2>2. QED
    BY <1>0, <2>1 DEF Attached
<1>6. ~astray /\ s # None => Amounts(conns[s], reqs[c].queue, reqs[c].backlog)
  BY <1>1 DEF AmountInv, Amount
<1>7. CASE ~(r.queue = <<>> /\ s # None /\ LaterCall(c, r, n))
  <2>1. /\ reqs'[c].slot = s /\ reqs'[c].queue = r.queue /\ reqs'[c].backlog = r.backlog
        /\ \A d \in Cells \ {c} : reqs'[d] = reqs[d]
        /\ \A t \in Slots \ {s} : conns'[t] = conns[t]
        /\ s # None => /\ conns'[s].txIndex = conns[s].txIndex
                       /\ conns'[s].count = conns[s].count
                       /\ conns'[s].txCount = conns[s].txCount
                       /\ conns'[s].settled = Settled(conns[s], n)
        /\ early' = early
    BY <1>1, <1>7, SentEffect DEF r, n, s
  <2>2. ~astray' => ~astray /\ ~early'
    BY <1>1, <2>1 DEF AmountInv
  <2>3. ~astray /\ s # None => Amounts(conns'[s], r.queue, r.backlog)
    BY <1>0, <1>1, <1>3, <1>6, <2>1, ConfirmedAmounts DEF n
  <2>4. QED
    BY <1>1, <1>2, <1>4, <2>1, <2>2, <2>3, CellChanged
<1>8. CASE r.queue = <<>> /\ s # None /\ LaterCall(c, r, n)
  <2> DEFINE index == conns[s].txIndex + conns[s].count
             done == index >= conns[s].txCount
  <2>1. /\ reqs'[c].slot = (IF done THEN None ELSE s)
        /\ reqs'[c].queue = r.queue /\ reqs'[c].backlog = r.backlog
        /\ \A d \in Cells \ {c} : reqs'[d] = reqs[d]
        /\ \A t \in Slots \ {s} : conns'[t] = conns[t]
        /\ ~done => /\ conns'[s].txIndex = index /\ conns'[s].count = conns[s].count
                    /\ conns'[s].txCount = conns[s].txCount
                    /\ conns'[s].settled = Settled(conns[s], n)
        /\ early' = IF done /\ Settled(conns[s], n) < conns[s].txCount THEN TRUE ELSE early
    <3>1. r.slot \in Slots /\ reqs[c].slot = r.slot
      BY <1>1, <1>3, <1>8 DEF s
    <3>2. Called(c, r, n)
      BY <1>1, <1>8, <3>1, LaterCallEffect
    <3>3. QED
      BY <3>2 DEF Called, s
  <2>2. reqs[c].backlog = 0 /\ r.backlog = 0
    <3>1. r.backlog = reqs[c].backlog
      BY <1>1, <1>8
    <3>2. r.backlog = 0
      BY <1>1, <1>2, <1>8, SumsAtLeastZero DEF Requests
    <3>3. QED
      BY <3>1, <3>2
  <2>3. ASSUME ~astray
        PROVE  /\ Settled(conns[s], n) <= conns[s].txCount
               /\ index >= conns[s].txCount => Settled(conns[s], n) = conns[s].txCount
               /\ index < conns[s].txCount => index <= Settled(conns[s], n)
    BY <1>0, <1>1, <1>3, <1>6, <1>8, <2>2, <2>3, LastConfirmed DEF n
  <2>4. s # None => index \in Int /\ conns[s].txCount \in Int /\ Settled(conns[s], n) \in Int
    <3>1. n \in Nat
      BY <1>1
    <3>2. QED
      BY <1>3, <3>1 DEF Connections, Settled
  <2> HIDE DEF index
  <2>5. ~astray' => ~astray /\ ~early'
    BY <1>1, <1>8, <2>1, <2>3, <2>4 DEF AmountInv
  <2>6. ~astray /\ ~done => Amounts(conns'[s], r.queue, r.backlog)
    BY <1>8, <2>1, <2>3, <2>4 DEF Amounts
  <2> HIDE DEF done
  <2>7. QED
    BY <1>1, <1>2, <1>4, <2>1, <2>5, <2>6, CellChanged
<1>9. QED
  BY <1>7, <1>8

\* httpdDisconCb and httpdReconCb
LEMMA DisconnectAmount ==
  ASSUME IInv, AmountInv, NEW c \in Cells, NEW flag \in {"TERM", "FAIL"},
         NEW kind \in {"X", "E"}, Disconnect(c, flag, kind)
  PROVE  AmountInv'
<1> DEFINE s == reqs[c].slot
           left == [t \in Slots |-> IF conns[t].conn = c
                                      THEN [conns[t] EXCEPT !.gone = TRUE] ELSE conns[t]]
           cells == IF sscp_events /\ s # None THEN Detached(s) ELSE reqs
<1>0. /\ TypeOK /\ Attached /\ None \notin Slots /\ s \in Slots \cup {None}
      /\ conns \in [Slots -> Connections] /\ capture \in Captures
      /\ \A d \in Cells : reqs[d].slot \in Slots \cup {None}
  BY HttpAssumption DEF IInv, TypeOK, Requests, Slots
<1>1. /\ UNCHANGED <<sscp_events, capture, wild, astray, early>>
      /\ reqs' = [cells EXCEPT ![c] = FreeCell]
      /\ \/ s = None /\ conns' = left
         \/ s # None /\ conns' = IF sscp_events THEN Closed(left, s)
                                 ELSE [left EXCEPT ![s].flags = @ \cup {flag}]
  BY Zenon DEF Disconnect
<1>2. s # None => conns[s].conn = c
  BY <1>0 DEF Attached
<1>3. cells \in [Cells -> Requests] /\ \A d \in Cells \ {c} : cells[d] = reqs[d]
  BY <1>0, <1>2, DetachedCells DEF TypeOK
<1> HIDE DEF cells
<1>4. reqs'[c] = FreeCell /\ \A d \in Cells \ {c} : reqs'[d] = reqs[d]
  BY <1>1, <1>3
<1>5. FreeCell.slot = None /\ FreeCell.queue = <<>> /\ FreeCell.backlog = 0
  BY DEF FreeCell, NewCell
<1>6. \A d \in Cells \ {c} : reqs[d].slot # None =>
        reqs[d].slot # s /\ reqs[d].slot \in Slots /\ conns[reqs[d].slot].conn # c
  BY <1>0, <1>2 DEF Attached
<1>7. left \in [Slots -> Connections] /\ \A t \in Slots : conns[t].conn # c => left[t] = conns[t]
  BY <1>0 DEF Connections
<1> HIDE DEF left, s
<1>8. \A t \in Slots \ {s} : conns[t].conn # c => conns'[t] = conns[t]
  BY <1>0, <1>1, <1>7, ClosedSlot
<1>9. (~astray' => ~astray /\ ~early') /\ Sums(FreeCell.queue, FreeCell.backlog)
  BY <1>1, <1>5, SumsShort DEF AmountInv
<1>10. QED
  BY <1>0, <1>4, <1>5, <1>6, <1>8, <1>9, CellChanged

\* A step after which the slots in use have their counters and the cells their buffers.
LEMMA SlotsKept ==
  ASSUME IInv, AmountInv,
         \A d \in Cells :
           /\ reqs'[d].queue = reqs[d].queue /\ reqs'[d].backlog = reqs[d].backlog
           /\ reqs'[d].slot # None =>
                LET s == reqs[d].slot IN
                /\ reqs'[d].slot = s
                /\ conns'[s].txIndex = conns[s].txIndex /\ conns'[s].count = conns[s].count
                /\ conns'[s].txCount = conns[s].txCount
                /\ conns'[s].settled = conns[s].settled,
         UNCHANGED <<astray, early>>
  PROVE  AmountInv'
<1> DEFINE X == {}
<1>1. X \in SUBSET Cells /\ \A d \in X : FALSE
  OBVIOUS
<1> HIDE DEF X
<1>2. ~astray' => ~astray /\ ~early'
  BY DEF AmountInv
<1>3. QED
  BY <1>1, <1>2, AmountsKept

LEMMA UseFreedAmount == ASSUME AmountInv, UseFreed PROVE AmountInv'
BY DEF AmountInv, UseFreed, Summed, Amount

LEMMA RefusedAmount == ASSUME AmountInv, NEW s, Refused(s) PROVE AmountInv'
BY DEF AmountInv, Refused, Summed, Amount

\* reply_cb and send_cb: the buffer counts for what is added to txIndex when it is
\* confirmed.
LEMMA PayloadAmount ==
  ASSUME IInv, OrderInv, AmountInv, NEW s \in Slots, NEW n \in Nat, NEW reply \in BOOLEAN,
         NEW stale \in BOOLEAN, NEW now \in Connections,
         now.used = conns[s].used, now.conn = conns[s].conn, now.gone = conns[s].gone,
         now.settled = conns[s].settled,
         \/ now.txIndex = conns[s].txIndex /\ now.txCount = conns[s].txCount
         \/ now.txIndex = 0 /\ ~stale /\ mcu[s] = "asked",
         now.conn \in Cells,
         PayloadIn(s, n, reply, stale, now)
  PROVE  AmountInv'
<1> DEFINE c == now.conn
           m == IF reply /\ n > ReplyRoom THEN 0 ELSE n
           q == httpdUnbufferedSend(reqs[c], m)
           lost == Dropped(reqs[c], n, reply)
<1>0. /\ TypeOK /\ Attached /\ None \notin Slots /\ reqs[c] \in Requests
      /\ \A d \in Cells : reqs[d].slot \in Slots \cup {None}
      /\ m \in Nat
      /\ Sums(reqs[c].queue, reqs[c].backlog) /\ ReplyRoom \in Nat /\ MaxBacklog \in Nat
      /\ reqs[c].queue \in Seq(Nat) /\ reqs[c].backlog \in Int
  BY HttpAssumption DEF IInv, TypeOK, Requests, Slots, AmountInv, Summed
<1>1. CASE UseFreed
  BY <1>1, UseFreedAmount
<1>2. CASE ~UseFreed
  <2>1. ~Dangling(s)
    BY <1>2 DEF PayloadIn
  <2>2. Came(s, n, reply, stale, now)
    BY <1>0, <2>1, PayloadInEffect
  <2>3. /\ reqs'[c] = q /\ q.slot = reqs[c].slot
        /\ \A d \in Cells \ {c} : reqs'[d] = reqs[d]
        /\ \A t \in Slots \ {s} : conns'[t] = conns[t]
        /\ now.used => /\ conns'[s].count = n /\ conns'[s].settled = Settled(now, lost)
                       /\ conns'[s].txIndex = now.txIndex /\ conns'[s].txCount = now.txCount
        /\ capture' = NoCapture
        /\ astray' = IF stale \/ now.gone \/ ~now.used THEN TRUE ELSE astray
        /\ early' = early
    BY <2>2 DEF Came
  <2>4. /\ reqs[c].queue = <<>> => q.queue = <<m>> /\ q.backlog = reqs[c].backlog
        /\ reqs[c].queue # <<>> /\ reqs[c].backlog + m <= MaxBacklog =>
             q.queue = Append(reqs[c].queue, m) /\ q.backlog = reqs[c].backlog + m
        /\ reqs[c].queue # <<>> /\ ~(reqs[c].backlog + m <= MaxBacklog) => q = reqs[c]
    <3> HIDE DEF m
    <3>1. QED
      BY <1>0, SendKeeps
  <2>5. /\ Sums(q.queue, q.backlog) /\ q.queue \in Seq(Nat) /\ q.backlog \in Int
    <3> HIDE DEF m
    <3>1. q \in Requests
      BY <1>0, SendKeeps
    <3>2. QED
      BY <1>0, <3>1, SendSums DEF Requests
  <2>6. /\ lost = n /\ lost \in Nat
        \/ /\ lost = 0 /\ m = n
           /\ reqs[c].queue # <<>> => reqs[c].backlog + m <= MaxBacklog
    BY <1>0 DEF Dropped
  <2> HIDE DEF c, q, lost, m
  <2>7. c = conns[s].conn /\ c \in Cells
    BY DEF c
  <2>8. \A d \in Cells \ {c} : reqs[d].slot # None => reqs[d].slot \in Slots \ {s}
    BY <1>0, <2>7 DEF Attached
  <2>9. ~astray' => ~astray /\ ~early'
    BY <2>3 DEF AmountInv
  <2>10. ASSUME ~astray', reqs[c].slot # None
         PROVE  Amounts(conns'[reqs[c].slot], q.queue, q.backlog)
    <3>1. ~astray /\ ~stale /\ now.used /\ ~now.gone
      BY <2>3, <2>10
    <3>2. reqs[c].slot = s
      BY <2>7, <2>10, <3>1 DEF OrderInv, Owned
    <3>3. Amounts(conns[s], reqs[c].queue, reqs[c].backlog)
      BY <2>7, <2>10, <3>1, <3>2 DEF AmountInv, Amount
    <3>4. now.txIndex <= now.settled /\ now.settled <= now.txCount
      <4>1. CASE now.txIndex = conns[s].txIndex /\ now.txCount = conns[s].txCount
        BY <3>3, <4>1 DEF Amounts
      <4>2. CASE now.txIndex = 0 /\ ~stale /\ mcu[s] = "asked"
        <5>1. conns[s].settled = 0
          BY <2>7, <2>10, <3>1, <3>2, <4>2 DEF OrderInv, Blank
        <5>2. QED
          BY <4>2, <5>1 DEF Connections
      <4>3. QED
        BY <4>1, <4>2
    <3>5. PICK index \in Nat, total \in Nat, before \in Nat :
            index = now.txIndex /\ total = now.txCount /\ before = now.settled
      BY DEF Connections
    <3>6. PICK after : after = Settled(now, lost)
      OBVIOUS
    <3>7. after = IF before + lost > total THEN total ELSE before + lost
      BY <3>5, <3>6 DEF Settled
    <3>8. index <= after /\ after <= total /\ after \in Nat
      <4>1. index <= before /\ before <= total
        BY <3>4, <3>5
      <4>2. PICK d \in Nat : d = lost
        BY <2>6
      <4>3. after = IF before + d > total THEN total ELSE before + d
        BY <3>7, <4>2
      <4>4. QED
        BY <4>1, <4>3
    <3>9. /\ conns'[s].txIndex = index /\ conns'[s].settled = after
          /\ conns'[s].txCount = total /\ conns'[s].count = n
      BY <2>3, <3>1, <3>5, <3>6
    <3>10. q.queue # <<>> => Head(q.queue) \in Nat /\ q.backlog \in Nat
      <4>1. q.backlog >= 0
        BY <2>5, SumsAtLeastZero
      <4>2. QED
        BY <2>5, <4>1
    <3>11. ASSUME lost = n, q.queue # <<>>
           PROVE  \/ total <= after + Head(q.queue) + q.backlog
                  \/ index + n <= after + Head(q.queue) + q.backlog
      <4>1. PICK h \in Nat, b \in Nat : h = Head(q.queue) /\ b = q.backlog
        BY <3>10, <3>11
      <4>2. after = total \/ index + n <= after
        BY <3>4, <3>5, <3>7, <3>11
      <4>3. total <= after + h + b \/ index + n <= after + h + b
        BY <3>8, <4>2
      <4>4. QED
        BY <4>1, <4>3
    <3>12. ASSUME lost = 0, m = n, reqs[c].queue # <<>> => reqs[c].backlog + m <= MaxBacklog
           PROVE  index + n <= after + Head(q.queue) + q.backlog
      <4>1. after = before
        BY <3>4, <3>5, <3>7, <3>12
      <4>2. reqs[c].backlog \in Nat
        <5>1. reqs[c].backlog >= 0
          BY <1>0, SumsAtLeastZero DEF c
        <5>2. QED
          BY <1>0, <5>1 DEF c
      <4>3. PICK h \in Nat, b \in Nat : h = Head(q.queue) /\ b = q.backlog
        <5>1. CASE reqs[c].queue = <<>>
          BY <2>4, <3>10, <5>1
        <5>2. CASE reqs[c].queue # <<>>
          <6>1. q.queue = Append(reqs[c].queue, m) /\ reqs[c].queue \in Seq(Nat)
            BY <1>0, <2>4, <3>12, <5>2 DEF c
          <6>2. Append(reqs[c].queue, m) # <<>>
            BY <6>1
          <6>3. QED
            BY <3>10, <6>1, <6>2
        <5>3. QED
          BY <5>1, <5>2
      <4>4. h + b >= n
        <5>1. CASE reqs[c].queue = <<>>
          <6>1. Head(q.queue) = n
            BY <2>4, <3>12, <5>1
          <6>2. QED
            BY <4>3, <6>1
        <5>2. CASE reqs[c].queue # <<>>
          BY <2>4, <3>12, <4>2, <4>3, <5>2
        <5>3. QED
          BY <5>1, <5>2
      <4>5. index + n <= after + h + b
        BY <3>4, <3>5, <4>1, <4>4
      <4>6. QED
        BY <4>3, <4>5
    <3>13. QED
      BY <2>6, <3>2, <3>8, <3>9, <3>11, <3>12 DEF Amounts
  <2>11. QED
    BY <2>3, <2>5, <2>7, <2>8, <2>9, <2>10, CellChanged
<1>3. QED
  BY <1>1, <1>2

\* sscp_capturePayload
LEMMA CaptureAmount ==
  ASSUME IInv, AmountInv, NEW s \in Slots, NEW n \in Nat, NEW reply \in BOOLEAN,
         conns'[s].count = conns[s].count, conns'[s].settled = conns[s].settled,
         \/ conns'[s].txIndex = conns[s].txIndex /\ conns'[s].txCount = conns[s].txCount
         \/ OrderInv /\ mcu[s] = "asked" /\ conns'[s].txIndex = 0 /\ conns'[s].txCount \in Nat,
         \A t \in Slots \ {s} : conns'[t] = conns[t],
         \/ capture' = capture
         \/ capture' = [slot |-> s, size |-> n, reply |-> reply, stale |-> FALSE],
         UNCHANGED <<reqs, astray, early>>
  PROVE  AmountInv'
<1>0. /\ TypeOK /\ Attached /\ None \notin Slots
      /\ \A d \in Cells : reqs[d].slot \in Slots \cup {None}
  BY HttpAssumption DEF IInv, TypeOK, Requests, Slots
<1>3. CASE conns'[s].txIndex = conns[s].txIndex /\ conns'[s].txCount = conns[s].txCount
  BY <1>0, <1>3, SlotsKept
<1>4. CASE OrderInv /\ mcu[s] = "asked" /\ conns'[s].txIndex = 0 /\ conns'[s].txCount \in Nat
  <2> DEFINE c == conns[s].conn
  <2>1. \A d \in Cells : reqs[d].slot = s => d = c
    BY <1>0 DEF Attached
  <2> HIDE DEF c
  <2>2. CASE c \in Cells
    <3>1. reqs[c].slot # None /\ ~astray =>
            \/ reqs[c].slot # s /\ conns'[reqs[c].slot] = conns[reqs[c].slot]
            \/ reqs[c].queue = <<>> /\ conns[s].settled = 0 /\ reqs[c].slot = s
      BY <1>0, <1>4, <2>2 DEF OrderInv, Blank
    <3>2. ~astray /\ reqs[c].slot # None =>
            Amounts(conns[reqs[c].slot], reqs[c].queue, reqs[c].backlog)
      BY <2>2 DEF AmountInv, Amount
    <3>3. ~astray /\ reqs[c].slot # None =>
            Amounts(conns'[reqs[c].slot], reqs[c].queue, reqs[c].backlog)
      <4>1. CASE reqs[c].slot # s
        BY <3>1, <3>2, <4>1
      <4>2. CASE reqs[c].slot = s
        BY <1>4, <3>1, <4>2 DEF Amounts
      <4>3. QED
        BY <4>1, <4>2
    <3>4. Sums(reqs[c].queue, reqs[c].backlog) /\ (~astray' => ~astray /\ ~early')
      BY <2>2 DEF AmountInv, Summed
    <3>5. \A d \in Cells \ {c} : reqs[d].slot # None => reqs[d].slot \in Slots \ {s}
      BY <1>0, <2>1
    <3>6. QED
      BY <2>2, <3>3, <3>4, <3>5, CellChanged
  <2>3. CASE c \notin Cells
    <3>1. \A d \in Cells : reqs[d].slot # None => reqs[d].slot \in Slots \ {s}
      BY <1>0, <2>1, <2>3
    <3>2. QED
      BY <3>1, SlotGiven
  <2>4. QED
    BY <2>2, <2>3
<1>5. QED
  BY <1>3, <1>4

\* http_do_reply
LEMMA ReplyAmount ==
  ASSUME IInv, OrderInv, AmountInv, NEW s \in Slots, NEW total \in Totals,
         NEW n \in Sizes \cup {total}, http_do_reply(s, total, n)
  PROVE  AmountInv'
<1> DEFINE now == [conns[s] EXCEPT !.txCount = total, !.txIndex = 0]
<1>0. /\ TypeOK /\ UsedSlots /\ conns[s] \in Connections /\ conns \in [Slots -> Connections]
      /\ total \in Nat /\ n \in Nat /\ mcu[s] = "asked"
  BY HttpAssumption DEF IInv, TypeOK, http_do_reply
<1>1. /\ now \in Connections /\ now.used = conns[s].used /\ now.conn = conns[s].conn
      /\ now.gone = conns[s].gone /\ now.settled = conns[s].settled
      /\ now.count = conns[s].count /\ now.txIndex = 0 /\ now.txCount = total
  BY <1>0 DEF Connections
<1>2. \/ Refused(s)
      \/ UseFreed
      \/ conns[s].used /\ PayloadIn(s, 0, TRUE, FALSE, now)
      \/ total >= n /\ Capture(s, n, TRUE, now)
      \/ /\ conns' = [conns EXCEPT ![s] = now]
         /\ UNCHANGED <<reqs, capture, astray, early>>
  BY Zenon DEF http_do_reply
<1>3. conns[s].used => now.conn \in Cells
  BY <1>0, <1>1 DEF UsedSlots
<1> HIDE DEF now
<1>4. CASE Refused(s) \/ UseFreed
  BY <1>4, RefusedAmount, UseFreedAmount
<1>5. CASE conns[s].used /\ PayloadIn(s, 0, TRUE, FALSE, now)
  <2>1. 0 \in Nat /\ TRUE \in BOOLEAN /\ FALSE \in BOOLEAN
    OBVIOUS
  <2>2. QED
    BY <1>0, <1>1, <1>3, <1>5, <2>1, PayloadAmount
<1>6. CASE total >= n /\ Capture(s, n, TRUE, now)
  <2> DEFINE full == [now EXCEPT !.flags = @ \cup {TXFULL}]
  <2>2. /\ conns' = [conns EXCEPT ![s] = full] /\ UNCHANGED <<reqs, astray, early>>
        /\ capture' = [slot |-> s, size |-> n, reply |-> TRUE, stale |-> FALSE]
    BY <1>6 DEF Capture
  <2>3. /\ full.count = now.count /\ full.settled = now.settled
        /\ full.txIndex = now.txIndex /\ full.txCount = now.txCount
    BY <1>1 DEF Connections
  <2> HIDE DEF full
  <2>4. conns'[s] = full /\ \A t \in Slots \ {s} : conns'[t] = conns[t]
    BY <1>0, <2>2
  <2>5. QED
    BY <1>0, <1>1, <2>2, <2>3, <2>4, CaptureAmount
<1>7. CASE /\ conns' = [conns EXCEPT ![s] = now]
           /\ UNCHANGED <<reqs, capture, astray, early>>
  <2>1. conns'[s] = now /\ \A t \in Slots \ {s} : conns'[t] = conns[t]
    BY <1>0, <1>7
  <2>2. QED
    BY <1>0, <1>1, <1>7, <2>1, CaptureAmount
<1>8. QED
  BY <1>2, <1>4, <1>5, <1>6, <1>7

\* cmds_do_send
LEMMA SendAmount ==
  ASSUME IInv, AmountInv, NEW s \in Slots, NEW n \in Sizes, cmds_do_send(s, n)
  PROVE  AmountInv'
<1> DEFINE full == [conns[s] EXCEPT !.flags = @ \cup {TXFULL}]
<1>1. /\ conns[s] \in Connections /\ conns \in [Slots -> Connections] /\ n \in Nat
  BY HttpAssumption DEF IInv, TypeOK
<1>2. \/ Refused(s)
      \/ /\ conns' = [conns EXCEPT ![s] = full] /\ UNCHANGED <<reqs, astray, early>>
         /\ capture' = [slot |-> s, size |-> n, reply |-> FALSE, stale |-> FALSE]
  BY DEF cmds_do_send, Capture
<1>3. /\ full.count = conns[s].count /\ full.settled = conns[s].settled
      /\ full.txIndex = conns[s].txIndex /\ full.txCount = conns[s].txCount
  BY <1>1 DEF Connections
<1> HIDE DEF full
<1>4. CASE /\ conns' = [conns EXCEPT ![s] = full] /\ UNCHANGED <<reqs, astray, early>>
           /\ capture' = [slot |-> s, size |-> n, reply |-> FALSE, stale |-> FALSE]
  <2>1. conns'[s] = full /\ \A t \in Slots \ {s} : conns'[t] = conns[t]
    BY <1>1, <1>4
  <2>2. QED
    BY <1>1, <1>3, <1>4, <2>1, CaptureAmount
<1>5. QED
  BY <1>2, <1>4, RefusedAmount

LEMMA PayloadDoneAmount ==
  ASSUME IInv, OrderInv, AmountInv, PayloadDone
  PROVE  AmountInv'
<1>1. /\ capture.slot \in Slots /\ capture.size \in Nat /\ capture.reply \in BOOLEAN
      /\ capture.stale \in BOOLEAN /\ conns[capture.slot] \in Connections
      /\ conns[capture.slot].conn \in Cells
  BY DEF IInv, TypeOK, UsedSlots, PayloadDone, Ready, Captures
<1>3. PayloadIn(capture.slot, capture.size, capture.reply, capture.stale, conns[capture.slot])
  BY DEF PayloadDone
<1>4. QED
  BY <1>1, <1>3, PayloadAmount

\* A handle is closed together with its request's pointer to it.
LEMMA DetachAmount ==
  ASSUME IInv, AmountInv, NEW s \in Slots, conns[s].used,
         reqs' = Detached(s), conns' = Closed(conns, s),
         UNCHANGED <<capture, astray, early>>
  PROVE  AmountInv'
<1> DEFINE c == conns[s].conn
<1>1. /\ TypeOK /\ Attached /\ c \in Cells /\ capture \in Captures
      /\ conns \in [Slots -> Connections]
  BY DEF IInv, TypeOK, UsedSlots
<1>2. /\ reqs'[c].slot = None
      /\ reqs'[c].queue = reqs[c].queue /\ reqs'[c].backlog = reqs[c].backlog
      /\ \A d \in Cells \ {c} : reqs'[d] = reqs[d]
  BY <1>1 DEF Detached, TypeOK, Requests
<1>3. \A d \in Cells \ {c} : reqs[d].slot # None => reqs[d].slot # s
  BY <1>1 DEF Attached
<1> HIDE DEF c
<1>4. \A t \in Slots \ {s} : conns'[t] = conns[t]
  BY <1>1, ClosedSlot
<1>6. QED
  BY <1>2, <1>3, <1>4, SlotGiven

\* cmds_do_poll
LEMMA PollAmount ==
  ASSUME IInv, AmountInv, NEW s \in Slots, NEW mask, cmds_do_poll(s, mask)
  PROVE  AmountInv'
<1> DEFINE freed == "TXFREE" \in conns[s].flags
<1>0. /\ TypeOK /\ Attached /\ conns \in [Slots -> Connections] /\ conns[s] \in Connections
      /\ \A d \in Cells : reqs[d].slot \in Slots \cup {None}
      /\ conns[s].used /\ None \notin Slots /\ capture \in Captures
  BY HttpAssumption DEF IInv, TypeOK, Requests, Slots, cmds_do_poll
<1>1. UNCHANGED <<capture, astray, early>>
  BY DEF cmds_do_poll
<1>2. \/ conns' = Closed(conns, s) /\ reqs' = reqs /\ freed
      \/ UseFreed
      \/ reqs' = Detached(s) /\ conns' = Closed(conns, s)
      \/ \E f : conns' = [conns EXCEPT ![s].flags = @ \ {f}] /\ reqs' = reqs
  BY Zenon DEF cmds_do_poll
<1>4. CASE conns' = Closed(conns, s) /\ reqs' = reqs /\ freed
  <2>1. \A d \in Cells : reqs[d].slot # s
    BY <1>0, <1>4 DEF Attached
  <2>2. \A t \in Slots \ {s} : conns'[t] = conns[t]
    BY <1>0, <1>4, ClosedSlot
  <2>3. QED
    BY <1>1, <1>4, <2>1, <2>2, SlotGiven
<1>5. CASE reqs' = Detached(s) /\ conns' = Closed(conns, s)
  BY <1>0, <1>1, <1>5, DetachAmount
<1>6. ASSUME NEW f, conns' = [conns EXCEPT ![s].flags = @ \ {f}], reqs' = reqs
      PROVE  AmountInv'
  <2>1. conns'[s] = [conns[s] EXCEPT !.flags = @ \ {f}]
    BY <1>0, <1>6
  <2>2. \A t \in Slots \ {s} : conns'[t] = conns[t]
    BY <1>0, <1>6
  <2>3. /\ conns'[s].txIndex = conns[s].txIndex /\ conns'[s].count = conns[s].count
        /\ conns'[s].txCount = conns[s].txCount
        /\ conns'[s].settled = conns[s].settled
    BY <1>0, <2>1 DEF Connections
  <2>4. QED
    BY <1>0, <1>1, <1>6, <2>2, <2>3, SlotsKept
<1>7. QED
  BY <1>2, <1>4, <1>5, <1>6, UseFreedAmount

\* cmds_do_close
LEMMA CloseAmount ==
  ASSUME IInv, AmountInv, NEW s \in Slots, cmds_do_close(s)
  PROVE  AmountInv'
<1>1. \/ Refused(s)
      \/ UseFreed
      \/ /\ conns[s].used /\ reqs' = Detached(s) /\ conns' = Closed(conns, s)
         /\ UNCHANGED <<capture, astray, early>>
  BY DEF cmds_do_close
<1>2. QED
  BY <1>1, RefusedAmount, UseFreedAmount, DetachAmount

\* sscp_reset
LEMMA ResetAmount ==
  ASSUME IInv, AmountInv, sscp_reset
  PROVE  AmountInv'
<1>1. CASE UseFreed
  BY <1>1, UseFreedAmount
<1>2. CASE /\ reqs' = [c \in Cells |-> IF \E s \in Slots : conns[s].used /\ conns[s].conn = c
                                       THEN [reqs[c] EXCEPT !.slot = None] ELSE reqs[c]]
           /\ capture' = NoCapture
           /\ UNCHANGED <<astray, early>>
  <2>0. TypeOK /\ Attached /\ reqs \in [Cells -> Requests]
    BY DEF IInv, TypeOK
  <2>1. ASSUME NEW d \in Cells
        PROVE  /\ reqs'[d].slot = None
               /\ reqs'[d].queue = reqs[d].queue /\ reqs'[d].backlog = reqs[d].backlog
    <3>1. CASE \E s \in Slots : conns[s].used /\ conns[s].conn = d
      <4>1. reqs'[d] = [reqs[d] EXCEPT !.slot = None]
        BY <1>2, <3>1
      <4>2. QED
        BY <2>0, <4>1 DEF Requests
    <3>2. CASE ~\E s \in Slots : conns[s].used /\ conns[s].conn = d
      <4>1. reqs'[d] = reqs[d]
        BY <1>2, <3>2
      <4>2. reqs[d].slot = None
        BY <2>0, <3>2 DEF Attached, TypeOK, Requests
      <4>3. QED
        BY <4>1, <4>2
    <3>3. QED
      BY <3>1, <3>2
  <2>2. QED
    BY <1>2, <2>1, SlotsKept
<1>3. QED
  BY Zenon, <1>1, <1>2 DEF sscp_reset

LEMMA StepAmount ==
  ASSUME OneBuffer, IInv, OrderInv, AmountInv, [Next]_vars
  PROVE  AmountInv'
<1>1. ASSUME NEW c \in Cells, DisconCb(c) \/ ReconCb(c)
      PROVE  AmountInv'
  BY <1>1, DisconnectAmount DEF DisconCb, ReconCb
<1>2. ASSUME NEW c \in Cells PROVE ~PostChunk(c)
  BY DEF OrderInv, Once, PostChunk
<1>3. CASE UNCHANGED vars
  BY <1>3 DEF vars, AmountInv, Summed, Amount
<1>4. CASE Server
  BY <1>1, <1>2, <1>4, ConnectAmount, RequestAmount, SentAmount DEF Server
<1>5. CASE Commands
  BY <1>5, ReplyAmount, SendAmount, CloseAmount, PollAmount, PayloadDoneAmount, ResetAmount
  DEF Commands
<1>6. QED
  BY <1>3, <1>4, <1>5 DEF Next

\* No handle is given up while a part of its answer is under way, neither confirmed by
\* the network nor dropped by the server, as long as a request is called once before its
\* answer.
THEOREM NothingEarly == ASSUME OneBuffer PROVE Spec => []NotFreedEarly
<1>1. Init => AmountInv
  <2> SUFFICES ASSUME Init PROVE AmountInv
    OBVIOUS
  <2>1. \A c \in Cells : /\ reqs[c].slot = None /\ reqs[c].queue = <<>>
                         /\ reqs[c].backlog = 0
    BY DEF Init, FreeCell, NewCell
  <2>2. ~early /\ capture = NoCapture
    BY DEF Init
  <2>3. QED
    BY <2>1, <2>2, SumsShort DEF AmountInv, Summed, Amount
<1>2. IInv /\ OrderInv /\ AmountInv /\ [Next]_vars => AmountInv'
  BY StepAmount
<1>3. AmountInv => NotFreedEarly
  BY DEF AmountInv, NotFreedEarly
<1>4. QED
  BY <1>1, <1>2, <1>3, Inductive, Ordered, PTL DEF Spec
=============================================================================
