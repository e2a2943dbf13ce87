------------------------------ MODULE WebProofs -------------------------------
(***************************************************************************)
(* What browsers use, for every value of the constants: the answers and the *)
(* bodies of requests (Httpd), however many buffers a CGI sends; the        *)
(* callbacks of a WebSocket and its refinement of WsStream (WsFrame); the   *)
(* images an upload leaves in the flash (OtaUpload); the text the page of   *)
(* the log shows (WebLog).                                                  *)
(***************************************************************************)
EXTENDS Httpd, WsFrame, OtaUpload, WebLog, FiniteSetTheorems, SequenceTheorems, TLAPS

(* Requests and answers. *)

\* The counts of the body: which bytes of it have been seen, and given.
Posts == [len : Nat \cup {-1}, size : Nat, buffLen : Nat, received : Nat, given : Nat]
PostTyped == post \in Posts
BytesTyped ==
  /\ at \in Nat /\ left \in Nat
  /\ request \in Requests /\ request.head \in Nat \ {0} /\ request.len \in Nat

\* The headers end where the empty line is; behind it each byte seen is one received.
HeaderFirst ==
  /\ post.len < 0 => post = NoPost /\ at < request.head
  /\ post.len > 0 => at = request.head + post.received
  /\ post.len >= 0 => at >= request.head
  /\ post.len > 0 => post.buffLen < post.size

Counted == PostTyped /\ BytesTyped /\ HeaderFirst /\ BodyOnce

\* Only an open connection is worked on.
OpenInRecv == inRecv \in BOOLEAN /\ (inRecv => connection = "open")

\* The answer: what is on its way and what waits follow what has arrived.
InOrder(s) ==
  IF s.inflight = 0 THEN s.backlog = <<>> /\ s.next = s.got + 1
  ELSE /\ s.inflight = s.got + 1
       /\ s.next = s.inflight + Len(s.backlog) + 1
       /\ \A i \in 1..Len(s.backlog) : s.backlog[i] = s.inflight + i
Backlogs == Seq(Nat)
Outs == [got : Nat, inflight : Nat, backlog : Backlogs, next : Nat,
         refused : BOOLEAN, dropped : BOOLEAN]
Good(s) == s \in Outs /\ (s.refused \/ s.dropped \/ InOrder(s))
Answering ==
  /\ Good(out) /\ OpenInRecv
  /\ connection = "closing" => out.refused \/ out.dropped \/ out.next = out.got + 1

LEMMA GoodIs ==
  ASSUME NEW s, Good(s)
  PROVE  /\ s.next \in Nat /\ s.got \in Nat /\ s.inflight \in Nat
         /\ s.backlog \in Seq(Nat) /\ Len(s.backlog) \in Nat
<1>1. s.next \in Nat /\ s.got \in Nat /\ s.inflight \in Nat
  BY DEF Good, Outs
<1>2. s.backlog \in Seq(Nat)
  BY DEF Good, Outs, Backlogs
<1> QED
  BY <1>1, <1>2, LenProperties

LEMMA QueuedGood == ASSUME NEW s, Good(s) PROVE Good(Queued(s))
<1> DEFINE q == Append(s.backlog, s.next)
           r == s.refused \/ s.inflight = 0
           L == Len(s.backlog)
           m == s.next + 1
           a == [s EXCEPT !.backlog = q, !.next = m, !.refused = r]
           b == [s EXCEPT !.next = m, !.dropped = TRUE]
<1>1. s \in Outs
  BY DEF Good
<1>2. s.next \in Nat /\ s.got \in Nat /\ s.inflight \in Nat /\ L \in Nat
  BY GoodIs
<1>3. m \in Nat
  BY <1>2
<1>4. CASE L < MaxBacklog
  <2>1. Queued(s) = a
    BY <1>1, <1>4 DEF Queued, Outs
  <2>2. /\ q \in Backlogs /\ Len(q) = L + 1
        /\ \A i \in 1..L : q[i] = s.backlog[i]
        /\ q[L + 1] = s.next
    BY <1>2, GoodIs, AppendProperties DEF Backlogs
  <2>3. r \in BOOLEAN
    OBVIOUS
  <2> HIDE DEF q, L
  <2>4. s.inflight # 0 /\ InOrder(s) =>
          /\ s.next = s.inflight + L + 1 /\ s.inflight = s.got + 1
          /\ \A i \in 1..L : s.backlog[i] = s.inflight + i
    BY DEF InOrder, L
  <2>5. ~r => s.inflight # 0 /\ ~s.refused
    OBVIOUS
  <2> HIDE DEF r, m
  <2>6. a \in Outs
    BY <1>1, <1>3, <2>2, <2>3 DEF Outs
  <2>7. a.backlog = q /\ a.next = m /\ a.got = s.got /\ a.inflight = s.inflight
    BY <1>1 DEF Outs
  <2>8. a.refused = r /\ a.dropped = s.dropped
    BY <1>1 DEF Outs
  <2> HIDE DEF a
  <2>9. ASSUME ~a.refused, ~a.dropped PROVE InOrder(a)
    <3>1. s.inflight # 0 /\ InOrder(s)
      BY <2>5, <2>8, <2>9 DEF Good
    <3>2. s.next = s.inflight + L + 1 /\ s.inflight = s.got + 1
      BY <2>4, <3>1
    <3>3. \A i \in 1..L : s.backlog[i] = s.inflight + i
      BY <2>4, <3>1
    <3>4. Len(q) = L + 1 /\ q[L + 1] = s.inflight + (L + 1)
      <4>1. PICK j \in Nat : j = s.inflight
        BY <1>2
      <4>2. s.next = j + (L + 1)
        BY <1>2, <3>2, <4>1
      <4> QED
        BY <2>2, <4>1, <4>2
    <3>5. ASSUME NEW i \in 1..(L + 1) PROVE q[i] = s.inflight + i
      <4>1. CASE i = L + 1
        BY <3>4, <4>1
      <4>2. CASE i \in 1..L
        BY <2>2, <3>3, <4>2
      <4> QED
        BY <1>2, <4>1, <4>2
    <3>6. m = s.inflight + (L + 1) + 1
      BY <1>2, <3>2 DEF m
    <3> QED
      BY <2>7, <3>1, <3>2, <3>4, <3>5, <3>6 DEF InOrder
  <2> QED
    BY <2>1, <2>6, <2>9 DEF Good
<1>5. CASE ~(L < MaxBacklog)
  <2>1. Queued(s) = b
    BY <1>1, <1>5 DEF Queued, Outs
  <2> HIDE DEF m
  <2>2. b \in Outs
    BY <1>1, <1>3 DEF Outs
  <2>3. b.dropped
    BY <1>1 DEF Outs
  <2> QED
    BY <2>1, <2>2, <2>3 DEF Good
<1> QED
  BY <1>4, <1>5

LEMMA SendGood == ASSUME NEW s, Good(s), NEW t \in httpdUnbufferedSend(s) PROVE Good(t)
<1>1. CASE t = Queued(s)
  BY <1>1, QueuedGood
<1>2. CASE s.inflight = 0 /\ t = [s EXCEPT !.inflight = s.next, !.next = @ + 1]
  <2> DEFINE m == s.next + 1
             d == [s EXCEPT !.inflight = s.next, !.next = m]
  <2>1. s \in Outs
    BY DEF Good
  <2>2. s.next \in Nat /\ s.got \in Nat /\ m \in Nat
    BY GoodIs
  <2>3. t = d
    BY <1>2, <2>1 DEF Outs
  <2> HIDE DEF m
  <2>4. d \in Outs
    BY <2>1, <2>2 DEF Outs
  <2>5. d.inflight = s.next /\ d.next = m /\ d.got = s.got /\ d.backlog = s.backlog
    BY <2>1 DEF Outs
  <2>6. d.refused = s.refused /\ d.dropped = s.dropped
    BY <2>1 DEF Outs
  <2> HIDE DEF d
  <2>7. ASSUME InOrder(s) PROVE InOrder(d)
    <3>1. s.backlog = <<>> /\ s.next = s.got + 1
      BY <1>2, <2>7 DEF InOrder
    <3>2. Len(d.backlog) = 0
      BY <2>5, <3>1
    <3> QED
      BY <2>2, <2>5, <3>1, <3>2 DEF InOrder, m
  <2> QED
    BY <2>3, <2>4, <2>6, <2>7 DEF Good
<1> QED
  BY <1>1, <1>2 DEF httpdUnbufferedSend

LEMMA NoOutputGood == Good(NoOutput)
<1>1. <<>> \in Backlogs
  BY EmptySeq DEF Backlogs
<1>2. NoOutput \in Outs
  BY <1>1 DEF NoOutput, Outs
<1>3. InOrder(NoOutput)
  BY DEF InOrder, NoOutput
<1> QED
  BY <1>2, <1>3 DEF Good

LEMMA FlushGood == ASSUME Good(out), NEW full, httpdFlushSendBuffer(full) PROVE Good(out')
BY SendGood DEF httpdFlushSendBuffer

\* Nothing waits behind the buffer that has arrived.
LEMMA ArrivedGood ==
  ASSUME Good(out), out.inflight # 0, out.backlog = <<>>
  PROVE  /\ Good(Arrived) /\ Arrived.inflight = 0
         /\ Arrived.refused = out.refused /\ Arrived.dropped = out.dropped
         /\ out.refused \/ out.dropped \/ Arrived.next = Arrived.got + 1
<1> DEFINE g == out.got + 1
           d == [out EXCEPT !.got = g, !.inflight = 0]
<1>1. out \in Outs
  BY DEF Good
<1>2. out.next \in Nat /\ out.got \in Nat /\ out.inflight \in Nat /\ g \in Nat
  BY GoodIs
<1>3. Arrived = d
  BY <1>1 DEF Arrived, Outs
<1> HIDE DEF g
<1>4. d \in Outs
  BY <1>1, <1>2 DEF Outs
<1>5. d.got = g /\ d.inflight = 0 /\ d.next = out.next /\ d.backlog = out.backlog
  BY <1>1 DEF Outs
<1>6. d.refused = out.refused /\ d.dropped = out.dropped
  BY <1>1 DEF Outs
<1> HIDE DEF d
<1>7. Len(out.backlog) = 0
  OBVIOUS
<1>8. ASSUME InOrder(out) PROVE InOrder(d) /\ d.next = d.got + 1
  <2>1. out.inflight = out.got + 1 /\ out.next = out.inflight + Len(out.backlog) + 1
    BY <1>8 DEF InOrder
  <2>2. out.next = g + 1
    BY <1>2, <1>7, <2>1 DEF g
  <2> QED
    BY <1>5, <2>2 DEF InOrder
<1> QED
  BY <1>3, <1>4, <1>5, <1>6, <1>8 DEF Good

LEMMA BacklogGood == ASSUME Good(out), out.inflight # 0, FromBacklog PROVE Good(out')
<1> DEFINE h == Head(out.backlog)
           q == Tail(out.backlog)
           g == out.got + 1
           L == Len(out.backlog)
           a == [out EXCEPT !.got = g, !.inflight = h, !.backlog = q]
           b == [out EXCEPT !.got = g, !.inflight = 0, !.refused = TRUE, !.backlog = q]
<1>1. out \in Outs
  BY DEF Good
<1>2. out.next \in Nat /\ out.got \in Nat /\ out.inflight \in Nat /\ L \in Nat /\ g \in Nat
  BY GoodIs
<1>3. out.backlog \in Seq(Nat) /\ out.backlog # <<>>
  BY GoodIs DEF FromBacklog
<1>4. out' = a \/ out' = b
  BY <1>1 DEF FromBacklog, Arrived, Outs
<1>5. h \in Nat /\ q \in Backlogs /\ Len(q) = L - 1
      /\ \A i \in 1..Len(q) : q[i] = out.backlog[i + 1]
  BY <1>3, HeadTailProperties DEF Backlogs
<1>6. L # 0 /\ h = out.backlog[1]
  BY <1>3, EmptySeq
<1>7. InOrder(out) =>
        /\ out.inflight = out.got + 1 /\ out.next = out.inflight + L + 1
        /\ \A i \in 1..L : out.backlog[i] = out.inflight + i
  BY DEF InOrder
<1> HIDE DEF h, q, L, g
<1>8. CASE out' = a
  <2>1. a \in Outs
    BY <1>1, <1>2, <1>5 DEF Outs
  <2>2. a.got = g /\ a.inflight = h /\ a.backlog = q /\ a.next = out.next
    BY <1>1 DEF Outs
  <2>3. a.refused = out.refused /\ a.dropped = out.dropped
    BY <1>1 DEF Outs
  <2> HIDE DEF a
  <2>4. ASSUME InOrder(out) PROVE InOrder(a)
    <3>1. h = out.inflight + 1
      BY <1>2, <1>6, <1>7, <2>4
    <3>2. h # 0
      BY <1>2, <3>1
    <3>3. h = g + 1
      BY <1>2, <1>7, <2>4, <3>1 DEF g
    <3>4. out.next = h + Len(q) + 1
      BY <1>2, <1>5, <1>7, <2>4, <3>1
    <3>5. ASSUME NEW i \in 1..Len(q) PROVE q[i] = h + i
      <4>1. i + 1 \in 1..L /\ i \in Int
        BY <1>2, <1>5
      <4>2. q[i] = out.backlog[i + 1]
        BY <1>5
      <4>3. out.backlog[i + 1] = out.inflight + (i + 1)
        BY <1>7, <2>4, <4>1
      <4>4. out.inflight + (i + 1) = h + i
        BY <1>2, <3>1, <4>1
      <4> QED
        BY <4>2, <4>3, <4>4
    <3> QED
      BY <2>2, <3>2, <3>3, <3>4, <3>5 DEF InOrder
  <2> QED
    BY <1>8, <2>1, <2>3, <2>4 DEF Good
<1>9. CASE out' = b
  <2>1. b \in Outs
    BY <1>1, <1>2, <1>5 DEF Outs
  <2>2. b.refused
    BY <1>1 DEF Outs
  <2> QED
    BY <1>9, <2>1, <2>2 DEF Good
<1> QED
  BY <1>4, <1>8, <1>9

-----------------------------------------------------------------------------
(* The answer. *)

LEMMA SentAnswering == ASSUME Answering, httpdSentCb PROVE Answering'
<1>1. /\ connection = "open" /\ ~inRecv /\ inRecv' = inRecv /\ Good(out) /\ out.inflight # 0
  BY DEF Answering, httpdSentCb
<1>2. CASE FromBacklog
  BY <1>1, <1>2, BacklogGood DEF Answering, OpenInRecv, FromBacklog
<1>3. CASE Disconnects /\ connection' = "closing" /\ out' = Arrived
  BY <1>1, <1>3, ArrivedGood DEF Answering, OpenInRecv, Disconnects
<1>4. CASE out.backlog = <<>> /\ connection' = connection
           /\ (out' = Arrived \/ out' \in httpdUnbufferedSend(Arrived))
  BY <1>1, <1>4, ArrivedGood, SendGood DEF Answering, OpenInRecv
<1> QED
  BY <1>2, <1>3, <1>4 DEF httpdSentCb

LEMMA AnsweringStep == ASSUME Answering, [Next]_vars PROVE Answering'
<1>0. Good(out) /\ OpenInRecv
  BY DEF Answering
<1>1. CASE UNCHANGED vars
  BY <1>1 DEF vars, served, Answering, OpenInRecv
<1>2. ASSUME NEW n \in Segments, Receive(n) PROVE Answering'
  BY <1>0, <1>2 DEF Receive, Answering, OpenInRecv
<1>3. ASSUME httpdProcessRequest PROVE Good(out')
  BY <1>0, <1>3, FlushGood DEF httpdProcessRequest
<1>4. CASE HeaderBytes
  <2>1. connection = "open" /\ connection' = connection /\ inRecv' = inRecv
    BY <1>0, <1>4 DEF HeaderBytes, Work, OpenInRecv
  <2>2. Good(out')
    BY <1>0, <1>3, <1>4 DEF HeaderBytes
  <2> QED
    BY <1>0, <2>1, <2>2 DEF Answering, OpenInRecv
<1>5. CASE BodyBytes
  <2>1. connection = "open" /\ connection' = connection /\ inRecv' = inRecv
    BY <1>0, <1>5 DEF BodyBytes, Work, OpenInRecv
  <2>2. Good(out')
    BY <1>0, <1>3, <1>5 DEF BodyBytes, callCGI
  <2> QED
    BY <1>0, <2>1, <2>2 DEF Answering, OpenInRecv
<1>6. CASE Unexpected
  BY <1>0, <1>6 DEF Unexpected, Work, Answering, OpenInRecv
<1>7. CASE RecvEnd
  BY <1>0, <1>7, FlushGood DEF RecvEnd, Answering, OpenInRecv
<1>8. CASE CgiSends
  BY <1>0, <1>8, SendGood DEF CgiSends, Answering, OpenInRecv
<1>9. CASE httpdDisconCb
  BY <1>0, <1>9 DEF httpdDisconCb, Answering, OpenInRecv
<1>10. CASE httpdConnectCb
  BY <1>0, <1>10, NoOutputGood DEF httpdConnectCb, Answering, OpenInRecv
<1> QED
  BY <1>1, <1>2, <1>4, <1>5, <1>6, <1>7, <1>8, <1>9, <1>10, SentAnswering DEF Next, Receiving

\* However the network confirms, and however many buffers wait, the answer arrives in order
\* (httpdUnbufferedSend, httpdSentCb).
THEOREM InSequence == Spec => []AnswerInOrder
<1>1. Init => Answering
  BY NoOutputGood DEF Init, Answering, OpenInRecv
<1>2. Answering /\ [Next]_vars => Answering'
  BY AnsweringStep
<1>3. Answering => AnswerInOrder
  BY DEF Answering, Good, InOrder, AnswerInOrder
<1> QED
  BY <1>1, <1>2, <1>3, PTL DEF Spec

-----------------------------------------------------------------------------
(* The body. *)

LEMMA LeastIs ==
  ASSUME NEW a \in Nat, NEW b \in Nat
  PROVE  Least(a, b) \in Nat /\ Least(a, b) <= a /\ Least(a, b) <= b /\ Least(a, b) \in {a, b}
BY DEF Least

LEMMA HeaderCounted == ASSUME Counted, HeaderBytes PROVE Counted'
<1> DEFINE n == Least(left, request.head - at)
<1>1. /\ at \in Nat /\ left \in Nat /\ request.head \in Nat \ {0} /\ request.len \in Nat
      /\ post = NoPost /\ at < request.head /\ MaxPost \in Nat \ {0}
  BY HttpdAssumption DEF Counted, BytesTyped, HeaderFirst, HeaderBytes
<1>2. n \in Nat /\ n <= left /\ n <= request.head - at /\ request.head - at \in Nat
  <2>1. request.head - at \in Nat
    BY <1>1
  <2> QED
    BY <1>1, <2>1, LeastIs
<1> HIDE DEF n
<1>3. at' = at + n /\ left' = left - n /\ request' = request
  BY DEF HeaderBytes, Work, n
<1>4. BytesTyped'
  BY <1>1, <1>2, <1>3 DEF Counted, BytesTyped
<1>5. CASE at + n < request.head /\ post' = post
  <2>1. PostTyped'
    BY <1>5 DEF Counted, PostTyped, Posts
  <2>2. HeaderFirst' /\ BodyOnce'
    BY <1>1, <1>3, <1>5 DEF HeaderFirst, BodyOnce, NoPost
  <2> QED
    BY <1>4, <2>1, <2>2 DEF Counted
<1>6. CASE at + n >= request.head /\ post' = httpdParseHeader
  <2>1. Least(request.len, MaxPost) \in Nat
    BY <1>1, LeastIs
  <2>2. /\ post'.len = request.len /\ post'.size = Least(request.len, MaxPost)
        /\ post'.buffLen = 0 /\ post'.received = 0 /\ post'.given = 0
    BY <1>6 DEF httpdParseHeader, NoPost
  <2>3. PostTyped'
    BY <1>1, <1>6, <2>1 DEF PostTyped, Posts, httpdParseHeader, NoPost
  <2>4. at' = request.head
    BY <1>1, <1>2, <1>3, <1>6
  <2>5. request.len > 0 => 0 < Least(request.len, MaxPost)
    BY <1>1 DEF Least
  <2>6. HeaderFirst' /\ BodyOnce'
    BY <1>1, <1>3, <2>1, <2>2, <2>4, <2>5 DEF HeaderFirst, BodyOnce
  <2> QED
    BY <1>4, <2>3, <2>6 DEF Counted
<1> QED
  BY <1>1, <1>2, <1>5, <1>6 DEF HeaderBytes, n

LEMMA BodyCounted == ASSUME Counted, BodyBytes PROVE Counted'
<1> DEFINE room == Least(left, post.size - post.buffLen)
           n == IF post.received < post.len THEN Least(room, post.len - post.received) ELSE room
           u == post.buffLen + n
           v == post.received + n
           p == [post EXCEPT !.buffLen = u, !.received = v]
           w == post.given + u
           f == [p EXCEPT !.buffLen = 0, !.given = w]
<1>1. /\ at \in Nat /\ left \in Nat /\ request.head \in Nat \ {0} /\ request.len \in Nat
      /\ post.len \in Nat /\ post.size \in Nat /\ post.buffLen \in Nat
      /\ post.received \in Nat /\ post.given \in Nat /\ post.len > 0
  BY DEF Counted, BytesTyped, PostTyped, Posts, BodyBytes
<1>2. /\ post.buffLen < post.size /\ at = request.head + post.received
      /\ post.given + post.buffLen = post.received
  BY <1>1 DEF Counted, HeaderFirst, BodyOnce
<1>3. room \in Nat /\ room <= left
  <2>1. post.size - post.buffLen \in Nat
    BY <1>1, <1>2
  <2> QED
    BY <1>1, <2>1, LeastIs
<1>4. n \in Nat /\ n <= left
  <2>1. CASE post.received < post.len
    <3>1. post.len - post.received \in Nat
      BY <1>1, <2>1
    <3> QED
      BY <1>1, <1>3, <2>1, <3>1, LeastIs
  <2> QED
    BY <1>3, <2>1
<1>5. u \in Nat /\ v \in Nat /\ w \in Nat
  BY <1>1, <1>4
<1>6. /\ at' = at + n /\ left' = left - n /\ request' = request
      /\ post' = IF Full(p) THEN f ELSE p
  BY DEF BodyBytes, Work, Counted, PostTyped, Posts
<1> HIDE DEF n, room, u, v, w
<1>7. p \in Posts
  BY <1>5 DEF Counted, PostTyped, Posts
<1>8. /\ p.len = post.len /\ p.size = post.size /\ p.buffLen = u
      /\ p.received = v /\ p.given = post.given
  BY DEF Counted, PostTyped, Posts
<1> HIDE DEF p
<1>9. f \in Posts
  BY <1>5, <1>7 DEF Posts
<1>10. f.len = post.len /\ f.size = post.size /\ f.buffLen = 0 /\ f.received = v /\ f.given = w
  BY <1>7, <1>8 DEF Posts
<1> HIDE DEF f
<1>11. PostTyped' /\ BytesTyped'
  <2>1. PostTyped'
    BY <1>6, <1>7, <1>9 DEF PostTyped, Posts
  <2>2. BytesTyped'
    BY <1>1, <1>4, <1>6 DEF Counted, BytesTyped
  <2> QED
    BY <2>1, <2>2
<1>12. CASE Full(p)
  <2>1. /\ at' = request.head + post'.received /\ post'.given + post'.buffLen = post'.received
        /\ post'.buffLen < post'.size /\ post'.buffLen = 0 /\ post'.len > 0
    BY <1>1, <1>2, <1>4, <1>6, <1>10, <1>12 DEF u, v, w
  <2> QED
    BY <1>1, <1>6, <1>11, <2>1 DEF Counted, BytesTyped, PostTyped, Posts, HeaderFirst, BodyOnce
<1>13. CASE ~Full(p)
  <2>1. p.buffLen < p.size /\ p.received # p.len
    BY <1>1, <1>5, <1>8, <1>13 DEF Full
  <2>2. /\ at' = request.head + post'.received /\ post'.given + post'.buffLen = post'.received
        /\ post'.buffLen < post'.size /\ post'.received # post'.len /\ post'.len > 0
    BY <1>1, <1>2, <1>4, <1>6, <1>8, <1>13, <2>1 DEF u, v, w
  <2> QED
    BY <1>1, <1>6, <1>11, <2>2 DEF Counted, BytesTyped, PostTyped, Posts, HeaderFirst, BodyOnce
<1> QED
  BY <1>12, <1>13

LEMMA CountedStep == ASSUME Counted, [Next]_vars PROVE Counted'
<1>1. CASE UNCHANGED <<request, at, left, post>>
  BY <1>1 DEF Counted, PostTyped, Posts, BytesTyped, HeaderFirst, BodyOnce
<1>2. ASSUME NEW n \in Segments, Receive(n) PROVE Counted'
  <2>1. n \in Nat /\ left' = n /\ UNCHANGED <<request, at, post>>
    BY <1>2, HttpdAssumption DEF Receive
  <2> QED
    BY <2>1 DEF Counted, PostTyped, Posts, BytesTyped, HeaderFirst, BodyOnce
<1>3. CASE Unexpected
  <2>1. /\ at \in Nat /\ left \in Nat /\ post.len = 0 /\ at' = at + left /\ left' = left - left
        /\ UNCHANGED <<request, post>>
    BY <1>3 DEF Counted, BytesTyped, Unexpected, Work
  <2> QED
    BY <2>1 DEF Counted, PostTyped, Posts, BytesTyped, HeaderFirst, BodyOnce
<1>4. CASE httpdConnectCb
  <2>1. /\ request' \in Requests /\ at' = 0 /\ left' = 0 /\ post' = NoPost
        /\ request'.head \in Nat \ {0} /\ request'.len \in Nat
    BY <1>4, HttpdAssumption DEF httpdConnectCb
  <2> QED
    BY <2>1 DEF Counted, PostTyped, Posts, BytesTyped, HeaderFirst, BodyOnce, NoPost
<1>5. CASE UNCHANGED vars \/ RecvEnd \/ httpdSentCb \/ CgiSends \/ httpdDisconCb
  BY <1>1, <1>5 DEF vars, RecvEnd, httpdSentCb, CgiSends, httpdDisconCb
<1> QED
  BY <1>2, <1>3, <1>4, <1>5, HeaderCounted, BodyCounted DEF Next, Receiving

\* However a body is cut, and however long it is, its bytes are given to the CGI once
\* (httpdRecvCb).
THEOREM GivenOnce == Spec => []BodyOnce
<1>1. Init => Counted
  BY HttpdAssumption
     DEF Init, Counted, PostTyped, Posts, BytesTyped, HeaderFirst, BodyOnce, NoPost
<1>2. Counted /\ [Next]_vars => Counted'
  BY CountedStep
<1>3. Counted => BodyOnce
  BY DEF Counted
<1> QED
  BY <1>1, <1>2, <1>3, PTL DEF Spec

-----------------------------------------------------------------------------
(* The WebSocket. *)

\* Only a WebSocket that is there is being read.
BusyIsOpen == Busy => socket = "open"

LEMMA ReadsOpen == WsInit => BusyIsOpen /\ ClosedOnce
  BY DEF WsInit, BusyIsOpen, Busy, ClosedOnce

LEMMA ClosesOnce ==
  ASSUME BusyIsOpen, ClosedOnce, [WsNext]_wsVars
  PROVE  BusyIsOpen' /\ ClosedOnce'
<1>1. CASE UNCHANGED wsVars
  BY <1>1 DEF BusyIsOpen, ClosedOnce, Busy, wsVars
<1>2. CASE NextFrame \/ Send \/ Close \/ wsSentCb
  BY <1>2 DEF BusyIsOpen, ClosedOnce, Busy, NextFrame, Send, Close, wsSentCb
<1>3. ASSUME NEW n \in Stretches, FrameBytes(n) PROVE BusyIsOpen' /\ ClosedOnce'
  BY <1>3 DEF BusyIsOpen, ClosedOnce, Busy, FrameBytes
<1>4. CASE wsDisconCb
  BY <1>4 DEF BusyIsOpen, ClosedOnce, Busy, wsDisconCb, websockFree
<1>5. ASSUME Busy, UNCHANGED <<socket, closeCbs>> PROVE BusyIsOpen' /\ ClosedOnce'
  BY <1>5 DEF BusyIsOpen, ClosedOnce
<1>6. ASSUME Busy, Finish PROVE BusyIsOpen' /\ ClosedOnce'
  BY <1>6 DEF BusyIsOpen, ClosedOnce, Busy, Finish, websockFree
<1>7. CASE HeaderByte
  BY <1>5, <1>7 DEF HeaderByte, Busy
<1>8. \A n : Consume(n) => UNCHANGED <<socket, closeCbs>>
  BY DEF Consume
<1>9. CASE Ping \/ Data \/ CloseFrame \/ Pong
  BY <1>5, <1>6, <1>8, <1>9 DEF Ping, Data, CloseFrame, Pong, AtPayload
<1>10. QED
  BY <1>1, <1>2, <1>3, <1>4, <1>7, <1>9 DEF WsNext, cgiWebSocketRecv

\* The application learns once, and only once, that a WebSocket is gone (websockFree).
THEOREM ToldOnce == WsSpec => []ClosedOnce
  BY ReadsOpen, ClosesOnce, PTL DEF WsSpec

-----------------------------------------------------------------------------

\* m \div b without its last place, and with it again.
LEMMA PlaceRead ==
  ASSUME NEW m \in Nat, NEW b \in Nat \ {0}, NEW c \in Nat \ {0}
  PROVE  (m \div (b * c)) * b + ((m \div c) % b) = m \div c
<1> DEFINE q == m \div c
<1>1. q \in Nat /\ q * c <= m /\ m < (q + 1) * c
  OBVIOUS
<1> HIDE DEF q
<1> DEFINE p == q \div b
<1>2. p \in Nat /\ q = b * p + (q % b) /\ q % b \in 0 .. b - 1
  <2>1. q \in Nat
    BY <1>1
  <2> QED
    BY <2>1
<1>3. p * b <= q /\ q + 1 <= (p + 1) * b /\ (p + 1) * b = p * b + b
  BY <1>1, <1>2
<1> HIDE DEF p
<1>4. p * b * c <= q * c /\ (q + 1) * c <= (p + 1) * b * c
  BY <1>1, <1>2, <1>3
<1>5. m \div (b * c) = p
  <2> DEFINE d == b * c
  <2>1. d \in Nat \ {0} /\ p * b * c = p * d /\ (p + 1) * b * c = (p + 1) * d
    BY <1>2
  <2>2. p * d <= m /\ m < (p + 1) * d /\ (p + 1) * d = p * d + d
    BY <1>1, <1>2, <1>4, <2>1
  <2> HIDE DEF d
  <2>3. m - p * d \in 0 .. d - 1 /\ m = p * d + (m - p * d)
    BY <1>2, <2>1, <2>2
  <2>4. m \div d = p
    BY <1>2, <2>1, <2>2, <2>3
  <2> QED
    BY <2>4 DEF d
<1> QED
  BY <1>2, <1>5 DEF q, p

\* The places of a length.
LEMMA Places ==
  /\ Base ^ 0 = 1
  /\ \A k \in 0..8 : Base ^ k \in Nat \ {0}
  /\ \A k \in 0..7 : Base ^ (k + 1) = Base * Base ^ k
<1>1. Base \in Nat \ {0}
  BY WsAssumption
<1>2. \A k \in 0..7 : Base ^ k \in Nat \ {0} => Base ^ (k + 1) \in Nat \ {0}
  BY <1>1, PlacesAssumption
<1>3. Base ^ 0 \in Nat \ {0}
  BY PlacesAssumption
<1>4. Base ^ 1 \in Nat \ {0} /\ Base ^ 2 \in Nat \ {0} /\ Base ^ 3 \in Nat \ {0}
  BY <1>2, <1>3, 0 + 1 = 1, 1 + 1 = 2, 2 + 1 = 3
<1>5. Base ^ 4 \in Nat \ {0} /\ Base ^ 5 \in Nat \ {0} /\ Base ^ 6 \in Nat \ {0}
  BY <1>2, <1>4, 3 + 1 = 4, 4 + 1 = 5, 5 + 1 = 6
<1>6. Base ^ 7 \in Nat \ {0} /\ Base ^ 8 \in Nat \ {0}
  BY <1>2, <1>5, 6 + 1 = 7, 7 + 1 = 8
<1>7. \A k \in 0..8 : k = 0 \/ k = 1 \/ k = 2 \/ k = 3 \/ k = 4 \/ k = 5 \/ k = 6 \/ k = 7 \/ k = 8
  OBVIOUS
<1> QED
  BY <1>3, <1>4, <1>5, <1>6, <1>7, PlacesAssumption

\* What the parser has of the frame it is in.
KindRead == /\ fr.opcode = frame.opcode /\ fr.fin = frame.fin
            /\ fr.masked = frame.masked /\ fr.form = frame.form

AtFlags == wsStatus = ST_FLAGS /\ ~fresh /\ (worked = 0 \/ worked = FrameSize(frame))

AtLen0 == /\ wsStatus = ST_LEN0 /\ ~fresh /\ worked = 1 /\ maskCtr = 0
          /\ fr.opcode = frame.opcode /\ fr.fin = frame.fin

\* The state is the number of bytes read, and the length is what they say of it.
AtLength ==
  /\ wsStatus \in ST_LEN1..ST_LEN8 /\ ~fresh /\ maskCtr = 0 /\ KindRead
  /\ worked = wsStatus /\ worked < 2 + Extension(frame)
  /\ fr.len = frame.len \div Base ^ (2 + Extension(frame) - worked)

AtMask ==
  /\ wsStatus \in ST_MASK1..ST_MASK4 /\ ~fresh /\ maskCtr = 0 /\ KindRead
  /\ frame.masked /\ worked = wsStatus - ST_MASK1 + 2 + Extension(frame)
  /\ fr.len = frame.len

\* What is left of the length is what is left of the frame, and the next byte of the mask
\* is the one for the next byte of the payload.
InPayload ==
  /\ wsStatus = ST_PAYLOAD /\ KindRead
  /\ worked \in HeaderSize(frame)..FrameSize(frame) /\ fr.len = FrameSize(frame) - worked
  /\ maskCtr \in Nat /\ maskCtr % 4 = (worked - HeaderSize(frame)) % 4
  /\ fr.len = 0 => fresh
  /\ fresh => worked = HeaderSize(frame)

\* A WebSocket that is there is in step with its client.
Parsed ==
  /\ frame \in Frames /\ worked \in Nat /\ remains \in Nat /\ fresh \in BOOLEAN
  /\ fr \in [opcode : Opcodes, fin : BOOLEAN, masked : BOOLEAN,
             form : {"short", "medium", "long"}, len : Nat]
  /\ socket = "open" => AtFlags \/ AtLen0 \/ AtLength \/ AtMask \/ InPayload

\* The types of a frame.
LEMMA FrameTypes ==
  ASSUME NEW f \in Frames
  PROVE  /\ f.opcode \in Opcodes /\ f.fin \in BOOLEAN /\ f.masked \in BOOLEAN
         /\ f.form \in {"short", "medium", "long"} /\ f.len \in Nat
         /\ Extension(f) \in 0..8 /\ (Extension(f) = 0 <=> f.form = "short")
         /\ (f.form = "medium" => Extension(f) = 2) /\ (f.form = "long" => Extension(f) = 8)
         /\ HeaderSize(f) \in Nat /\ HeaderSize(f) >= 2 + Extension(f)
         /\ (f.masked => HeaderSize(f) = 6 + Extension(f))
         /\ (~f.masked => HeaderSize(f) = 2 + Extension(f))
         /\ FrameSize(f) = HeaderSize(f) + f.len /\ FrameSize(f) \in Nat
         /\ f.form # "short" => f.len < Base ^ Extension(f)
<1>1. /\ f.opcode \in Opcodes /\ f.fin \in BOOLEAN /\ f.masked \in BOOLEAN
      /\ f.form \in {"short", "medium", "long"} /\ f.len \in Nat
      /\ f.form # "short" => f.len < Base ^ Extension(f)
  BY WsAssumption
<1>2. /\ Extension(f) \in 0..8 /\ (Extension(f) = 0 <=> f.form = "short")
      /\ (f.form = "medium" => Extension(f) = 2) /\ (f.form = "long" => Extension(f) = 8)
  BY <1>1 DEF Extension
<1> QED
  BY <1>1, <1>2 DEF HeaderSize, FrameSize

LEMMA FreshIff ==
  ASSUME fresh' = (wsStatus' = ST_PAYLOAD)
  PROVE  fresh' \in BOOLEAN /\ (fresh' <=> wsStatus' = ST_PAYLOAD)
<1>1. fresh' \in BOOLEAN
  BY SMT
<1>2. fresh' <=> wsStatus' = ST_PAYLOAD
  BY Zenon
<1> QED
  BY <1>1, <1>2

LEMMA ParsedBegins == WsInit => Parsed
<1> SUFFICES ASSUME WsInit PROVE Parsed
  OBVIOUS
<1>1. /\ fr \in [opcode : Opcodes, fin : BOOLEAN, masked : BOOLEAN,
                 form : {"short", "medium", "long"}, len : Nat]
  BY DEF WsInit, Opcodes
<1>2. AtFlags /\ frame \in Frames /\ worked \in Nat /\ remains \in Nat /\ fresh \in BOOLEAN
  BY DEF WsInit, AtFlags
<1> QED
  BY <1>1, <1>2 DEF Parsed

\* The first byte of a header, and the second.
LEMMA FlagsParsed ==
  ASSUME Parsed, socket = "open", HeaderByte, wsStatus = ST_FLAGS
  PROVE  Parsed' /\ wsStatus' # ST_PAYLOAD
<1>0. /\ frame \in Frames
      /\ fr \in [opcode : Opcodes, fin : BOOLEAN, masked : BOOLEAN,
                 form : {"short", "medium", "long"}, len : Nat]
  BY DEF Parsed
<1>1. frame.opcode \in Opcodes /\ frame.fin \in BOOLEAN /\ FrameSize(frame) >= 2
      /\ HeaderSize(frame) \in Nat /\ FrameSize(frame) \in Nat /\ HeaderSize(frame) >= 2
  BY <1>0, FrameTypes
<1>2. worked = 0
  BY <1>1 DEF Parsed, HeaderByte, AtFlags, AtLen0, AtLength, AtMask, InPayload,
              ST_FLAGS, ST_LEN0, ST_LEN1, ST_LEN8, ST_MASK1, ST_MASK4, ST_PAYLOAD
<1>3. /\ maskCtr' = 0 /\ fr' = [fr EXCEPT !.opcode = frame.opcode, !.fin = frame.fin]
      /\ wsStatus' = ST_LEN0 /\ fresh' = (wsStatus' = ST_PAYLOAD) /\ frame' = frame
      /\ remains > 0 /\ remains' = remains - 1 /\ worked' = 1
  BY <1>2 DEF HeaderByte, ST_FLAGS, ST_LEN0, ST_LEN1, ST_LEN8, ST_MASK1, ST_MASK4, ST_PAYLOAD
<1>4. /\ fr' \in [opcode : Opcodes, fin : BOOLEAN, masked : BOOLEAN,
                  form : {"short", "medium", "long"}, len : Nat]
      /\ fr'.opcode = frame.opcode /\ fr'.fin = frame.fin
  BY <1>0, <1>1, <1>3
<1>5. ~fresh' /\ fresh' \in BOOLEAN
  BY <1>3, FreshIff DEF ST_LEN0, ST_PAYLOAD
<1>6. AtLen0'
  BY <1>3, <1>4, <1>5 DEF AtLen0
<1>7. frame' \in Frames /\ worked' \in Nat /\ remains' \in Nat
  BY <1>0, <1>3 DEF Parsed
<1>8. wsStatus' # ST_PAYLOAD
  BY <1>3 DEF ST_LEN0, ST_PAYLOAD
<1> QED
  BY <1>4, <1>5, <1>6, <1>7, <1>8 DEF Parsed

\* The bytes of a header leave the socket, the frame and the rest of the segment so.
LEMMA HeaderMoves ==
  ASSUME Parsed, HeaderByte
  PROVE  /\ frame \in Frames /\ frame' = frame /\ socket' = socket
         /\ worked' \in Nat /\ worked' = worked + 1 /\ remains' \in Nat
         /\ fresh' \in BOOLEAN /\ (fresh' <=> wsStatus' = ST_PAYLOAD)
<1>1. fresh' \in BOOLEAN /\ (fresh' <=> wsStatus' = ST_PAYLOAD)
  BY FreshIff DEF HeaderByte
<1> QED
  BY <1>1 DEF HeaderByte, Parsed

LEMMA Len0Parsed ==
  ASSUME Parsed, socket = "open", HeaderByte, wsStatus = ST_LEN0
  PROVE  Parsed'
<1>0. /\ frame \in Frames
      /\ fr \in [opcode : Opcodes, fin : BOOLEAN, masked : BOOLEAN,
                 form : {"short", "medium", "long"}, len : Nat]
  BY DEF Parsed
<1> DEFINE f == frame
<1>1. /\ f.masked \in BOOLEAN /\ f.form \in {"short", "medium", "long"} /\ f.len \in Nat
      /\ Extension(f) \in 0..8 /\ (Extension(f) = 0 <=> f.form = "short")
      /\ HeaderSize(f) \in Nat
      /\ (f.masked => HeaderSize(f) = 6 + Extension(f))
      /\ (~f.masked => HeaderSize(f) = 2 + Extension(f))
      /\ FrameSize(f) = HeaderSize(f) + f.len
      /\ f.form # "short" => f.len < Base ^ Extension(f)
  BY <1>0, FrameTypes
<1>2. AtLen0
  BY DEF Parsed, AtFlags, AtLen0, AtLength, AtMask, InPayload,
         ST_FLAGS, ST_LEN0, ST_LEN1, ST_LEN8, ST_MASK1, ST_MASK4, ST_PAYLOAD
<1>3. /\ maskCtr' = maskCtr
      /\ fr' = [fr EXCEPT !.masked = f.masked, !.form = f.form,
                          !.len = IF f.form = "short" THEN f.len ELSE 0]
      /\ wsStatus' = IF f.form = "short" THEN HeaderEnd(f.masked) ELSE ST_LEN1
  BY DEF HeaderByte, ST_FLAGS, ST_LEN0, ST_LEN1, ST_LEN8, ST_MASK1, ST_MASK4, ST_PAYLOAD
<1>4. /\ fr' \in [opcode : Opcodes, fin : BOOLEAN, masked : BOOLEAN,
                  form : {"short", "medium", "long"}, len : Nat]
      /\ fr'.opcode = f.opcode /\ fr'.fin = f.fin /\ fr'.masked = f.masked
      /\ fr'.form = f.form /\ fr'.len = IF f.form = "short" THEN f.len ELSE 0
  BY <1>0, <1>1, <1>2, <1>3 DEF AtLen0
<1>5. /\ frame' = f /\ socket' = socket /\ worked' = 2 /\ remains' \in Nat
      /\ fresh' \in BOOLEAN /\ (fresh' <=> wsStatus' = ST_PAYLOAD) /\ maskCtr' = 0
  BY <1>2, <1>3, HeaderMoves DEF AtLen0
<1>6. KindRead'
  BY <1>4, <1>5 DEF KindRead
<1>7. CASE f.form = "short" /\ f.masked
  <2>1. wsStatus' = ST_MASK1
    BY <1>3, <1>7 DEF HeaderEnd
  <2>2. AtMask'
    BY <1>1, <1>4, <1>5, <1>6, <1>7, <2>1 DEF AtMask, ST_MASK1, ST_MASK4, ST_PAYLOAD
  <2> QED
    BY <1>0, <1>4, <1>5, <2>2 DEF Parsed
<1>8. CASE f.form = "short" /\ ~f.masked
  <2>1. wsStatus' = ST_PAYLOAD
    BY <1>3, <1>8 DEF HeaderEnd
  <2>2. InPayload'
    BY <1>1, <1>4, <1>5, <1>6, <1>8, <2>1 DEF InPayload
  <2> QED
    BY <1>0, <1>4, <1>5, <2>2 DEF Parsed
<1>9. CASE f.form # "short"
  <2>1. wsStatus' = ST_LEN1
    BY <1>3, <1>9
  <2>2. f.len \div Base ^ Extension(f) = 0
    <3>1. Base ^ Extension(f) \in Nat \ {0} /\ f.len < Base ^ Extension(f)
      BY <1>1, <1>9, Places
    <3> DEFINE b == Base ^ Extension(f)
    <3> HIDE DEF b
    <3>2. f.len \in Nat /\ b \in Nat \ {0} /\ f.len < b => f.len \div b = 0
      OBVIOUS
    <3> QED
      BY <1>1, <3>1, <3>2 DEF b
  <2>3. AtLength'
    BY <1>1, <1>4, <1>5, <1>6, <1>9, <2>1, <2>2 DEF AtLength, ST_LEN1, ST_LEN8, ST_PAYLOAD
  <2> QED
    BY <1>0, <1>4, <1>5, <2>3 DEF Parsed
<1> QED
  BY <1>1, <1>7, <1>8, <1>9

LEMMA LengthParsed ==
  ASSUME Parsed, socket = "open", HeaderByte, wsStatus \in ST_LEN1..ST_LEN8
  PROVE  Parsed'
<1> DEFINE f == frame
           k == 2 + Extension(f) - worked
<1>0. /\ f \in Frames
      /\ fr \in [opcode : Opcodes, fin : BOOLEAN, masked : BOOLEAN,
                 form : {"short", "medium", "long"}, len : Nat]
  BY DEF Parsed
<1>1. /\ f.masked \in BOOLEAN /\ f.form \in {"short", "medium", "long"} /\ f.len \in Nat
      /\ Extension(f) \in 0..8 /\ (Extension(f) = 0 <=> f.form = "short")
      /\ (f.form = "medium" => Extension(f) = 2) /\ (f.form = "long" => Extension(f) = 8)
      /\ HeaderSize(f) \in Nat
      /\ (f.masked => HeaderSize(f) = 6 + Extension(f))
      /\ (~f.masked => HeaderSize(f) = 2 + Extension(f))
      /\ FrameSize(f) = HeaderSize(f) + f.len
  BY <1>0, FrameTypes
<1>2. AtLength
  BY DEF Parsed, AtFlags, AtLen0, AtLength, AtMask, InPayload,
         ST_FLAGS, ST_LEN0, ST_LEN1, ST_LEN8, ST_MASK1, ST_MASK4, ST_PAYLOAD
<1>3. /\ maskCtr' = maskCtr
      /\ fr' = [fr EXCEPT !.len = fr.len * Base + LengthByte(f, worked + 1)]
      /\ wsStatus' = IF LengthEnds THEN HeaderEnd(fr.masked) ELSE wsStatus + 1
  BY DEF HeaderByte, ST_FLAGS, ST_LEN0, ST_LEN1, ST_LEN8, ST_MASK1, ST_MASK4, ST_PAYLOAD
<1>4. k \in 1..8 /\ wsStatus \in 2..9 /\ worked = wsStatus /\ maskCtr = 0 /\ KindRead
  BY <1>1, <1>2 DEF AtLength, ST_LEN1, ST_LEN8
<1>5. LengthEnds <=> k = 1
  BY <1>1, <1>2, <1>4 DEF LengthEnds, KindRead, AtLength, ST_LEN1, ST_LEN2, ST_LEN8
<1>6. fr.len * Base + LengthByte(f, worked + 1) = f.len \div Base ^ (k - 1)
  <2> DEFINE c == Base ^ (k - 1)
  <2>1. c \in Nat \ {0} /\ Base ^ k = Base * c /\ Base \in Nat \ {0}
    <3>1. k - 1 \in 0..7 /\ (k - 1) + 1 = k
      BY <1>4
    <3> QED
      BY <3>1, Places, WsAssumption
  <2>2. fr.len = f.len \div Base ^ k
    BY <1>2 DEF AtLength
  <2>3. LengthByte(f, worked + 1) = (f.len \div c) % Base
    <3>1. 2 + Extension(f) - (worked + 1) = k - 1
      BY <1>1, <1>4
    <3> QED
      BY <3>1 DEF LengthByte
  <2>4. \A m \in Nat, b, d \in Nat \ {0} : (m \div (b * d)) * b + ((m \div d) % b) = m \div d
    BY PlaceRead
  <2>5. (f.len \div (Base * c)) * Base + ((f.len \div c) % Base) = f.len \div c
    <3>1. f.len \in Nat
      BY <1>1
    <3> HIDE DEF c, f, k
    <3> QED
      BY <2>1, <2>4, <3>1
  <2> QED
    BY <2>1, <2>2, <2>3, <2>5, Zenon
<1>7. f.len \div Base ^ (k - 1) \in Nat /\ f.len \div Base ^ 0 = f.len
  <2>1. k - 1 \in 0..8 /\ Base ^ 0 = 1
    BY <1>4, Places
  <2> DEFINE c == Base ^ (k - 1)
  <2>2. c \in Nat \ {0}
    BY <2>1, Places
  <2> HIDE DEF c
  <2>3. f.len \div c \in Nat
    BY <1>1, <2>2
  <2> QED
    BY <1>1, <2>1, <2>3 DEF c
<1> HIDE DEF k
<1>8. /\ fr' \in [opcode : Opcodes, fin : BOOLEAN, masked : BOOLEAN,
                  form : {"short", "medium", "long"}, len : Nat]
      /\ fr'.opcode = f.opcode /\ fr'.fin = f.fin /\ fr'.masked = f.masked
      /\ fr'.form = f.form /\ fr'.len = f.len \div Base ^ (k - 1)
  BY <1>0, <1>3, <1>4, <1>6, <1>7 DEF KindRead
<1>9. /\ frame' = f /\ socket' = socket /\ worked' = worked + 1 /\ remains' \in Nat
      /\ worked' \in Nat
      /\ fresh' \in BOOLEAN /\ (fresh' <=> wsStatus' = ST_PAYLOAD) /\ maskCtr' = 0
  BY <1>3, <1>4, HeaderMoves
<1>10. KindRead'
  BY <1>8, <1>9 DEF KindRead
<1>11. CASE k = 1 /\ f.masked
  <2>1. wsStatus' = ST_MASK1 /\ fr'.len = f.len /\ worked' = 2 + Extension(f)
    BY <1>1, <1>3, <1>4, <1>5, <1>7, <1>8, <1>9, <1>11 DEF HeaderEnd, KindRead, k
  <2>2. AtMask'
    BY <1>1, <1>9, <1>10, <1>11, <2>1 DEF AtMask, ST_MASK1, ST_MASK4, ST_PAYLOAD
  <2> QED
    BY <1>0, <1>8, <1>9, <2>2 DEF Parsed
<1>12. CASE k = 1 /\ ~f.masked
  <2>1. wsStatus' = ST_PAYLOAD /\ fr'.len = f.len /\ worked' = 2 + Extension(f)
    BY <1>1, <1>3, <1>4, <1>5, <1>7, <1>8, <1>9, <1>12 DEF HeaderEnd, KindRead, k
  <2>2. InPayload'
    BY <1>1, <1>9, <1>10, <1>12, <2>1 DEF InPayload
  <2> QED
    BY <1>0, <1>8, <1>9, <2>2 DEF Parsed
<1>13. CASE k # 1
  <2>0. wsStatus' = wsStatus + 1
    BY <1>3, <1>5, <1>13, Zenon
  <2>1. wsStatus' = worked' /\ worked' < 2 + Extension(f) /\ worked' \in 3..9
        /\ 2 + Extension(f) - worked' = k - 1
    BY <1>1, <1>4, <1>9, <1>13, <2>0 DEF k
  <2>2. AtLength'
    BY <1>1, <1>8, <1>9, <1>10, <2>1 DEF AtLength, ST_LEN1, ST_LEN8, ST_PAYLOAD
  <2> QED
    BY <1>0, <1>8, <1>9, <2>2 DEF Parsed
<1> QED
  BY <1>1, <1>11, <1>12, <1>13

LEMMA MaskParsed ==
  ASSUME Parsed, socket = "open", HeaderByte, wsStatus \in ST_MASK1..ST_MASK4
  PROVE  Parsed'
<1> DEFINE f == frame
<1>0. f \in Frames
  BY DEF Parsed
<1>1. /\ f.masked \in BOOLEAN /\ f.len \in Nat /\ Extension(f) \in 0..8
      /\ HeaderSize(f) \in Nat /\ (f.masked => HeaderSize(f) = 6 + Extension(f))
      /\ FrameSize(f) = HeaderSize(f) + f.len
  BY <1>0, FrameTypes
<1>2. AtMask
  BY DEF Parsed, AtFlags, AtLen0, AtLength, AtMask, InPayload,
         ST_FLAGS, ST_LEN0, ST_LEN1, ST_LEN8, ST_MASK1, ST_MASK4, ST_PAYLOAD
<1>3. /\ maskCtr' = maskCtr /\ fr' = fr /\ wsStatus' = wsStatus + 1
  BY DEF HeaderByte, ST_FLAGS, ST_LEN0, ST_LEN1, ST_LEN8, ST_MASK1, ST_MASK4, ST_PAYLOAD
<1>4. /\ frame' = f /\ socket' = socket /\ worked' = worked + 1 /\ remains' \in Nat
      /\ worked' \in Nat /\ fresh' \in BOOLEAN /\ (fresh' <=> wsStatus' = ST_PAYLOAD)
  BY HeaderMoves
<1>5. /\ fr' \in [opcode : Opcodes, fin : BOOLEAN, masked : BOOLEAN,
                  form : {"short", "medium", "long"}, len : Nat]
  BY <1>3 DEF Parsed
<1>6. KindRead' /\ maskCtr' = 0 /\ fr'.len = f.len
  BY <1>2, <1>3, <1>4 DEF AtMask, KindRead
<1>7. wsStatus \in 10..13 /\ worked = wsStatus - 8 + Extension(f) /\ f.masked
  BY <1>1, <1>2 DEF AtMask, ST_MASK1, ST_MASK4
<1>8. CASE wsStatus = ST_MASK4
  <2>1. InPayload'
    BY <1>1, <1>3, <1>4, <1>6, <1>7, <1>8 DEF InPayload, ST_MASK4, ST_PAYLOAD
  <2> QED
    BY <1>0, <1>4, <1>5, <2>1 DEF Parsed
<1>9. CASE wsStatus # ST_MASK4
  <2>1. wsStatus' \in 10..13 /\ worked' = wsStatus' - 8 + Extension(f) /\ ~fresh'
    BY <1>1, <1>3, <1>4, <1>7, <1>9 DEF ST_MASK4, ST_PAYLOAD
  <2>2. AtMask'
    BY <1>1, <1>4, <1>6, <1>7, <2>1 DEF AtMask, ST_MASK1, ST_MASK4
  <2> QED
    BY <1>0, <1>4, <1>5, <2>2 DEF Parsed
<1> QED
  BY <1>8, <1>9

LEMMA HeaderParsed ==
  ASSUME Parsed, socket = "open", HeaderByte
  PROVE  Parsed'
<1>1. wsStatus = ST_FLAGS \/ wsStatus = ST_LEN0 \/ wsStatus \in ST_LEN1..ST_LEN8
      \/ wsStatus \in ST_MASK1..ST_MASK4
  BY DEF HeaderByte
<1> QED
  BY <1>1, FlagsParsed, Len0Parsed, LengthParsed, MaskParsed

\* A stretch of the payload.
LEMMA StretchParsed ==
  ASSUME Parsed, socket = "open", AtPayload, Consume(Stretch)
  PROVE  /\ Parsed' /\ InPayload /\ frame' = frame /\ socket' = socket
         /\ Stretch \in 0..fr.len /\ fr'.opcode = fr.opcode /\ fr'.masked = fr.masked
         /\ worked' = worked + Stretch
         /\ IF fr.len = Stretch THEN wsStatus' = ST_FLAGS ELSE wsStatus' = wsStatus
<1> DEFINE f == frame
           n == Stretch
<1>0. /\ f \in Frames
      /\ fr \in [opcode : Opcodes, fin : BOOLEAN, masked : BOOLEAN,
                 form : {"short", "medium", "long"}, len : Nat]
      /\ worked \in Nat /\ remains \in Nat
  BY DEF Parsed
<1>1. /\ f.len \in Nat /\ HeaderSize(f) \in Nat /\ FrameSize(f) = HeaderSize(f) + f.len
  BY <1>0, FrameTypes
<1>2. InPayload
  BY DEF Parsed, AtPayload, AtFlags, AtLen0, AtLength, AtMask, InPayload,
         ST_FLAGS, ST_LEN0, ST_LEN1, ST_LEN8, ST_MASK1, ST_MASK4, ST_PAYLOAD
<1>3. n \in 0..fr.len /\ n <= remains /\ fr.len \in Nat
  BY <1>0 DEF Stretch
<1>5. /\ maskCtr' = (maskCtr + n) % 256 /\ fr' = [fr EXCEPT !.len = @ - n]
      /\ worked' = worked + n /\ remains' = remains - n /\ fresh' = FALSE
      /\ frame' = f /\ socket' = socket
      /\ IF fr.len = n THEN wsStatus' = ST_FLAGS ELSE wsStatus' = wsStatus
  BY DEF Consume
<1> HIDE DEF n
<1>6. /\ fr' \in [opcode : Opcodes, fin : BOOLEAN, masked : BOOLEAN,
                  form : {"short", "medium", "long"}, len : Nat]
      /\ fr'.opcode = fr.opcode /\ fr'.fin = fr.fin /\ fr'.masked = fr.masked
      /\ fr'.form = fr.form /\ fr'.len = fr.len - n
  BY <1>0, <1>3, <1>5
<1>4. fresh' \in BOOLEAN /\ ~fresh'
  BY <1>5, Zenon
<1>7. worked' \in Nat /\ remains' \in Nat /\ fresh' \in BOOLEAN /\ ~fresh'
  BY <1>0, <1>3, <1>4, <1>5
<1>8. CASE fr.len = n
  <2>1. AtFlags'
    BY <1>0, <1>1, <1>2, <1>3, <1>5, <1>7, <1>8 DEF AtFlags, InPayload
  <2> QED
    BY <1>0, <1>2, <1>3, <1>5, <1>6, <1>7, <2>1 DEF Parsed, n
<1>9. CASE fr.len # n
  <2>1. KindRead'
    BY <1>2, <1>5, <1>6 DEF InPayload, KindRead
  <2>2. maskCtr' \in Nat /\ maskCtr' % 4 = (worked' - HeaderSize(f)) % 4
    <3>1. maskCtr \in Nat /\ maskCtr % 4 = (worked - HeaderSize(f)) % 4
          /\ worked - HeaderSize(f) \in Nat /\ n \in Nat
      BY <1>0, <1>1, <1>2, <1>3 DEF InPayload
    <3>2. \A m, q, j \in Nat : m % 4 = q % 4 =>
            (m + j) % 256 \in Nat /\ ((m + j) % 256) % 4 = (q + j) % 4
      OBVIOUS
    <3>3. worked' - HeaderSize(f) = (worked - HeaderSize(f)) + n
      BY <1>0, <1>1, <1>3, <1>5
    <3> QED
      BY <1>5, <3>1, <3>2, <3>3
  <2>3. InPayload'
    BY <1>0, <1>1, <1>2, <1>3, <1>5, <1>6, <1>7, <1>9, <2>1, <2>2 DEF InPayload
  <2> QED
    BY <1>0, <1>2, <1>3, <1>5, <1>6, <1>7, <2>3 DEF Parsed, n
<1> QED
  BY <1>8, <1>9

\* The WebSocket is gone, or goes: there is nothing to be in step with.
LEMMA GoneParsed ==
  ASSUME Parsed, frame' = frame, worked' \in Nat, fr' = fr, remains' \in Nat,
         fresh' \in BOOLEAN, socket' # "open"
  PROVE  Parsed'
  BY DEF Parsed

\* cgiWebSocketRecv on a payload: what it does to the parser.
LEMMA PayloadWays ==
  ASSUME Ping \/ Data \/ CloseFrame \/ Pong
  PROVE  AtPayload /\ (Consume(Stretch) \/ Finish)
  BY DEF Ping, Data, CloseFrame, Pong

LEMMA ParsedStep ==
  ASSUME Parsed, BusyIsOpen, [WsNext]_wsVars
  PROVE  Parsed'
<1>0. /\ frame \in Frames /\ worked \in Nat /\ remains \in Nat /\ fresh \in BOOLEAN
      /\ fr \in [opcode : Opcodes, fin : BOOLEAN, masked : BOOLEAN,
                 form : {"short", "medium", "long"}, len : Nat]
  BY DEF Parsed
<1>1. ASSUME UNCHANGED <<frame, worked, fresh, parser>>, remains' \in Nat,
             socket' = "open" => socket = "open"
      PROVE  Parsed'
  <2>1. AtFlags' <=> AtFlags
    BY <1>1 DEF AtFlags, parser
  <2>2. AtLen0' <=> AtLen0
    BY <1>1 DEF AtLen0, parser
  <2>3. KindRead' <=> KindRead
    BY <1>1 DEF KindRead, parser
  <2>4. AtLength' <=> AtLength
    BY <1>1, <2>3 DEF AtLength, parser
  <2>5. AtMask' <=> AtMask
    BY <1>1, <2>3 DEF AtMask, parser
  <2>6. InPayload' <=> InPayload
    BY <1>1, <2>3 DEF InPayload, parser
  <2> QED
    BY <1>1, <2>1, <2>2, <2>4, <2>5, <2>6 DEF Parsed, parser
<1>2. CASE UNCHANGED wsVars \/ Send \/ Close \/ wsSentCb \/ wsDisconCb
  BY <1>0, <1>1, <1>2 DEF wsVars, Send, Close, wsSentCb, wsDisconCb
<1>3. ASSUME NEW n \in Stretches, FrameBytes(n) PROVE Parsed'
  <2>1. n \in Nat
    BY WsAssumption
  <2> QED
    BY <1>0, <1>1, <1>3, <2>1 DEF FrameBytes
<1>4. CASE NextFrame
  <2>1. /\ frame' \in Frames /\ worked' = 0 /\ remains' = remains /\ fresh' = fresh /\ ~fresh
        /\ wsStatus' = wsStatus /\ fr' = fr /\ socket' = socket /\ worked = FrameSize(frame)
    BY <1>4 DEF NextFrame, parser
  <2>2. socket = "open" => wsStatus = ST_FLAGS
    <3>1. /\ Extension(frame) \in 0..8 /\ HeaderSize(frame) \in Nat /\ frame.len \in Nat
          /\ HeaderSize(frame) >= 2 + Extension(frame)
          /\ (frame.masked => HeaderSize(frame) = 6 + Extension(frame))
          /\ FrameSize(frame) = HeaderSize(frame) + frame.len
      BY <1>0, FrameTypes
    <3>2. ~AtLen0 /\ ~AtLength
      BY <2>1, <3>1 DEF AtLen0, AtLength
    <3>3. ~AtMask
      BY <2>1, <3>1 DEF AtMask, ST_MASK1, ST_MASK4
    <3>4. ~InPayload
      BY <2>1, <3>1 DEF InPayload
    <3> QED
      BY <3>2, <3>3, <3>4 DEF Parsed, AtFlags
  <2>3. socket' = "open" => AtFlags'
    BY <2>1, <2>2 DEF AtFlags
  <2> QED
    BY <1>0, <2>1, <2>3 DEF Parsed
<1>5. CASE HeaderByte
  <2>1. Busy
    BY <1>5 DEF HeaderByte, Busy
  <2> QED
    BY <1>5, <2>1, HeaderParsed DEF BusyIsOpen
<1>6. CASE Ping \/ Data \/ CloseFrame \/ Pong
  <2>1. AtPayload /\ (Consume(Stretch) \/ Finish)
    BY <1>6, PayloadWays
  <2>2. socket = "open"
    BY <2>1 DEF AtPayload, BusyIsOpen
  <2>3. CASE Finish
    <3> DEFINE n == IF worked + remains > FrameSize(frame) THEN FrameSize(frame) - worked
                    ELSE remains
    <3>1. FrameSize(frame) \in Nat /\ worked \in Nat /\ remains \in Nat
      BY <1>0, FrameTypes DEF Parsed
    <3>2. worked + n \in Nat
      BY <3>1
    <3>3. worked' = worked + n
      BY <2>3 DEF Finish
    <3>4. /\ frame' = frame /\ fr' = fr /\ remains' \in Nat /\ fresh' \in BOOLEAN
          /\ socket' # "open"
      BY <2>3 DEF Finish, parser
    <3> HIDE DEF n
    <3>5. worked' \in Nat
      BY <3>2, <3>3
    <3> QED
      BY <1>0, <3>4, <3>5, GoneParsed
  <2> QED
    BY <2>1, <2>2, <2>3, StretchParsed
<1> QED
  BY <1>2, <1>3, <1>4, <1>5, <1>6 DEF WsNext, cgiWebSocketRecv

-----------------------------------------------------------------------------
(* What cgiwebsocket.c does is what WsStream says. *)

\* The frame's message is one there is.
LEMMA MessageTypes ==
  ASSUME NEW f \in Frames
  PROVE  Message(f) # None /\ Message(f) \in {Message(g) : g \in Frames} /\ Message(f).len = f.len
         /\ Message(f).opcode = f.opcode /\ Message(f).fin = f.fin
<1>1. Message(f) \in [opcode : Opcodes, fin : BOOLEAN, len : Nat]
  BY FrameTypes DEF Message
<1> QED
  BY <1>1, WsAssumption DEF Message

LEMMA StreamBegins == WsInit => Stream!Init
  BY DEF WsInit, Stream!Init, InData, ST_FLAGS, ST_PAYLOAD

\* What the application sees stays as it is.
LEMMA StreamRests ==
  ASSUME socket' = "open" <=> socket = "open", InData' <=> InData, piece' = piece,
         InData => UNCHANGED <<frame, worked>>
  PROVE  UNCHANGED Stream!vars
<1>1. (IF InData THEN Message(frame) ELSE None)' = IF InData THEN Message(frame) ELSE None
  BY DEF Message
<1>2. (IF InData THEN worked - HeaderSize(frame) ELSE 0)'
        = IF InData THEN worked - HeaderSize(frame) ELSE 0
  <2>1. CASE InData
    <3>1. HeaderSize(frame)' = HeaderSize(frame)
      BY <2>1 DEF HeaderSize, Extension
    <3> QED
      BY <2>1, <3>1
  <2>2. CASE ~InData
    BY <2>2
  <2> QED
    BY <2>1, <2>2
<1> QED
  BY <1>1, <1>2 DEF Stream!vars

\* websockFree: the end.
LEMMA StreamEnds ==
  ASSUME socket = "open", socket' # "open", piece' = piece
  PROVE  Stream!End
  BY DEF Stream!End, InData

\* The last byte of a header: the pieces of a data frame are to come.
LEMMA StreamHeader ==
  ASSUME Parsed, Parsed', socket = "open", HeaderByte
  PROVE  Stream!Next \/ UNCHANGED Stream!vars
<1>1. /\ frame \in Frames /\ frame' = frame /\ socket' = socket /\ piece' = piece
      /\ ~InData /\ (fresh' <=> wsStatus' = ST_PAYLOAD)
  BY HeaderMoves DEF HeaderByte, InData
<1>2. CASE InData'
  <2>1. InPayload'
    BY <1>1, <1>2 DEF Parsed, InData, AtFlags, AtLen0, AtLength, AtMask,
                      ST_FLAGS, ST_LEN0, ST_LEN1, ST_LEN8, ST_MASK1, ST_MASK4, ST_PAYLOAD
  <2>2. worked' = HeaderSize(frame') /\ HeaderSize(frame') \in Nat
    <3>1. fresh'
      BY <1>1, <1>2 DEF InData
    <3> QED
      BY <1>1, <2>1, <3>1, FrameTypes DEF InPayload
  <2>3. (IF InData THEN Message(frame) ELSE None)' = Message(frame)
    BY <1>1, <1>2 DEF Message
  <2>4. (IF InData THEN worked - HeaderSize(frame) ELSE 0)' = 0
    <3>1. (worked - HeaderSize(frame))' = 0
      BY <2>2
    <3> QED
      BY <1>2, <3>1
  <2>5. Stream!Begin(Message(frame))
    BY <1>1, <2>3, <2>4 DEF Stream!Begin
  <2> QED
    BY <1>1, <2>5, MessageTypes DEF Stream!Next
<1>3. CASE ~InData'
  BY <1>1, <1>3, StreamRests
<1> QED
  BY <1>2, <1>3

\* recvCb: a piece.
LEMMA StreamPiece ==
  ASSUME Parsed, Parsed', socket = "open", Data, fr.masked, Consume(Stretch)
  PROVE  Stream!Next
<1> DEFINE m == Message(frame)
           h == HeaderSize(frame)
           n == Stretch
<1>1. /\ AtPayload /\ fr.opcode \in DataOpcodes
      /\ piece' = [from |-> worked - h, count |-> n, opcode |-> fr.opcode,
                   fin |-> fr.fin, clear |-> maskCtr % 4 = (worked - h) % 4]
  <2>1. socket' = socket
    BY DEF Consume
  <2> QED
    BY <2>1 DEF Data, Finish
<1>2. /\ InPayload /\ frame' = frame /\ socket' = socket /\ n \in 0..fr.len
      /\ fr'.opcode = fr.opcode /\ fr'.masked = fr.masked /\ worked' = worked + n
      /\ IF fr.len = n THEN wsStatus' = ST_FLAGS ELSE wsStatus' = wsStatus
  BY <1>1, StretchParsed
<1>3. frame \in Frames /\ worked \in Nat
  BY DEF Parsed
<1>4. m # None /\ m \in {Message(g) : g \in Frames} /\ m.len = frame.len
      /\ m.opcode = fr.opcode /\ m.fin = fr.fin
  BY <1>2, <1>3, MessageTypes DEF InPayload, KindRead
<1>5. /\ h \in Nat /\ frame.len \in Nat /\ worked >= h
      /\ fr.len = frame.len - (worked - h)
  BY <1>2, <1>3, FrameTypes DEF InPayload
<1>6. InData
  BY <1>1, <1>2 DEF InData, InPayload
<1>7. InData' <=> fr.len # n
  BY <1>2, <1>6 DEF InData, ST_FLAGS, ST_PAYLOAD
<1>8. fr.len = n <=> (worked - h) + n = m.len
  BY <1>2, <1>3, <1>4, <1>5
<1>9. n \in 0..m.len /\ (worked - h) + n <= m.len
  BY <1>2, <1>3, <1>4, <1>5
<1>10. (maskCtr % 4 = (worked - h) % 4) = TRUE
  BY <1>2 DEF InPayload
<1>11. m' = m /\ h' = h
  BY <1>2 DEF Message, HeaderSize, Extension
<1>12. worked' - h = (worked - h) + n
  BY <1>2, <1>3, <1>5
<1> HIDE DEF m, h, n
<1>13. piece' = [from |-> worked - h, count |-> n, opcode |-> m.opcode, fin |-> m.fin,
                 clear |-> TRUE]
  BY <1>1, <1>4, <1>10, Zenon
<1>14. (IF InData THEN m ELSE None)' = IF (worked - h) + n = m.len THEN None ELSE m
  BY <1>7, <1>8, <1>11
<1>15. (IF InData THEN worked - h ELSE 0)'
         = IF (worked - h) + n = m.len THEN 0 ELSE (worked - h) + n
  BY <1>7, <1>8, <1>11, <1>12
<1>16. /\ (IF InData THEN m ELSE None) = m
       /\ (IF InData THEN worked - h ELSE 0) = worked - h
  BY <1>6
<1>17. Stream!Piece(n)
  BY <1>2, <1>4, <1>9, <1>13, <1>14, <1>15, <1>16 DEF Stream!Piece, m, h
<1> QED
  BY <1>4, <1>9, <1>17 DEF Stream!Next

LEMMA StreamStep ==
  ASSUME Parsed, BusyIsOpen, [WsNext]_wsVars
  PROVE  [Stream!Next]_(Stream!vars)
<1>0. Parsed' /\ frame \in Frames
  BY ParsedStep DEF Parsed
<1>1. CASE UNCHANGED wsVars \/ Send \/ Close
  <2>1. UNCHANGED <<frame, worked, parser, socket, piece>>
    BY <1>1 DEF wsVars, Send, Close
  <2>2. InData' <=> InData
    BY <2>1 DEF InData, parser
  <2> QED
    BY <2>1, <2>2, StreamRests
<1>2. ASSUME NEW n \in Stretches, FrameBytes(n) PROVE UNCHANGED Stream!vars
  <2>1. UNCHANGED <<frame, worked, parser, socket, piece>>
    BY <1>2 DEF FrameBytes
  <2>2. InData' <=> InData
    BY <2>1 DEF InData, parser
  <2> QED
    BY <2>1, <2>2, StreamRests
<1>3. CASE wsSentCb
  <2>1. /\ UNCHANGED <<frame, worked, parser, piece>>
        /\ socket' = "open" <=> socket = "open"
    BY <1>3 DEF wsSentCb
  <2>2. InData' <=> InData
    BY <2>1 DEF InData, parser
  <2> QED
    BY <2>1, <2>2, StreamRests
<1>4. CASE wsDisconCb
  <2>1. CASE socket = "open"
    BY <1>4, <2>1, StreamEnds DEF wsDisconCb, Stream!Next
  <2>2. CASE socket # "open"
    BY <1>4, <2>2, StreamRests DEF wsDisconCb, InData
  <2> QED
    BY <2>1, <2>2
<1>5. CASE NextFrame
  <2>1. /\ wsStatus' = wsStatus /\ fr' = fr /\ socket' = socket /\ piece' = piece
        /\ worked = FrameSize(frame) /\ ~fresh
    BY <1>5 DEF NextFrame, parser
  <2>2. ~InData
    <3>1. SUFFICES ASSUME InData PROVE FALSE
      OBVIOUS
    <3>2. InPayload
      BY <3>1 DEF Parsed, InData, AtFlags, AtLen0, AtLength, AtMask,
                  ST_FLAGS, ST_LEN0, ST_LEN1, ST_LEN8, ST_MASK1, ST_MASK4, ST_PAYLOAD
    <3> QED
      BY <1>0, <2>1, <3>2, FrameTypes DEF InPayload
  <2>3. ~InData'
    BY <2>1, <2>2 DEF InData
  <2> QED
    BY <2>1, <2>2, <2>3, StreamRests
<1>6. CASE HeaderByte
  <2>1. Busy
    BY <1>6 DEF HeaderByte, Busy
  <2> QED
    BY <1>0, <1>6, <2>1, StreamHeader DEF BusyIsOpen
<1>7. CASE Ping \/ Data \/ CloseFrame \/ Pong
  <2>1. AtPayload /\ (Consume(Stretch) \/ Finish)
    BY <1>7, PayloadWays
  <2>2. socket = "open"
    BY <2>1 DEF AtPayload, BusyIsOpen
  <2>3. CASE Finish
    BY <2>2, <2>3, StreamEnds DEF Finish, Stream!Next
  <2>4. CASE Consume(Stretch) /\ Data
    <3>1. fr.masked
      BY <2>2, <2>4 DEF Data, Finish, Consume
    <3> QED
      BY <1>0, <2>2, <2>4, <3>1, StreamPiece
  <2>5. CASE Consume(Stretch) /\ (Ping \/ CloseFrame \/ Pong)
    <3>1. fr.opcode \in {"ping", "close", "pong"} /\ piece' = piece
      BY <2>5 DEF Ping, CloseFrame, Pong, Finish
    <3>2. fr'.opcode = fr.opcode /\ socket' = socket
      BY <2>1, <2>2, <2>5, StretchParsed
    <3>3. ~InData /\ ~InData'
      BY <3>1, <3>2 DEF InData, DataOpcodes
    <3> QED
      BY <3>1, <3>2, <3>3, StreamRests
  <2> QED
    BY <1>7, <2>1, <2>3, <2>4, <2>5
<1> QED
  BY <1>1, <1>2, <1>3, <1>4, <1>5, <1>6, <1>7 DEF WsNext, cgiWebSocketRecv

\* Whatever the client sends and however the network cuts it, the application gets the
\* payload of each data frame in consecutive pieces, unmasked, with the type of its frame,
\* and nothing after the end (cgiWebSocketRecv).
THEOREM PiecesInOrder == WsSpec => ImplementsWsStream
<1>1. WsInit => Parsed /\ BusyIsOpen /\ ClosedOnce
  BY ParsedBegins, ReadsOpen
<1>2. Parsed /\ BusyIsOpen /\ ClosedOnce /\ [WsNext]_wsVars
        => Parsed' /\ BusyIsOpen' /\ ClosedOnce'
  BY ParsedStep, ClosesOnce
<1>3. WsInit => Stream!Init
  BY StreamBegins
<1>4. Parsed /\ BusyIsOpen /\ [WsNext]_wsVars => [Stream!Next]_(Stream!vars)
  BY StreamStep
<1> QED
  BY <1>1, <1>2, <1>3, <1>4, PTL DEF WsSpec, ImplementsWsStream, Stream!Spec

-----------------------------------------------------------------------------
(* The upgrade. *)

\* m bytes of the body, after the b-th.
Run(b, m) == [i \in 1 .. m |-> b + i]

UploadStates == [state : {"NONE", "START", "SKIP", "WRITE", "DONE", "ERROR", "OVER"},
  file : Files \cup {NoFile}, at : Int, left : Int, len : Int, skip : Int, part : {1, 2},
  page : Seq(Int), address : Nat, mixed : BOOLEAN, bad : BOOLEAN]

\* The image an upload is to write.
Offset(r) == Before(r.file, r.part)
Whole(r) == Length(r.file, r.part)
PageOf(r, a) == Run(Offset(r) + a * PageLen, Smaller(PageLen, Whole(r) - a * PageLen))

\* The image is being written: pages, the beginning of a page, and what is still to come.
Underway(r) ==
  /\ r.at = Offset(r) + (Whole(r) - r.len)
  /\ Whole(r) - r.len = r.address * PageLen + Len(r.page)
  /\ Len(r.page) < PageLen
  /\ r.page = Run(Offset(r) + r.address * PageLen, Len(r.page))
  /\ r.len > 0 \/ (Whole(r) = 0 /\ r.address = 0)

Ahead(r) == r.page = <<>> /\ r.address = 0

\* Where an upload is, in each state; SKIP is before the image or behind it.  A length below
\* zero leads out of the body.
InStep(r) ==
  /\ r.state \notin {"NONE", "OVER"} => r.file \in Files
  /\ r.state = "START" => Ahead(r) /\ r.at = 0
  /\ r.state = "SKIP" /\ r.len > 0 => Ahead(r) /\ r.len = Whole(r) /\ r.at + r.skip = Offset(r)
  /\ r.state = "WRITE" /\ r.len >= 0 => Underway(r)

\* A page of the upload is in the flash.
Holds(r, f, a, data) == PartAt[r.part] + a < FlashPages /\ f[PartAt[r.part] + a] = data

AllThere(r, f) ==
  \A a \in Nat : a * PageLen < Whole(r) => a < r.address /\ Holds(r, f, a, PageOf(r, a))

\* The pages before the one being gathered are there; what follows it in its sector is
\* erased, unless it is the first of the sector.
PagesBefore(r, f) ==
  \A a \in Nat : a < r.address => Holds(r, f, a, Run(Offset(r) + a * PageLen, PageLen))
SectorErased(r, f) ==
  At(r) % SectorPages # 0 =>
    \A b \in 0 .. FlashPages - 1 : b >= At(r) /\ Sector(b) = Sector(At(r)) => f[b] = Erased

Stored(r, f) ==
  ~r.mixed /\ ~r.bad =>
    /\ r.state = "DONE" => AllThere(r, f)
    /\ r.state = "SKIP" /\ r.len = 0 => AllThere(r, f)
    /\ r.state = "WRITE" /\ r.len >= 0 => PagesBefore(r, f) /\ SectorErased(r, f)

UploadInv(r, f) == r \in UploadStates /\ InStep(r) /\ Stored(r, f)

Flash == [0 .. FlashPages - 1 -> Seq(Int)]

OtaInv ==
  /\ up \in [Uploads -> UploadStates] /\ pages \in Flash /\ running \in {1, 2}
  /\ \A u \in Uploads : UploadInv(up[u], pages)

-----------------------------------------------------------------------------
(* Runs of bytes, pages and sectors. *)

LEMMA RunSeq ==
  ASSUME NEW b \in Int, NEW m \in Nat
  PROVE  /\ Run(b, m) \in Seq(Int) /\ Len(Run(b, m)) = m
         /\ \A i \in 1 .. m : Run(b, m)[i] = b + i
<1>1. Run(b, m) \in [1 .. m -> Int]
  BY DEF Run
<1>2. Run(b, m) \in Seq(Int) /\ Len(Run(b, m)) = m
  BY <1>1
<1> QED
  BY <1>2 DEF Run

LEMMA RunGrows ==
  ASSUME NEW b \in Int, NEW m \in Nat, NEW k \in Nat
  PROVE  Run(b, m) \o [i \in 1 .. k |-> b + m + i] = Run(b, m + k)
<1> DEFINE x == Run(b, m)
           y == Run(b + m, k)
           z == Run(b, m + k)
<1>1. y = [i \in 1 .. k |-> b + m + i]
  BY DEF Run
<1>2. x \in Seq(Int) /\ Len(x) = m /\ \A i \in 1 .. m : x[i] = b + i
  BY RunSeq
<1>3. y \in Seq(Int) /\ Len(y) = k /\ \A i \in 1 .. k : y[i] = b + m + i
  BY RunSeq
<1>4. z \in Seq(Int) /\ Len(z) = m + k /\ \A i \in 1 .. m + k : z[i] = b + i
  BY RunSeq
<1> HIDE DEF x, y, z
<1>5. /\ x \o y \in Seq(Int) /\ Len(x \o y) = m + k
      /\ \A i \in 1 .. m + k : (x \o y)[i] = IF i <= m THEN x[i] ELSE y[i - m]
  <2>1. x \in Seq(Int) /\ y \in Seq(Int)
    BY <1>2, <1>3
  <2>2. /\ x \o y \in Seq(Int) /\ Len(x \o y) = Len(x) + Len(y)
        /\ \A i \in 1 .. Len(x) + Len(y) :
             (x \o y)[i] = IF i <= Len(x) THEN x[i] ELSE y[i - Len(x)]
    BY <2>1, ConcatProperties
  <2>3. Len(x) = m /\ Len(y) = k
    BY <1>2, <1>3
  <2> QED
    BY <2>2, <2>3
<1>6. ASSUME NEW i \in 1 .. m + k
      PROVE  (x \o y)[i] = z[i]
  <2>1. CASE i <= m
    BY <1>2, <1>4, <1>5, <2>1
  <2>2. CASE ~(i <= m)
    <3>1. i - m \in 1 .. k /\ b + m + (i - m) = b + i
      BY <2>2
    <3>2. y[i - m] = b + m + (i - m)
      BY <1>3, <3>1
    <3> QED
      BY <1>4, <1>5, <2>2, <3>1, <3>2
  <2> QED
    BY <2>1, <2>2
<1>7. x \o y = z
  BY <1>4, <1>5, <1>6, SeqEqual
<1> QED
  BY <1>1, <1>7 DEF x, y, z

LEMMA PagesApart ==
  ASSUME NEW n \in Nat \ {0}, NEW a \in Nat, NEW b \in Nat
  PROVE  /\ a * n \in Nat /\ (a + 1) * n = a * n + n
         /\ a < b => a * n + n <= b * n
         /\ a * n < b * n => a < b
<1>1. a * n \in Nat /\ b * n \in Nat /\ (a + 1) * n = a * n + n
  OBVIOUS
<1>2. \A c, d \in Nat : c <= d => c * n <= d * n
  OBVIOUS
<1>3. a < b => a + 1 <= b
  OBVIOUS
<1>4. a < b => (a + 1) * n <= b * n
  BY <1>2, <1>3
<1>5. ~(a < b) => b * n <= a * n
  BY <1>2
<1> QED
  BY <1>1, <1>4, <1>5

LEMMA SectorsApart ==
  ASSUME NEW n \in Nat \ {0}, NEW a \in Nat, NEW b \in Nat
  PROVE  /\ (a + 1) % n # 0 => (a + 1) \div n = a \div n
         /\ a % n = 0 /\ b < a => b \div n # a \div n
<1>1. \A c \in Nat : /\ c \div n \in Nat /\ (c % n) \in 0 .. n - 1
                     /\ c = n * (c \div n) + (c % n)
  OBVIOUS
<1>2. PICK q \in Nat, s \in 0 .. n - 1 : q = a \div n /\ s = a % n /\ a = n * q + s
  <2>1. a \div n \in Nat /\ (a % n) \in 0 .. n - 1 /\ a = n * (a \div n) + (a % n)
    BY <1>1
  <2> QED
    BY <2>1
<1>3. PICK p \in Nat, t \in 0 .. n - 1 :
        p = (a + 1) \div n /\ t = (a + 1) % n /\ a + 1 = n * p + t
  <2>1. a + 1 \in Nat
    OBVIOUS
  <2>2. /\ (a + 1) \div n \in Nat /\ ((a + 1) % n) \in 0 .. n - 1
        /\ a + 1 = n * ((a + 1) \div n) + ((a + 1) % n)
    BY <1>1, <2>1
  <2> QED
    BY <2>2
<1>4. PICK d \in Nat, e \in 0 .. n - 1 : d = b \div n /\ e = b % n /\ b = n * d + e
  <2>1. b \div n \in Nat /\ (b % n) \in 0 .. n - 1 /\ b = n * (b \div n) + (b % n)
    BY <1>1
  <2> QED
    BY <2>1
<1>5. /\ a = n * q + s /\ s \in 0 .. n - 1
      /\ a + 1 = n * p + t /\ t \in 0 .. n - 1
      /\ b = n * d + e /\ e \in 0 .. n - 1
  BY <1>2, <1>3, <1>4
<1>6. /\ n * q \in Nat /\ n * p \in Nat /\ n * d \in Nat
      /\ p < q => n * p + n <= n * q
      /\ q < p => n * q + n <= n * p
  <2>1. /\ n * q = q * n /\ n * p = p * n /\ n * d = d * n
    OBVIOUS
  <2> QED
    BY <2>1, PagesApart
<1>7. PICK nq \in Nat, np \in Nat, nd \in Nat : nq = n * q /\ np = n * p /\ nd = n * d
  BY <1>6
<1>8. t # 0 => p = q
  BY <1>5, <1>6, <1>7
<1>9. s = 0 /\ b < a => d # q
  BY <1>5, <1>6, <1>7
<1> QED
  BY <1>2, <1>3, <1>4, <1>8, <1>9

-----------------------------------------------------------------------------
(* One upload. *)

LEMMA Measures ==
  /\ PageLen \in Nat \ {0} /\ SectorPages \in Nat \ {0} /\ FwPages \in Nat \ {0}
  /\ HeaderLen \in Nat \ {0} /\ FlashPages \in Nat \ {0} /\ FwSize \in Nat
  /\ \A p \in {1, 2} : PartAt[p] \in Nat /\ PartAt[p] % SectorPages = 0
  /\ \A f \in Files : /\ f.kind \in {"ota", "bin", "other"}
                      /\ f.len1 \in Int /\ f.len2 \in Int /\ f.size \in Nat
                      /\ \A p \in {1, 2} : Before(f, p) \in Int /\ Length(f, p) \in Int
<1>1. /\ PageLen \in Nat \ {0} /\ SectorPages \in Nat \ {0} /\ FwPages \in Nat \ {0}
      /\ HeaderLen \in Nat \ {0} /\ FlashPages \in Nat \ {0}
  BY OtaAssumption
<1>2. FwSize \in Nat
  BY <1>1, PagesApart DEF FwSize
<1>3. ASSUME NEW f \in Files
      PROVE  /\ f.kind \in {"ota", "bin", "other"}
             /\ f.len1 \in Int /\ f.len2 \in Int /\ f.size \in Nat
  BY OtaAssumption
<1>4. \A f \in Files : \A p \in {1, 2} : Before(f, p) \in Int /\ Length(f, p) \in Int
  BY <1>1, <1>3 DEF Before, Length
<1>5. \A p \in {1, 2} : PartAt[p] \in Nat /\ PartAt[p] % SectorPages = 0
  BY OtaAssumption
<1> QED
  BY <1>1, <1>2, <1>3, <1>4, <1>5

\* Bytes go to the page.
LEMMA PageGrows ==
  ASSUME NEW r \in UploadStates, r.file \in Files, Underway(r),
         NEW n \in Nat, n <= r.len
  PROVE  /\ PageFilled(r, n) = [r EXCEPT !.left = r.left - n, !.at = r.at + n, !.len = r.len - n,
                                 !.page = Run(Offset(r) + r.address * PageLen, Len(r.page) + n)]
         /\ PageFilled(r, n) \in UploadStates
         /\ Len(PageFilled(r, n).page) = Len(r.page) + n
<1>1. /\ Offset(r) \in Int /\ Whole(r) \in Int /\ PageLen \in Nat /\ r.address * PageLen \in Nat
  <2>1. r.part \in {1, 2} /\ r.address \in Nat
    BY DEF UploadStates
  <2>2. Offset(r) \in Int /\ Whole(r) \in Int /\ PageLen \in Nat
    BY <2>1, Measures DEF Offset, Whole
  <2>3. r.address * PageLen \in Nat
    <3>1. PICK a \in Nat : a = r.address
      BY <2>1
    <3>2. PageLen \in Nat \ {0}
      BY Measures
    <3>3. a * PageLen \in Nat
      BY <3>1, <3>2, PagesApart
    <3> QED
      BY <3>1, <3>3
  <2> QED
    BY <2>2, <2>3
<1>2. /\ r.page \in Seq(Int) /\ Len(r.page) \in Nat /\ r.len \in Int /\ r.at \in Int /\ r.left \in Int
  BY DEF UploadStates
<1>3. PICK b \in Int : b = Offset(r) + r.address * PageLen
  BY <1>1
<1>4. r.at = b + Len(r.page) /\ r.page = Run(b, Len(r.page))
  <2>1. PICK m, f, w, l : m = r.address * PageLen /\ f = Offset(r) /\ w = Whole(r) /\ l = Len(r.page)
    OBVIOUS
  <2>2. /\ r.at = f + (w - r.len) /\ w - r.len = m + l
        /\ r.page = Run(f + m, l)
    BY <2>1 DEF Underway
  <2>3. m \in Nat /\ f \in Int /\ w \in Int /\ r.len \in Int /\ l \in Nat /\ b = f + m
    BY <1>1, <1>2, <1>3, <2>1
  <2>4. r.at = b + l /\ r.page = Run(b, l)
    BY <2>2, <2>3
  <2> QED
    BY <2>1, <2>4
<1>5. r.page \o [i \in 1 .. n |-> r.at + i] = Run(b, Len(r.page) + n)
  <2>1. PICK l \in Nat : l = Len(r.page)
    BY <1>2
  <2>2. Run(b, l) \o [i \in 1 .. n |-> b + l + i] = Run(b, l + n)
    <3>1. b \in Int
      OBVIOUS
    <3> QED
      BY <3>1, RunGrows
  <2> QED
    BY <1>4, <2>1, <2>2
<1>6. Run(b, Len(r.page) + n) \in Seq(Int) /\ Len(Run(b, Len(r.page) + n)) = Len(r.page) + n
  <2>1. PICK l \in Nat : l = Len(r.page) + n
    BY <1>2
  <2>2. Run(b, l) \in Seq(Int) /\ Len(Run(b, l)) = l
    <3>1. b \in Int
      OBVIOUS
    <3> QED
      BY <3>1, RunSeq
  <2> QED
    BY <2>1, <2>2
<1>7. PageFilled(r, n) = [r EXCEPT !.left = r.left - n, !.at = r.at + n, !.len = r.len - n,
                           !.page = r.page \o [i \in 1 .. n |-> r.at + i]]
  BY DEF PageFilled, Used, UploadStates
<1>8. r.len - n \in Int /\ r.left - n \in Int /\ r.at + n \in Int
  BY <1>2
<1> DEFINE g == Run(b, Len(r.page) + n)
<1>9. PageFilled(r, n) = [r EXCEPT !.left = r.left - n, !.at = r.at + n, !.len = r.len - n,
                           !.page = g]
  BY <1>5, <1>7
<1>10. g \in Seq(Int) /\ Len(g) = Len(r.page) + n
  BY <1>6
<1> HIDE DEF g
<1>11. PageFilled(r, n) \in UploadStates /\ PageFilled(r, n).page = g
  BY <1>8, <1>9, <1>10 DEF UploadStates
<1> QED
  BY <1>3, <1>9, <1>10, <1>11 DEF g

\* Neighbours in a sector, and what lies before it.
LEMMA Sectors ==
  ASSUME NEW a \in Nat, NEW b \in Nat
  PROVE  /\ (a + 1) % SectorPages # 0 => Sector(a + 1) = Sector(a)
         /\ a % SectorPages = 0 /\ b < a => Sector(b) # Sector(a)
<1>1. SectorPages \in Nat \ {0}
  BY Measures
<1> QED
  BY <1>1, SectorsApart DEF Sector

\* What WritePage makes of the upload and of the flash.
PageStep(r, f, erases, writes, t, s, next) ==
  /\ t = PageFilled(r, Needed(r))
  /\ s = [t EXCEPT !.page = <<>>, !.address = @ + 1,
            !.bad = @ \/ ~writes \/ (~erases /\ At(t) % SectorPages = 0),
            !.state = IF t.len > 0 THEN "WRITE" ELSE IF t.skip # 0 THEN "SKIP" ELSE "DONE"]
  /\ next = [Prepared(f, At(t), erases) EXCEPT ![At(t)] =
               IF writes THEN Programmed(@, t.page) ELSE @]
  /\ erases \/ writes => At(t) < FlashPages

\* What has been gathered is a page or the rest of the image.
LEMMA PageWritten ==
  ASSUME NEW r \in UploadStates, r.file \in Files, r.state = "WRITE", r.len >= 0, Underway(r),
         NEW f \in Flash, Stored(r, f),
         NEW erases \in BOOLEAN, NEW writes \in BOOLEAN, NEW t, NEW s, NEW next,
         PageStep(r, f, erases, writes, t, s, next)
  PROVE  UploadInv(s, next) /\ next \in Flash
<1> DEFINE A == r.address
           L == Len(r.page)
           k == Needed(r)
           b == Offset(r)
           n == Whole(r)
           base == PartAt[r.part]
           B == At(r)
           sure == erases \/ B % SectorPages # 0
<1>1. /\ PageLen \in Nat \ {0} /\ SectorPages \in Nat \ {0} /\ FlashPages \in Nat \ {0}
      /\ b \in Int /\ n \in Int /\ base \in Nat
  BY Measures DEF UploadStates, Offset, Whole
<1>2. /\ A \in Nat /\ L \in Nat /\ r.len \in Nat /\ r.at \in Int /\ r.left \in Int
      /\ B = base + A /\ B \in Nat
      /\ r.bad \in BOOLEAN /\ r.mixed \in BOOLEAN /\ r.skip \in Int
  BY <1>1 DEF UploadStates, At
<1>3. PICK p \in Nat : p = A * PageLen
  BY <1>1, <1>2, PagesApart
<1>4. /\ r.at = b + (n - r.len) /\ n - r.len = p + L /\ L < PageLen
      /\ r.len > 0 \/ (n = 0 /\ A = 0)
  BY <1>3 DEF Underway
<1>5. k = (IF PageLen - L < r.len THEN PageLen - L ELSE r.len)
  BY DEF Needed, Smaller
<1> HIDE DEF A, L, k, b, n, base, B, sure
<1>6. k \in Nat /\ k <= r.len /\ L + k <= PageLen
  <2>1. PICK e \in Nat : e = r.len
    BY <1>2
  <2>2. L < PageLen /\ L \in Nat /\ PageLen \in Nat
    BY <1>1, <1>2, <1>4
  <2>3. k = (IF PageLen - L < e THEN PageLen - L ELSE e)
    BY <1>5, <2>1
  <2>4. k \in Nat /\ k <= e /\ L + k <= PageLen
    BY <2>1, <2>2, <2>3
  <2> QED
    BY <2>1, <2>4
<1>7. /\ t = [r EXCEPT !.left = r.left - k, !.at = r.at + k, !.len = r.len - k,
                !.page = Run(b + A * PageLen, L + k)]
      /\ t \in UploadStates /\ Len(t.page) = L + k
  BY <1>6, PageGrows DEF PageStep, A, L, k, b, n
<1>8. n \in Nat /\ At(t) = B
  <2>1. PICK e \in Nat : e = r.len
    BY <1>2
  <2>2. n = p + L + e
    BY <1>1, <1>2, <1>4, <2>1
  <2>3. t.part = r.part /\ t.address = r.address
    BY <1>7 DEF UploadStates
  <2> QED
    BY <1>2, <2>2, <2>3 DEF At, B
<1> DEFINE g == Run(b + A * PageLen, L + k)
<1>9. g \in Seq(Int) /\ Len(g) = L + k
  <2>1. b + A * PageLen = b + p
    BY <1>3
  <2>2. PICK c \in Int, l \in Nat : c = b + p /\ l = L + k
    BY <1>1, <1>2, <1>6
  <2>3. Run(c, l) \in Seq(Int) /\ Len(Run(c, l)) = l
    BY RunSeq
  <2> QED
    BY <2>1, <2>2, <2>3
<1>10. g = <<>> => L + k = 0
  BY <1>9
<1> HIDE DEF g
<1>l. PICK lost \in BOOLEAN : lost = (r.bad \/ ~writes \/ ~sure)
  OBVIOUS
<1>11. /\ t.address = A /\ t.page = g /\ t.len = r.len - k /\ t.skip = r.skip
       /\ s = [r EXCEPT !.left = r.left - k, !.at = r.at + k, !.len = r.len - k,
                 !.page = <<>>, !.address = A + 1, !.bad = lost,
                 !.state = IF r.len - k > 0 THEN "WRITE" ELSE IF r.skip # 0 THEN "SKIP" ELSE "DONE"]
  <2>1. t = [r EXCEPT !.left = r.left - k, !.at = r.at + k, !.len = r.len - k, !.page = g]
    BY <1>7 DEF g
  <2>2. /\ t.address = A /\ t.page = g /\ t.len = r.len - k /\ t.skip = r.skip /\ t.bad = r.bad
    BY <2>1 DEF UploadStates, A
  <2>4. (r.bad \/ ~writes \/ (~erases /\ B % SectorPages = 0)) = lost
    BY <1>l, Zenon DEF sure
  <2>5. s = [t EXCEPT !.page = <<>>, !.address = A + 1, !.bad = lost,
              !.state = IF r.len - k > 0 THEN "WRITE" ELSE IF r.skip # 0 THEN "SKIP" ELSE "DONE"]
    BY <1>8, <2>2, <2>4 DEF PageStep
  <2> QED
    BY <2>1, <2>2, <2>5 DEF UploadStates
<1>12. /\ s.file = r.file /\ s.part = r.part /\ s.mixed = r.mixed /\ s.address = A + 1
       /\ s.page = <<>> /\ s.len = r.len - k /\ s.at = r.at + k /\ s.skip = r.skip
       /\ s.state = IF r.len - k > 0 THEN "WRITE" ELSE IF r.skip # 0 THEN "SKIP" ELSE "DONE"
       /\ s.bad = lost
  BY <1>11 DEF UploadStates
<1>13. s \in UploadStates
  <2>1. r.len - k \in Nat /\ r.left - k \in Int /\ r.at + k \in Int /\ A + 1 \in Nat
    BY <1>2, <1>6
  <2>2. PICK x \in Int, y \in Int, z \in Int, c \in Nat :
          x = r.left - k /\ y = r.at + k /\ z = r.len - k /\ c = A + 1
    BY <2>1
  <2>3. PICK st \in {"WRITE", "SKIP", "DONE"} :
          st = IF r.len - k > 0 THEN "WRITE" ELSE IF r.skip # 0 THEN "SKIP" ELSE "DONE"
    OBVIOUS
  <2>4. s = [r EXCEPT !.left = x, !.at = y, !.len = z, !.page = <<>>, !.address = c, !.bad = lost,
               !.state = st]
    BY <1>11, <2>2, <2>3
  <2>5. PICK e \in Seq(Int) : e = <<>>
    <3>1. <<>> \in Seq(Int)
      OBVIOUS
    <3> QED
      BY <3>1, Zenon
  <2>6. s = [r EXCEPT !.left = x, !.at = y, !.len = z, !.page = e, !.address = c, !.bad = lost,
               !.state = st]
    BY <2>4, <2>5
  <2> QED
    BY <2>6 DEF UploadStates
<1>14. Offset(s) = b /\ Whole(s) = n /\ At(s) = B + 1 /\ PartAt[s.part] = base
  BY <1>1, <1>2, <1>12 DEF Offset, Whole, b, n, At, base
<1> DEFINE ready == Prepared(f, B, erases)
<1> HIDE DEF ready
<1>15. /\ ready \in Flash
       /\ \A c \in 0 .. FlashPages - 1 :
            ready[c] = IF erases /\ B % SectorPages = 0 /\ Sector(c) = Sector(B)
                         THEN Erased ELSE f[c]
  BY DEF Prepared, Erased, ready, Flash
<1>16. /\ next = [ready EXCEPT ![B] = IF writes THEN Programmed(ready[B], g) ELSE ready[B]]
       /\ erases \/ writes => B < FlashPages
  BY <1>8, <1>11 DEF PageStep, ready
<1>17. B < FlashPages => Programmed(ready[B], g) \in Seq(Int) /\ ready[B] \in Seq(Int)
  BY <1>1, <1>2, <1>9, <1>15 DEF Programmed, Garbled, Flash
<1>18. /\ next \in Flash
       /\ B < FlashPages => next[B] = IF writes THEN Programmed(ready[B], g) ELSE ready[B]
       /\ \A c \in 0 .. FlashPages - 1 : c # B => next[c] = ready[c]
  <2>1. PICK x : x = IF writes THEN Programmed(ready[B], g) ELSE ready[B]
    OBVIOUS
  <2>2. next = [ready EXCEPT ![B] = x] /\ (B < FlashPages => x \in Seq(Int))
    BY <1>16, <1>17, <2>1
  <2>3. ready \in [0 .. FlashPages - 1 -> Seq(Int)]
    BY <1>15 DEF Flash
  <2>4. CASE B < FlashPages
    <3>1. B \in 0 .. FlashPages - 1
      BY <1>1, <1>2, <2>4
    <3> QED
      BY <2>1, <2>2, <2>3, <2>4, <3>1 DEF Flash
  <2>5. CASE ~(B < FlashPages)
    <3>1. B \notin 0 .. FlashPages - 1
      BY <1>1, <1>2, <2>5
    <3>2. next = ready
      BY <2>2, <2>3, <3>1
    <3> QED
      BY <2>3, <2>5, <3>1, <3>2 DEF Flash
  <2> QED
    BY <2>4, <2>5
<1>19. InStep(s)
  <2>1. CASE r.len - k > 0
    <3>1. k = PageLen - L /\ L + k = PageLen
      BY <1>1, <1>2, <1>4, <1>5, <2>1
    <3>2. (A + 1) * PageLen = p + PageLen
      BY <1>1, <1>2, <1>3, PagesApart
    <3>3. /\ s.at = Offset(s) + (Whole(s) - s.len)
          /\ Whole(s) - s.len = p + PageLen /\ s.len > 0
      <4>1. PICK e \in Int : e = r.len
        BY <1>2
      <4>2. n - e = p + L /\ r.at = b + (n - e) /\ e - k > 0
        BY <1>4, <2>1, <4>1
      <4>3. n - (e - k) = p + PageLen /\ r.at + k = b + (n - (e - k))
        BY <1>1, <1>2, <1>6, <3>1, <4>2
      <4> QED
        BY <1>4, <1>12, <1>14, <4>1, <4>2, <4>3
    <3>4. Len(s.page) = 0 /\ s.page = Run(Offset(s) + s.address * PageLen, Len(s.page))
      BY <1>12 DEF Run
    <3>5. Underway(s)
      <4>1. PICK x \in Nat : x = s.address * PageLen
        BY <1>3, <1>1, <3>2, <1>12
      <4>2. x = p + PageLen
        BY <4>1, <3>2, <1>12
      <4> QED
        BY <1>1, <3>3, <3>4, <4>1, <4>2 DEF Underway
    <3> QED
      BY <1>12, <2>1, <3>5 DEF InStep
  <2>2. CASE ~(r.len - k > 0)
    <3>1. s.state \in {"SKIP", "DONE"} /\ s.len = 0
      BY <1>2, <1>6, <1>12, <2>2
    <3> QED
      BY <1>12, <3>1 DEF InStep
  <2> QED
    BY <2>1, <2>2
<1>20. ASSUME ~s.mixed, ~s.bad
       PROVE  PagesBefore(r, f) /\ SectorErased(r, f) /\ sure /\ writes /\ B < FlashPages
  <2>1. ~r.mixed /\ ~r.bad /\ sure /\ writes
    BY <1>l, <1>12, <1>20
  <2> QED
    BY <1>2, <1>16, <2>1 DEF Stored
<1>21. ASSUME ~s.mixed, ~s.bad
       PROVE  /\ L + k # 0 => next[B] = g
              /\ \A a \in Nat : a < A => Holds(r, next, a, Run(b + a * PageLen, PageLen))
              /\ \A c \in 0 .. FlashPages - 1 : c > B /\ Sector(c) = Sector(B) => next[c] = Erased
  <2>1. PagesBefore(r, f) /\ SectorErased(r, f) /\ sure /\ writes /\ B < FlashPages
    BY <1>20, <1>21
  <2>2. ready[B] = Erased
    <3>1. B \in 0 .. FlashPages - 1
      BY <1>1, <1>2, <2>1
    <3>2. CASE B % SectorPages = 0
      BY <1>15, <2>1, <3>1, <3>2 DEF sure
    <3>3. CASE B % SectorPages # 0
      BY <1>2, <1>15, <2>1, <3>1, <3>3 DEF SectorErased, B
    <3> QED
      BY <3>2, <3>3
  <2>3. L + k # 0 => next[B] = g
    BY <1>10, <1>18, <2>1, <2>2 DEF Programmed
  <2>4. ASSUME NEW a \in Nat, a < A
        PROVE  Holds(r, next, a, Run(b + a * PageLen, PageLen))
    <3> DEFINE c == base + a
    <3>1. Holds(r, f, a, Run(b + a * PageLen, PageLen))
      BY <2>1, <2>4 DEF PagesBefore, A, b
    <3>2. c \in 0 .. FlashPages - 1 /\ f[c] = Run(b + a * PageLen, PageLen) /\ c < B
      BY <1>1, <1>2, <2>4, <3>1 DEF Holds, base
    <3> HIDE DEF c
    <3>3. B % SectorPages = 0 => Sector(c) # Sector(B)
      BY <1>2, <3>2, Sectors
    <3>4. next[c] = f[c]
      BY <1>2, <1>15, <1>18, <3>2, <3>3
    <3> QED
      BY <3>1, <3>2, <3>4 DEF Holds, base, c
  <2>5. ASSUME NEW c \in 0 .. FlashPages - 1, c > B, Sector(c) = Sector(B)
        PROVE  next[c] = Erased
    <3>1. next[c] = ready[c]
      BY <1>2, <1>18, <2>5
    <3>2. ready[c] = Erased
      <4>1. c >= B
        BY <1>2, <2>5
      <4> QED
        BY <1>15, <2>1, <2>5, <4>1 DEF SectorErased, B, sure
    <3> QED
      BY <3>1, <3>2
  <2> QED
    BY <2>3, <2>4, <2>5
<1>22. Stored(s, next)
  <2> SUFFICES ASSUME ~s.mixed, ~s.bad
               PROVE  /\ s.state # "WRITE" => AllThere(s, next)
                      /\ s.state = "WRITE" => PagesBefore(s, next) /\ SectorErased(s, next)
    BY DEF Stored
  <2>1. /\ L + k # 0 => next[B] = g
        /\ \A a \in Nat : a < A => Holds(r, next, a, Run(b + a * PageLen, PageLen))
        /\ \A c \in 0 .. FlashPages - 1 : c > B /\ Sector(c) = Sector(B) => next[c] = Erased
        /\ B < FlashPages /\ PartAt[r.part] = base /\ PartAt[s.part] = base
    BY <1>14, <1>20, <1>21 DEF base
  <2>2. ASSUME r.len - k > 0
        PROVE  PagesBefore(s, next) /\ SectorErased(s, next)
    <3>1. L + k = PageLen
      BY <1>1, <1>2, <1>4, <1>5, <2>2
    <3>2. next[B] = Run(b + A * PageLen, PageLen)
      BY <1>1, <2>1, <3>1 DEF g
    <3>3. ASSUME NEW a \in Nat, a < A + 1
          PROVE  Holds(s, next, a, Run(b + a * PageLen, PageLen))
      <4>1. a < A \/ a = A
        BY <1>2, <3>3
      <4> QED
        BY <1>2, <2>1, <3>2, <4>1 DEF Holds
    <3>4. PagesBefore(s, next)
      BY <1>12, <1>14, <3>3 DEF PagesBefore
    <3>5. ASSUME (B + 1) % SectorPages # 0, NEW c \in 0 .. FlashPages - 1, c >= B + 1,
                 Sector(c) = Sector(B + 1)
          PROVE  next[c] = Erased
      <4>1. Sector(B + 1) = Sector(B)
        BY <1>2, <3>5, Sectors
      <4>2. c > B
        BY <1>2, <3>5
      <4> QED
        BY <2>1, <3>5, <4>1, <4>2
    <3>6. SectorErased(s, next)
      BY <1>14, <3>5 DEF SectorErased
    <3> QED
      BY <3>4, <3>6
  <2>3. ASSUME ~(r.len - k > 0)
        PROVE  AllThere(s, next)
    <3>1. k = r.len /\ p + L + k = n /\ n <= p + PageLen
      <4>1. PICK e \in Nat : e = r.len
        BY <1>2
      <4>2. k = e /\ n - e = p + L /\ L + k <= PageLen
        BY <1>4, <1>6, <2>3, <4>1
      <4>3. n \in Nat /\ p \in Nat /\ L \in Nat /\ PageLen \in Nat
        BY <1>1, <1>2, <1>8
      <4>4. p + L + e = n /\ n <= p + PageLen
        BY <4>1, <4>2, <4>3
      <4> QED
        BY <4>1, <4>2, <4>4
    <3> SUFFICES ASSUME NEW a \in Nat, a * PageLen < n
                 PROVE  /\ a < A + 1
                        /\ Holds(s, next, a, Run(b + a * PageLen, Smaller(PageLen, n - a * PageLen)))
      BY <1>12, <1>14 DEF AllThere, PageOf
    <3>2. PICK q \in Nat : q = a * PageLen
      BY <1>1, PagesApart
    <3>3. /\ a < A => q + PageLen <= p
          /\ A < a => p + PageLen <= q
      BY <1>1, <1>2, <1>3, <3>2, PagesApart
    <3>4. a <= A
      BY <1>1, <1>2, <1>8, <3>1, <3>2, <3>3
    <3>5. CASE a < A
      <4>1. Smaller(PageLen, n - q) = PageLen
        <5>1. n - q >= PageLen
          BY <1>1, <1>2, <1>6, <1>8, <3>1, <3>3, <3>5
        <5> QED
          BY <1>1, <5>1 DEF Smaller
      <4> QED
        BY <1>2, <2>1, <3>2, <3>5, <4>1 DEF Holds
    <3>6. CASE a = A
      <4>1. q = p
        BY <1>3, <3>2, <3>6
      <4>2. L + k = n - q /\ L + k # 0
        <5>1. q < n
          BY <3>2
        <5>2. PICK m \in Nat : m = L + k
          BY <1>2, <1>6
        <5>3. q + m = n
          BY <1>2, <1>6, <3>1, <4>1, <5>2
        <5> QED
          BY <1>8, <5>1, <5>2, <5>3
      <4>3. Smaller(PageLen, n - q) = L + k
        BY <1>1, <1>2, <1>6, <1>8, <4>2 DEF Smaller
      <4>4. next[base + a] = Run(b + a * PageLen, Smaller(PageLen, n - a * PageLen))
        BY <1>2, <2>1, <3>2, <3>6, <4>2, <4>3 DEF g
      <4> QED
        BY <1>2, <2>1, <3>6, <4>4 DEF Holds
    <3> QED
      BY <1>2, <3>4, <3>5, <3>6
  <2> QED
    BY <1>12, <2>2, <2>3
<1> QED
  BY <1>13, <1>18, <1>19, <1>22 DEF UploadInv

-----------------------------------------------------------------------------
(* The steps. *)

\* A step of one upload that leaves the flash alone.
LEMMA OneUpload ==
  ASSUME OtaInv, NEW u \in Uploads, NEW s, up' = [up EXCEPT ![u] = s],
         UNCHANGED <<running, pages>>, UploadInv(s, pages)
  PROVE  OtaInv'
<1>1. s \in UploadStates
  BY DEF UploadInv
<1>2. up' \in [Uploads -> UploadStates] /\ pages' \in Flash /\ running' \in {1, 2}
  BY <1>1 DEF OtaInv
<1>3. ASSUME NEW v \in Uploads
      PROVE  UploadInv(up'[v], pages')
  <2>1. pages' = pages
    OBVIOUS
  <2>2. CASE v = u
    <3>1. up'[v] = s
      BY <2>2 DEF OtaInv
    <3> QED
      BY <2>1, <3>1
  <2>3. CASE v # u
    <3>1. up'[v] = up[v] /\ UploadInv(up[v], pages)
      BY <2>3 DEF OtaInv
    <3> QED
      BY <2>1, <3>1
  <2> QED
    BY <2>2, <2>3
<1> QED
  BY <1>2, <1>3 DEF OtaInv

\* What the buffer has left does not matter.
LEMMA AnyLeft ==
  ASSUME NEW r, NEW part, UploadInv(r, part), NEW x \in Int
  PROVE  UploadInv([r EXCEPT !.left = x], part)
<1> DEFINE s == [r EXCEPT !.left = x]
<1>1. r \in UploadStates
  BY DEF UploadInv
<1>2. /\ s \in UploadStates /\ s.state = r.state /\ s.file = r.file /\ s.at = r.at /\ s.len = r.len
      /\ s.skip = r.skip /\ s.part = r.part /\ s.page = r.page /\ s.address = r.address
      /\ s.mixed = r.mixed /\ s.bad = r.bad
  BY <1>1 DEF UploadStates
<1> HIDE DEF s
<1>3. Offset(s) = Offset(r) /\ Whole(s) = Whole(r) /\ At(s) = At(r)
  BY <1>2 DEF Offset, Whole, At
<1>4. InStep(r) /\ Stored(r, part)
  BY DEF UploadInv
<1>5. Underway(s) <=> Underway(r)
  BY <1>2, <1>3 DEF Underway
<1>6. InStep(s)
  BY <1>2, <1>3, <1>4, <1>5 DEF InStep, Ahead
<1>7. Stored(s, part)
  BY <1>2, <1>3, <1>4 DEF Stored, AllThere, PageOf, PagesBefore, SectorErased, Holds
<1> QED
  BY <1>2, <1>6, <1>7 DEF UploadInv, s

LEMMA NothingSent ==
  /\ NoUpload \in UploadStates /\ Over \in UploadStates
  /\ \A part : UploadInv(NoUpload, part) /\ UploadInv(Over, part)
<1>1. NoFile \in Files \cup {NoFile} /\ <<>> \in Seq(Int)
  OBVIOUS
<1>2. NoUpload \in UploadStates
  BY <1>1 DEF NoUpload, UploadStates
<1>3. Over \in UploadStates /\ Over.state = "OVER"
  BY <1>2 DEF Over, NoUpload, UploadStates
<1>4. NoUpload.state = "NONE"
  BY DEF NoUpload
<1> QED
  BY <1>2, <1>3, <1>4 DEF UploadInv, InStep, Stored

LEMMA OtaBegins == OtaInit => OtaInv
<1> SUFFICES ASSUME OtaInit PROVE OtaInv
  OBVIOUS
<1>1. up \in [Uploads -> UploadStates] /\ \A u \in Uploads : up[u] = NoUpload
  BY NothingSent DEF OtaInit
<1>2. Old \in Seq(Int)
  BY DEF Old
<1>3. pages \in Flash /\ running \in {1, 2}
  BY <1>2 DEF OtaInit, Flash
<1> QED
  BY <1>1, <1>3, NothingSent DEF OtaInv

LEMMA BeginKept ==
  ASSUME OtaInv, NEW u \in Uploads, NEW f \in Files, Begin(u, f)
  PROVE  OtaInv'
<1> DEFINE s == [NoUpload EXCEPT !.state = "START", !.file = f]
<1>1. s \in UploadStates
  BY NothingSent DEF UploadStates
<1>2. /\ s.state = "START" /\ s.file = f /\ s.page = <<>> /\ s.address = 0 /\ s.at = 0
  BY DEF NoUpload
<1>3. up' = [up EXCEPT ![u] = s] /\ UNCHANGED <<running, pages>>
  BY DEF Begin
<1> HIDE DEF s
<1>4. UploadInv(s, pages)
  BY <1>1, <1>2 DEF UploadInv, InStep, Stored, Ahead
<1> QED
  BY <1>3, <1>4, OneUpload

LEMMA CallKept ==
  ASSUME OtaInv, NEW u \in Uploads, Call(u)
  PROVE  OtaInv'
<1> DEFINE r == up[u]
           x == Smaller(r.file.size - r.at, BuffSize)
           s == [r EXCEPT !.left = x]
<1>1. r \in UploadStates /\ UploadInv(r, pages) /\ u \in Active
  BY DEF OtaInv, Call
<1>2. r.file \in Files /\ r.at \in Int
  BY <1>1 DEF UploadInv, InStep, Active, UploadStates
<1>3. x \in Int
  BY <1>2, OtaAssumption, Measures DEF Smaller
<1>4. up' = [up EXCEPT ![u] = s] /\ UNCHANGED <<running, pages>>
  BY DEF Call
<1> HIDE DEF r, x
<1>5. UploadInv(s, pages)
  BY <1>1, <1>3, AnyLeft
<1> HIDE DEF s
<1> QED
  BY <1>4, <1>5, OneUpload

\* At the first page of a part no sector is begun.
LEMMA AtFirst ==
  ASSUME NEW r \in UploadStates, r.address = 0, NEW f
  PROVE  SectorErased(r, f)
<1>1. At(r) = PartAt[r.part] /\ PartAt[r.part] % SectorPages = 0
  BY Measures DEF At, UploadStates
<1> QED
  BY <1>1 DEF SectorErased

\* The first bytes say what is to be written, and where.
LEMMA StartKept ==
  ASSUME OtaInv, NEW u \in Uploads, StartUpload(u)
  PROVE  OtaInv'
<1> DEFINE r == up[u]
           f == r.file
<1>1. /\ r \in UploadStates /\ r.state = "START" /\ InStep(r) /\ running \in {1, 2}
      /\ UNCHANGED <<running, pages>>
  BY DEF OtaInv, StartUpload, UploadInv
<1>2. f \in Files /\ r.page = <<>> /\ r.address = 0 /\ r.at = 0 /\ r.left \in Int
  BY <1>1 DEF InStep, Ahead, UploadStates
<1>3. up' = [up EXCEPT ![u] =
       IF f.kind = "ota" /\ f.fits /\ f.size <= 2 * FwSize + HeaderLen THEN Chosen(r)
       ELSE IF f.kind = "bin" /\ f.size <= FwSize
         THEN [r EXCEPT !.state = "WRITE", !.len = f.size, !.part = 1]
       ELSE [r EXCEPT !.state = "ERROR"]]
  BY DEF StartUpload
<1>4. /\ f.kind \in {"ota", "bin", "other"}
      /\ f.len1 \in Int /\ f.len2 \in Int /\ f.size \in Nat
      /\ HeaderLen \in Nat \ {0} /\ PageLen \in Nat \ {0} /\ FwSize \in Nat
  BY <1>2, Measures
<1>5. 0 * PageLen = 0 /\ Len(<<>>) = 0
  BY <1>4
<1>6. \A b : Run(b, 0) = <<>>
  BY DEF Run
<1> HIDE DEF r, f
\* An image that begins with its first byte.
<1>7. ASSUME NEW s \in UploadStates, s.file = f, s.state = "WRITE", s.page = <<>>, s.address = 0,
             s.at = Offset(s), s.len = Whole(s), Whole(s) \in Int, Offset(s) \in Int
      PROVE  UploadInv(s, pages)
  <2>1. ASSUME s.len >= 0 PROVE Underway(s)
    <3>1. s.address * PageLen = 0 /\ Len(s.page) = 0
      BY <1>5, <1>7
    <3>2. s.page = Run(Offset(s) + s.address * PageLen, Len(s.page))
      BY <1>6, <1>7, <3>1
    <3>3. Whole(s) - s.len = 0 /\ s.at = Offset(s) + (Whole(s) - s.len) /\ Len(s.page) < PageLen
      BY <1>4, <1>7, <3>1
    <3>4. s.len > 0 \/ (Whole(s) = 0 /\ s.address = 0)
      BY <1>7, <2>1
    <3>5. Whole(s) - s.len = s.address * PageLen + Len(s.page)
      BY <3>1, <3>3
    <3> QED
      BY <1>7, <3>2, <3>3, <3>4, <3>5 DEF Underway
  <2>2. InStep(s)
    BY <1>2, <1>7, <2>1 DEF InStep
  <2>3. PagesBefore(s, pages) /\ SectorErased(s, pages)
    BY <1>7, AtFirst DEF PagesBefore
  <2>4. Stored(s, pages)
    BY <1>7, <2>3 DEF Stored
  <2> QED
    BY <2>2, <2>4 DEF UploadInv
<1>8. CASE f.kind = "ota" /\ f.fits /\ f.size <= 2 * FwSize + HeaderLen
  <2> DEFINE s == Chosen(r)
  <2>1. s = [r EXCEPT !.left = r.left - HeaderLen, !.at = r.at + HeaderLen, !.part = Target,
               !.state = IF Target = 1 THEN "WRITE" ELSE "SKIP",
               !.len = IF Target = 1 THEN f.len1 ELSE f.len2,
               !.skip = IF Target = 1 THEN f.len2 ELSE f.len1]
    BY <1>1, <1>2 DEF Chosen, Used, UploadStates, f
  <2>2. Target \in {1, 2} /\ r.left - HeaderLen \in Int /\ r.at + HeaderLen = HeaderLen
    BY <1>1, <1>2, <1>4 DEF Target
  <2>3. /\ s \in UploadStates /\ s.file = f /\ s.page = <<>> /\ s.address = 0 /\ s.at = HeaderLen
        /\ s.part = Target
        /\ s.state = IF Target = 1 THEN "WRITE" ELSE "SKIP"
        /\ s.len = IF Target = 1 THEN f.len1 ELSE f.len2
        /\ s.skip = IF Target = 1 THEN f.len2 ELSE f.len1
    <3>0. PICK l \in Int, k \in Int :
            /\ l = IF Target = 1 THEN f.len1 ELSE f.len2
            /\ k = IF Target = 1 THEN f.len2 ELSE f.len1
      BY <1>4
    <3>1. PICK x \in Int, y \in Int, p \in {1, 2} :
            x = r.left - HeaderLen /\ y = r.at + HeaderLen /\ p = Target
      BY <1>2, <1>4, <2>2
    <3>2. (IF p = 1 THEN "WRITE" ELSE "SKIP") \in {"WRITE", "SKIP"}
      OBVIOUS
    <3>3. s = [r EXCEPT !.left = x, !.at = y, !.part = p,
                 !.state = IF p = 1 THEN "WRITE" ELSE "SKIP", !.len = l, !.skip = k]
      BY <2>1, <3>0, <3>1
    <3> HIDE DEF s
    <3>4. /\ s \in UploadStates /\ s.file = r.file /\ s.page = r.page
          /\ s.address = r.address /\ s.at = y /\ s.part = p
          /\ s.state = IF p = 1 THEN "WRITE" ELSE "SKIP"
          /\ s.len = l /\ s.skip = k
      BY <1>1, <3>2, <3>3 DEF UploadStates
    <3> QED
      BY <1>2, <2>2, <3>0, <3>1, <3>4 DEF f
  <2> HIDE DEF s
  <2>4. /\ Offset(s) = IF Target = 1 THEN HeaderLen ELSE HeaderLen + f.len1
        /\ Whole(s) = IF Target = 1 THEN f.len1 ELSE f.len2
    BY <1>8, <2>3 DEF Offset, Whole, Before, Length
  <2>5. UploadInv(s, pages)
    <3>1. CASE Target = 1
      BY <1>4, <1>7, <2>3, <2>4, <3>1
    <3>2. CASE Target # 1
      <4>1. InStep(s)
        BY <1>2, <1>4, <2>3, <2>4, <3>2 DEF InStep, Ahead
      <4>2. s.len = 0 => AllThere(s, pages)
        <5>1. \A a \in Nat : a * PageLen \in Nat
          BY <1>4, PagesApart
        <5> QED
          BY <2>3, <2>4, <3>2, <5>1 DEF AllThere
      <4> QED
        BY <2>3, <3>2, <4>1, <4>2 DEF UploadInv, Stored
    <3> QED
      BY <3>1, <3>2
  <2>6. up' = [up EXCEPT ![u] = s]
    BY <1>3, <1>8 DEF s
  <2> QED
    BY <1>1, <2>5, <2>6, OneUpload
<1>9. CASE ~(f.kind = "ota" /\ f.fits /\ f.size <= 2 * FwSize + HeaderLen)
            /\ f.kind = "bin" /\ f.size <= FwSize
  <2> DEFINE s == [r EXCEPT !.state = "WRITE", !.len = f.size, !.part = 1]
  <2>1. /\ s \in UploadStates /\ s.file = f /\ s.page = <<>> /\ s.address = 0 /\ s.at = 0
        /\ s.state = "WRITE" /\ s.len = f.size
    <3>1. PICK z \in Int : z = f.size
      BY <1>4
    <3>2. s = [r EXCEPT !.state = "WRITE", !.len = z, !.part = 1]
      BY <3>1
    <3> HIDE DEF s
    <3> QED
      BY <1>1, <1>2, <3>1, <3>2 DEF UploadStates, f
  <2>2. up' = [up EXCEPT ![u] = s]
    BY <1>3, <1>9
  <2> HIDE DEF s
  <2>3. Offset(s) = 0 /\ Whole(s) = f.size
    BY <1>9, <2>1 DEF Offset, Whole, Before, Length
  <2>4. UploadInv(s, pages)
    BY <1>4, <1>7, <1>9, <2>1, <2>3
  <2> QED
    BY <1>1, <2>2, <2>4, OneUpload
<1>10. CASE ~(f.kind = "ota" /\ f.fits /\ f.size <= 2 * FwSize + HeaderLen)
            /\ ~(f.kind = "bin" /\ f.size <= FwSize)
  <2> DEFINE s == [r EXCEPT !.state = "ERROR"]
  <2>1. s \in UploadStates /\ s.state = "ERROR" /\ s.file = f
    BY <1>1 DEF UploadStates, f
  <2>2. up' = [up EXCEPT ![u] = s]
    BY <1>3, <1>10
  <2> HIDE DEF s
  <2>3. UploadInv(s, pages)
    BY <1>2, <2>1 DEF UploadInv, InStep, Stored
  <2> QED
    BY <1>1, <2>2, <2>3, OneUpload
<1> QED
  BY <1>8, <1>9, <1>10

\* n bytes are passed over.
PassedOver(r, n, k, st) ==
  [r EXCEPT !.left = r.left - n, !.at = r.at + n, !.skip = k, !.state = st]
Passed(r, part, s, n, k, st) ==
  /\ s \in UploadStates /\ s.file = r.file /\ s.part = r.part /\ s.page = r.page
  /\ s.address = r.address /\ s.len = r.len /\ s.mixed = r.mixed /\ s.bad = r.bad
  /\ s.at = r.at + n /\ s.skip = k /\ s.state = st
  /\ Offset(s) = Offset(r) /\ Whole(s) = Whole(r)
  /\ AllThere(r, part) => AllThere(s, part)

LEMMA PassesOver ==
  ASSUME NEW r \in UploadStates, NEW part,
         NEW n \in Int, NEW k \in Int, NEW st \in {"SKIP", "WRITE", "DONE"}
  PROVE  Passed(r, part, PassedOver(r, n, k, st), n, k, st)
<1> DEFINE s == PassedOver(r, n, k, st)
<1>1. PICK x \in Int, y \in Int : x = r.left - n /\ y = r.at + n
  BY DEF UploadStates
<1>2. s = [r EXCEPT !.left = x, !.at = y, !.skip = k, !.state = st]
  BY <1>1 DEF PassedOver
<1> HIDE DEF s
<1>3. /\ s \in UploadStates /\ s.file = r.file /\ s.part = r.part /\ s.page = r.page
      /\ s.address = r.address /\ s.len = r.len /\ s.mixed = r.mixed /\ s.bad = r.bad
      /\ s.at = y /\ s.skip = k /\ s.state = st
  BY <1>2 DEF UploadStates
<1>4. Offset(s) = Offset(r) /\ Whole(s) = Whole(r)
  BY <1>3 DEF Offset, Whole
<1>5. AllThere(r, part) => AllThere(s, part)
  BY <1>3, <1>4 DEF AllThere, PageOf, Holds
<1> QED
  BY <1>1, <1>3, <1>4, <1>5 DEF Passed, s

\* The other image is passed over, before this one or behind it.
LEMMA SkipKept ==
  ASSUME OtaInv, NEW u \in Uploads, Skip(u)
  PROVE  OtaInv'
<1> DEFINE r == up[u]
           part == pages
<1>1. /\ r \in UploadStates /\ r.state = "SKIP" /\ InStep(r) /\ Stored(r, part) /\ r.left > 0
      /\ ~Unchecked(r)
      /\ UNCHANGED <<running, pages>>
      /\ up' = [up EXCEPT ![u] =
           IF r.skip > r.left THEN [Used(r, r.left) EXCEPT !.skip = @ - r.left]
           ELSE [Used(r, r.skip) EXCEPT !.skip = 0,
                   !.state = IF r.len # 0 THEN "WRITE" ELSE "DONE"]]
  BY DEF OtaInv, Skip, UploadInv
<1>2. /\ r.file \in Files /\ r.left \in Int /\ r.at \in Int /\ r.skip \in Nat /\ r.len \in Int
      /\ PageLen \in Nat \ {0} /\ Offset(r) \in Int /\ Whole(r) \in Int
  <2>1. /\ r.file \in Files /\ r.left \in Int /\ r.at \in Int /\ r.skip \in Int /\ r.len \in Int
        /\ r.part \in {1, 2}
    BY <1>1 DEF InStep, UploadStates
  <2>2. r.skip \in Nat
    BY <1>1, <2>1 DEF Unchecked
  <2> QED
    BY <2>1, <2>2, Measures DEF Offset, Whole
<1>3. /\ r.len > 0 => /\ Ahead(r) /\ r.len = Whole(r)
                      /\ r.at + r.skip = Offset(r)
      /\ ~r.mixed /\ ~r.bad /\ r.len = 0 => AllThere(r, part)
  BY <1>1 DEF InStep, Stored
<1> HIDE DEF r, part
<1>4. CASE r.skip > r.left
  <2> DEFINE s == [Used(r, r.left) EXCEPT !.skip = @ - r.left]
  <2>1. s = [r EXCEPT !.left = r.left - r.left, !.at = r.at + r.left, !.skip = r.skip - r.left,
               !.state = "SKIP"]
    BY <1>1 DEF Used, UploadStates
  <2>2. PICK n \in Int, k \in Int, st \in {"SKIP", "WRITE", "DONE"} :
          n = r.left /\ k = r.skip - r.left /\ st = "SKIP"
    <3>1. r.skip - r.left \in Nat /\ "SKIP" \in {"SKIP", "WRITE", "DONE"}
      BY <1>1, <1>2, <1>4
    <3> QED
      BY <1>2, <3>1
  <2>3. up' = [up EXCEPT ![u] = s]
    BY <1>1, <1>4
  <2> HIDE DEF s
  <2>4. /\ s \in UploadStates /\ s.file = r.file /\ s.part = r.part /\ s.page = r.page
        /\ s.address = r.address /\ s.len = r.len /\ s.mixed = r.mixed /\ s.bad = r.bad
        /\ s.at = r.at + r.left /\ s.skip = r.skip - r.left /\ s.state = "SKIP"
        /\ Offset(s) = Offset(r) /\ Whole(s) = Whole(r)
        /\ AllThere(r, part) => AllThere(s, part)
    <3>1. s = PassedOver(r, n, k, st)
      BY <2>1, <2>2 DEF PassedOver
    <3>2. Passed(r, part, s, n, k, st)
      BY <1>1, <3>1, PassesOver
    <3> QED
      BY <2>2, <3>2 DEF Passed
  <2>5. s.at + s.skip = r.at + r.skip
    BY <1>2, <2>4
  <2>6. InStep(s)
    BY <1>2, <1>3, <2>4, <2>5 DEF InStep, Ahead
  <2>7. Stored(s, part)
    BY <1>3, <2>4 DEF Stored
  <2>8. UploadInv(s, pages)
    BY <2>4, <2>6, <2>7 DEF UploadInv, part
  <2> QED
    BY <1>1, <2>3, <2>8, OneUpload
<1>5. CASE ~(r.skip > r.left)
  <2> DEFINE st == IF r.len # 0 THEN "WRITE" ELSE "DONE"
             s == [Used(r, r.skip) EXCEPT !.skip = 0, !.state = st]
  <2>1. s = [r EXCEPT !.left = r.left - r.skip, !.at = r.at + r.skip, !.skip = 0, !.state = st]
    BY <1>1 DEF Used, UploadStates
  <2>2. PICK n \in Int, k \in Int, x \in {"SKIP", "WRITE", "DONE"} :
          n = r.skip /\ k = 0 /\ x = st
    BY <1>2
  <2>3. up' = [up EXCEPT ![u] = s]
    BY <1>1, <1>5
  <2> HIDE DEF s
  <2>4. /\ s \in UploadStates /\ s.file = r.file /\ s.part = r.part /\ s.page = r.page
        /\ s.address = r.address /\ s.len = r.len /\ s.mixed = r.mixed /\ s.bad = r.bad
        /\ s.at = r.at + r.skip /\ s.skip = 0 /\ s.state = st
        /\ Offset(s) = Offset(r) /\ Whole(s) = Whole(r)
        /\ AllThere(r, part) => AllThere(s, part)
    <3>1. s = PassedOver(r, n, k, x)
      BY <2>1, <2>2 DEF PassedOver
    <3>2. Passed(r, part, s, n, k, x)
      BY <1>1, <3>1, PassesOver
    <3> QED
      BY <2>2, <3>2 DEF Passed
  <2>5. CASE r.len > 0
    <3>1. /\ s.state = "WRITE" /\ s.page = <<>> /\ s.address = 0 /\ s.len = Whole(s)
          /\ s.at = Offset(s) /\ s.len > 0
      BY <1>2, <1>3, <2>4, <2>5 DEF Ahead
    <3>2. 0 * PageLen = 0 /\ Len(<<>>) = 0
      BY <1>2
    <3>3. s.address * PageLen = 0 /\ Len(s.page) = 0
      BY <3>1, <3>2
    <3>4. s.page = Run(Offset(s) + s.address * PageLen, Len(s.page))
      BY <3>1, <3>3 DEF Run
    <3>5. /\ s.at = Offset(s) + (Whole(s) - s.len) /\ Whole(s) - s.len = 0
          /\ Len(s.page) < PageLen
      BY <1>2, <2>4, <3>1, <3>3
    <3>6. Whole(s) - s.len = s.address * PageLen + Len(s.page)
      BY <3>3, <3>5
    <3>7. Underway(s)
      BY <3>1, <3>4, <3>5, <3>6 DEF Underway
    <3>8. PagesBefore(s, part) /\ SectorErased(s, part)
      BY <2>4, <3>1, AtFirst DEF PagesBefore
    <3>9. UploadInv(s, part)
      BY <1>2, <2>4, <3>1, <3>7, <3>8 DEF UploadInv, InStep, Stored
    <3> QED
      BY <1>1, <2>3, <2>4, <3>9, OneUpload DEF part
  <2>6. CASE r.len = 0
    <3>1. s.state = "DONE"
      BY <2>4, <2>6
    <3>2. UploadInv(s, part)
      BY <1>2, <1>3, <2>4, <2>6, <3>1 DEF UploadInv, InStep, Stored
    <3> QED
      BY <1>1, <2>3, <2>4, <3>2, OneUpload DEF part
  <2>7. CASE r.len < 0
    <3>1. s.state = "WRITE" /\ s.len < 0
      BY <2>4, <2>7
    <3>2. UploadInv(s, part)
      BY <1>2, <2>4, <3>1 DEF UploadInv, InStep, Stored
    <3> QED
      BY <1>1, <2>3, <3>2, OneUpload DEF part
  <2> QED
    BY <1>2, <2>5, <2>6, <2>7
<1> QED
  BY <1>4, <1>5

LEMMA GatherKept ==
  ASSUME OtaInv, NEW u \in Uploads, Gather(u)
  PROVE  OtaInv'
<1> DEFINE r == up[u]
           part == pages
           n == r.left
           s == PageFilled(r, n)
<1>1. /\ r \in UploadStates /\ r.state = "WRITE" /\ InStep(r) /\ Stored(r, part) /\ n > 0
      /\ ~Unchecked(r) /\ n < Needed(r) /\ UNCHANGED <<running, pages>> /\ up' = [up EXCEPT ![u] = s]
  BY DEF OtaInv, Gather, UploadInv
<1> HIDE DEF r, part, s
<1>2. /\ r.file \in Files /\ n \in Int /\ r.at \in Int /\ r.len \in Nat /\ Len(r.page) \in Nat
      /\ r.address \in Nat /\ PageLen \in Nat \ {0} /\ Offset(r) \in Int /\ Whole(r) \in Int
      /\ Underway(r)
  BY <1>1, Measures DEF InStep, UploadStates, Offset, Whole, Unchecked
<1> HIDE DEF n
<1>3. n \in Nat /\ n < r.len /\ n <= r.len /\ n < PageLen - Len(r.page)
  BY <1>1, <1>2 DEF Needed, Smaller
<1>4. /\ s = [r EXCEPT !.left = r.left - n, !.at = r.at + n, !.len = r.len - n,
                !.page = Run(Offset(r) + r.address * PageLen, Len(r.page) + n)]
      /\ s \in UploadStates /\ Len(s.page) = Len(r.page) + n
  BY <1>1, <1>2, <1>3, PageGrows DEF s, n
<1>5. /\ s.state = r.state /\ s.file = r.file /\ s.part = r.part /\ s.address = r.address
      /\ s.mixed = r.mixed /\ s.bad = r.bad /\ s.at = r.at + n /\ s.len = r.len - n
      /\ s.page = Run(Offset(r) + r.address * PageLen, Len(s.page))
  BY <1>1, <1>4 DEF UploadStates
<1>6. Offset(s) = Offset(r) /\ Whole(s) = Whole(r) /\ At(s) = At(r)
  BY <1>5 DEF Offset, Whole, At
<1>7. Underway(s)
  <2>1. PICK p \in Nat : p = r.address * PageLen
    BY <1>2, PagesApart
  <2>2. PICK e \in Nat, l \in Nat : e = r.len /\ l = Len(r.page)
    BY <1>2
  <2>3. r.at = Offset(r) + (Whole(r) - e) /\ Whole(r) - e = p + l
    BY <1>2, <2>1, <2>2 DEF Underway
  <2>4. /\ r.at + n = Offset(r) + (Whole(r) - (e - n)) /\ Whole(r) - (e - n) = p + (l + n)
        /\ l + n < PageLen /\ e - n > 0
    <3>1. n \in Nat /\ n < e /\ n < PageLen - l
      BY <1>3, <2>2
    <3> QED
      BY <1>2, <2>3, <3>1
  <2>5. /\ s.at = Offset(s) + (Whole(s) - s.len) /\ Whole(s) - s.len = p + Len(s.page)
        /\ Len(s.page) < PageLen /\ s.len > 0
    BY <1>4, <1>5, <1>6, <2>2, <2>3, <2>4
  <2>6. s.address * PageLen = p /\ s.page = Run(Offset(s) + s.address * PageLen, Len(s.page))
    BY <1>5, <1>6, <2>1
  <2> QED
    BY <2>5, <2>6 DEF Underway
<1>8. Stored(s, part)
  BY <1>1, <1>2, <1>5, <1>6 DEF Stored, PagesBefore, SectorErased, Holds
<1>9. UploadInv(s, part)
  BY <1>1, <1>2, <1>4, <1>5, <1>7, <1>8 DEF UploadInv, InStep
<1> QED
  BY <1>1, <1>5, <1>9, OneUpload DEF part

\* What an upload has in the flash is in the sectors it has written to.
LEMMA OwnSectors ==
  ASSUME NEW r \in UploadStates, NEW f \in Flash, NEW next \in Flash, Stored(r, f),
         \A c \in 0 .. FlashPages - 1 : Sector(c) \in Touched(r) => next[c] = f[c]
  PROVE  Stored(r, next)
<1> DEFINE base == PartAt[r.part]
<1>1. base \in Nat /\ r.address \in Nat /\ At(r) = base + r.address /\ base % SectorPages = 0
  BY Measures DEF UploadStates, At
<1>2. ASSUME NEW a \in Nat, a < r.address, NEW data, Holds(r, f, a, data)
      PROVE  Holds(r, next, a, data)
  <2>1. base + a \in 0 .. FlashPages - 1 /\ f[base + a] = data
    BY <1>1, <1>2, Measures DEF Holds
  <2>2. a \in 0 .. r.address - 1
    BY <1>1, <1>2
  <2>3. Sector(base + a) \in Touched(r)
    BY <2>2 DEF Touched
  <2> QED
    BY <1>2, <2>1, <2>3 DEF Holds
<1>3. AllThere(r, f) => AllThere(r, next)
  BY <1>2 DEF AllThere
<1>4. PagesBefore(r, f) => PagesBefore(r, next)
  BY <1>2 DEF PagesBefore
<1>5. ASSUME SectorErased(r, f), At(r) % SectorPages # 0,
             NEW c \in 0 .. FlashPages - 1, c >= At(r), Sector(c) = Sector(At(r))
      PROVE  next[c] = Erased
  <2>1. r.address # 0
    BY <1>1, <1>5
  <2>2. PICK a \in Nat : a = r.address - 1
    BY <1>1, <2>1
  <2>3. base + a \in Nat /\ At(r) = (base + a) + 1 /\ a \in 0 .. r.address - 1
    BY <1>1, <2>2
  <2>4. Sector(At(r)) = Sector(base + a)
    BY <1>5, <2>3, Sectors
  <2>5. Sector(c) \in Touched(r)
    BY <1>5, <2>3, <2>4 DEF Touched
  <2> QED
    BY <1>5, <2>5 DEF SectorErased
<1>6. SectorErased(r, f) => SectorErased(r, next)
  BY <1>5 DEF SectorErased
<1> QED
  BY <1>3, <1>4, <1>6 DEF Stored

\* A page goes to the flash; the uploads that had written to its sector have lost that.
LEMMA WritePageKept ==
  ASSUME OtaInv, NEW u \in Uploads, WritePage(u)
  PROVE  OtaInv'
<1> DEFINE r == up[u]
           t == PageFilled(r, Needed(r))
           a == At(t)
<1>1. /\ r \in UploadStates /\ r.state = "WRITE" /\ InStep(r) /\ Stored(r, pages) /\ ~Unchecked(r)
      /\ up \in [Uploads -> UploadStates] /\ pages \in Flash
      /\ running' = running /\ running \in {1, 2}
      /\ \A v \in Uploads : UploadInv(up[v], pages)
  BY DEF OtaInv, WritePage, UploadInv
<1>2. r.file \in Files /\ r.len >= 0 /\ Underway(r)
  BY <1>1 DEF InStep, UploadStates, Unchecked
<1>3. PICK erases \in BOOLEAN, writes \in BOOLEAN :
       /\ erases \/ writes => a < FlashPages
       /\ pages' = [Prepared(pages, a, erases) EXCEPT ![a] =
                     IF writes THEN Programmed(@, t.page) ELSE @]
       /\ up' = [v \in Uploads |->
            IF v = u
              THEN [t EXCEPT !.page = <<>>, !.address = @ + 1,
                      !.bad = @ \/ ~writes \/ (~erases /\ a % SectorPages = 0),
                      !.state = IF t.len > 0 THEN "WRITE" ELSE IF t.skip # 0 THEN "SKIP" ELSE "DONE"]
            ELSE IF v \in Active /\ Sector(a) \in Touched(up[v]) THEN [up[v] EXCEPT !.mixed = TRUE]
            ELSE up[v]]
  BY DEF WritePage
<1> DEFINE s == [t EXCEPT !.page = <<>>, !.address = @ + 1,
                  !.bad = @ \/ ~writes \/ (~erases /\ a % SectorPages = 0),
                  !.state = IF t.len > 0 THEN "WRITE" ELSE IF t.skip # 0 THEN "SKIP" ELSE "DONE"]
<1>4. PageStep(r, pages, erases, writes, t, s, pages')
  BY <1>3 DEF PageStep
<1>5. up' = [v \in Uploads |->
           IF v = u THEN s
           ELSE IF v \in Active /\ Sector(a) \in Touched(up[v]) THEN [up[v] EXCEPT !.mixed = TRUE]
           ELSE up[v]]
  BY <1>3
<1>6. ASSUME NEW c \in 0 .. FlashPages - 1, Sector(c) # Sector(a)
      PROVE  pages'[c] = pages[c]
  <2>1. c # a
    BY <1>6
  <2> HIDE DEF a
  <2> QED
    BY <1>1, <1>3, <1>6, <2>1 DEF Prepared, Flash
<1> HIDE DEF r, t, s, a
<1>7. UploadInv(s, pages') /\ pages' \in Flash
  <2>1. PICK next : next = pages'
    OBVIOUS
  <2>2. PageStep(r, pages, erases, writes, t, s, next)
    BY <1>4, <2>1
  <2>3. UploadInv(s, next) /\ next \in Flash
    BY <1>1, <1>2, <2>2, PageWritten
  <2> QED
    BY <2>1, <2>3
<1>8. ASSUME NEW v \in Uploads
      PROVE  up'[v] \in UploadStates /\ UploadInv(up'[v], pages')
  <2>1. UploadInv(up[v], pages) /\ up[v] \in UploadStates
    BY <1>1
  <2>2. CASE v = u
    BY <1>5, <1>7, <2>2 DEF UploadInv
  <2>3. CASE v # u /\ v \in Active /\ Sector(a) \in Touched(up[v])
    <3> DEFINE q == up[v]
               m == [q EXCEPT !.mixed = TRUE]
    <3>1. up'[v] = m
      BY <1>5, <2>3
    <3>2. /\ m \in UploadStates /\ m.state = q.state /\ m.file = q.file /\ m.at = q.at
          /\ m.len = q.len /\ m.skip = q.skip /\ m.part = q.part /\ m.page = q.page
          /\ m.address = q.address /\ m.mixed
      BY <2>1 DEF UploadStates
    <3>3. InStep(q)
      BY <2>1 DEF UploadInv
    <3> HIDE DEF q, m
    <3>4. Offset(m) = Offset(q) /\ Whole(m) = Whole(q)
      BY <3>2 DEF Offset, Whole
    <3>5. InStep(m)
      BY <3>2, <3>3, <3>4 DEF InStep, Ahead, Underway
    <3> QED
      BY <3>1, <3>2, <3>5 DEF UploadInv, Stored
  <2>4. CASE v # u /\ v \in Active /\ Sector(a) \notin Touched(up[v])
    <3>1. up'[v] = up[v]
      BY <1>5, <2>4
    <3>2. \A c \in 0 .. FlashPages - 1 : Sector(c) \in Touched(up[v]) => pages'[c] = pages[c]
      BY <1>6, <2>4
    <3>3. Stored(up[v], pages')
      <4>1. PICK q \in UploadStates, next \in Flash : q = up[v] /\ next = pages'
        BY <1>7, <2>1
      <4>2. \A c \in 0 .. FlashPages - 1 : Sector(c) \in Touched(q) => next[c] = pages[c]
        BY <3>2, <4>1
      <4>3. Stored(q, pages)
        BY <2>1, <4>1 DEF UploadInv
      <4>4. Stored(q, next)
        BY <1>1, <4>2, <4>3, OwnSectors
      <4> QED
        BY <4>1, <4>4
    <3> QED
      BY <2>1, <3>1, <3>3 DEF UploadInv
  <2>5. CASE v # u /\ v \notin Active
    <3>1. up'[v] = up[v] /\ up[v].state \in {"NONE", "OVER"}
      BY <1>5, <2>5 DEF Active
    <3> QED
      BY <2>1, <3>1 DEF UploadInv, Stored
  <2> QED
    BY <2>2, <2>3, <2>4, <2>5
<1>9. up' \in [Uploads -> UploadStates]
  BY <1>5, <1>8
<1> QED
  BY <1>1, <1>7, <1>8, <1>9 DEF OtaInv

LEMMA IgnoreKept ==
  ASSUME OtaInv, NEW u \in Uploads, Ignore(u)
  PROVE  OtaInv'
<1> DEFINE r == up[u]
           s == Used(r, r.left)
<1>1. /\ r \in UploadStates /\ r.state \in {"DONE", "ERROR"} /\ InStep(r)
      /\ Stored(r, pages) /\ UNCHANGED <<running, pages>> /\ up' = [up EXCEPT ![u] = s]
  BY DEF OtaInv, Ignore, UploadInv
<1>2. PICK x \in Int, y \in Int : x = r.left - r.left /\ y = r.at + r.left
  BY <1>1 DEF UploadStates
<1>3. s = [r EXCEPT !.left = x, !.at = y]
  BY <1>2 DEF Used
<1> HIDE DEF r, s
<1>4. /\ s \in UploadStates /\ s.state = r.state /\ s.file = r.file /\ s.part = r.part
      /\ s.mixed = r.mixed /\ s.bad = r.bad /\ s.address = r.address
  BY <1>1, <1>3 DEF UploadStates
<1>5. Offset(s) = Offset(r) /\ Whole(s) = Whole(r)
  BY <1>4 DEF Offset, Whole
<1>6. UploadInv(s, pages)
  BY <1>1, <1>4, <1>5 DEF UploadInv, InStep, Stored, AllThere, PageOf, Holds
<1> QED
  BY <1>1, <1>6, OneUpload

LEMMA OtaStep ==
  ASSUME OtaInv, [OtaNext]_otaVars
  PROVE  OtaInv'
<1>1. CASE UNCHANGED otaVars
  BY <1>1 DEF OtaInv, otaVars
<1>2. ASSUME NEW u \in Uploads, cgiUploadFirmware(u)
      PROVE  OtaInv'
  <2>1. CASE Answer(u) \/ Lost(u)
    <3>1. up' = [up EXCEPT ![u] = Over] /\ UNCHANGED <<running, pages>>
      BY <2>1 DEF Answer, Lost
    <3> QED
      BY <3>1, NothingSent, OneUpload
  <2>2. CASE PastBody(u)
    BY <2>2 DEF PastBody, OtaInv
  <2> QED
    BY <1>2, <2>1, <2>2, BeginKept, CallKept, StartKept, SkipKept, GatherKept, WritePageKept, IgnoreKept
       DEF cgiUploadFirmware
<1>3. CASE cgiRebootFirmware
  BY <1>3 DEF cgiRebootFirmware, OtaInv
<1>4. CASE upgradeTimerCb
  <2>1. /\ running' \in {1, 2} /\ pages' = pages
        /\ up' = [u \in Uploads |-> IF u \in Active THEN Over ELSE up[u]]
    BY <1>4 DEF upgradeTimerCb, OtaInv, Target
  <2>2. ASSUME NEW u \in Uploads
        PROVE  up'[u] \in UploadStates /\ UploadInv(up'[u], pages)
    <3>1. up'[u] = Over \/ up'[u] = up[u]
      BY <2>1
    <3> QED
      BY <3>1, NothingSent DEF OtaInv
  <2>3. up' \in [Uploads -> UploadStates]
    BY <2>1, <2>2
  <2> QED
    BY <2>1, <2>2, <2>3 DEF OtaInv
<1> QED
  BY <1>1, <1>2, <1>3, <1>4 DEF OtaNext

\* Whatever images are sent, however the body is cut and whoever else uploads: an upload
\* that comes to FLST_DONE has left its image whole and in order in the flash.
THEOREM ImageWritten == OtaSpec => []DoneIsWritten
<1>1. OtaInv => DoneIsWritten
  BY DEF OtaInv, UploadInv, Stored, AllThere, Holds, PageOf, Run, Offset, Whole, DoneIsWritten
<1> QED
  BY <1>1, OtaBegins, OtaStep, PTL DEF OtaSpec

-----------------------------------------------------------------------------
(* The log. *)

\* The places of a ring of n cells: the next one, the one j further, how far it is from
\* j to i.
LEMMA Wrapped ==
  ASSUME NEW n \in Nat \ {0}, NEW i \in 0 .. n - 1, NEW j \in 0 .. n - 1
  PROVE  /\ (i + 1) % n = IF i + 1 = n THEN 0 ELSE i + 1
         /\ (i + j) % n = IF i + j < n THEN i + j ELSE i + j - n
         /\ (i + n - j) % n = IF i < j THEN i + n - j ELSE i - j
<1>1. (i + 1) % n = IF i + 1 = n THEN 0 ELSE i + 1
  OBVIOUS
<1>2. (i + j) % n = IF i + j < n THEN i + j ELSE i + j - n
  OBVIOUS
<1>3. (i + n - j) % n = IF i < j THEN i + n - j ELSE i - j
  OBVIOUS
<1> QED
  BY <1>1, <1>2, <1>3

LEMMA RingWraps ==
  /\ BufMax \in Nat \ {0}
  /\ \A i \in 0 .. BufMax - 1 : (i + 1) % BufMax = IF i + 1 = BufMax THEN 0 ELSE i + 1
  /\ \A i, j \in 0 .. BufMax - 1 :
       /\ (i + j) % BufMax = IF i + j < BufMax THEN i + j ELSE i + j - BufMax
       /\ (i + BufMax - j) % BufMax = IF i < j THEN i + BufMax - j ELSE i - j
<1>1. BufMax \in Nat \ {0}
  BY LogAssumption
<1> QED
  BY <1>1, Wrapped

\* The ring holds the last characters, in order; log_pos is the number of the first.
RingInv ==
  /\ log_wr \in 0 .. BufMax - 1 /\ log_rd \in 0 .. BufMax - 1
  /\ log_pos \in Nat /\ written \in Nat /\ textEnd \in Nat
  /\ log_buf \in [0 .. BufMax - 1 -> [n : Nat, width : 1 .. 6]]
  /\ written = log_pos + log_len
  /\ \A i \in 0 .. BufMax - 1 :
       i < log_len => log_buf[(log_rd + i) % BufMax].n = log_pos + i

LogInv == RingInv /\ resp.size \in Nat /\ TextInPlace

\* How many cells there are from r to w, and what becomes of them when w moves on, and r
\* with it if w has come to it.
Between(n, r, w) == IF w < r THEN w + n - r ELSE w - r
Moved(n, i) == IF i + 1 = n THEN 0 ELSE i + 1
Away(n, r, i) == IF r + i < n THEN r + i ELSE r + i - n

\* r goes to s.
RingMoved(n, r, s, w, v) ==
  /\ v \in 0 .. n - 1 /\ s \in 0 .. n - 1 /\ Between(n, r, w) \in 0 .. n - 1
  /\ Between(n, s, v) = IF v = r THEN Between(n, r, w) ELSE Between(n, r, w) + 1
  /\ \A i \in 0 .. n - 1 : i < Between(n, s, v) =>
       /\ Away(n, s, i) \in 0 .. n - 1
       /\ Away(n, s, i) = w => i = Between(n, s, v) - 1
       /\ Away(n, s, i) # w =>
            LET k == IF v = r THEN i + 1 ELSE i IN
            k \in 0 .. n - 1 /\ k < Between(n, r, w) /\ Away(n, r, k) = Away(n, s, i)

LEMMA RingMoves ==
  \A n \in Nat \ {0} : \A r, w \in 0 .. n - 1 :
    RingMoved(n, r, IF Moved(n, w) = r THEN Moved(n, r) ELSE r, w, Moved(n, w))
<1> SUFFICES ASSUME NEW n \in Nat \ {0}, NEW r \in 0 .. n - 1, NEW w \in 0 .. n - 1
             PROVE  RingMoved(n, r, IF Moved(n, w) = r THEN Moved(n, r) ELSE r, w, Moved(n, w))
  OBVIOUS
<1>1. CASE Moved(n, w) = r
  BY <1>1 DEF Between, Moved, Away, RingMoved
<1>2. CASE Moved(n, w) # r
  BY <1>2 DEF Between, Moved, Away, RingMoved
<1> QED
  BY <1>1, <1>2

LEMMA LenOfRing ==
  ASSUME log_wr \in 0 .. BufMax - 1, log_rd \in 0 .. BufMax - 1
  PROVE  log_len = Between(BufMax, log_rd, log_wr)
  BY RingWraps DEF log_len, Between

LEMMA LogBegins == LogInit => LogInv
<1> SUFFICES ASSUME LogInit PROVE LogInv
  OBVIOUS
<1>1. BufMax \in Nat \ {0} /\ BuffLen \in Nat
  BY LogAssumption
<1>2. /\ log_wr = 0 /\ log_rd = 0 /\ log_pos = 0 /\ written = 0 /\ textEnd = 0
      /\ resp = NoResp /\ log_buf = [i \in 0 .. BufMax - 1 |-> [n |-> 0, width |-> 1]]
  BY DEF LogInit
<1>3. log_len = 0
  BY <1>1, <1>2, LenOfRing DEF Between
<1>4. log_buf \in [0 .. BufMax - 1 -> [n : Nat, width : 1 .. 6]]
  BY <1>2
<1>5. RingInv
  BY <1>1, <1>2, <1>3, <1>4 DEF RingInv
<1>6. resp.size = 0 /\ Len(resp.text) = 0 /\ resp.len = 0
  BY <1>2 DEF NoResp
<1>7. TextInPlace
  BY <1>1, <1>2, <1>6 DEF TextInPlace
<1> QED
  BY <1>5, <1>6, <1>7 DEF LogInv

\* log_write: the ring takes a character, and loses one when it is full.
LEMMA WriteKept ==
  ASSUME LogInv, NEW width \in Widths, log_write(width)
  PROVE  LogInv'
<1> DEFINE len == log_len
           ch == [n |-> written, width |-> width]
<1>0. BufMax \in Nat \ {0} /\ width \in 1 .. 6
  BY LogAssumption
<1>1. /\ log_wr \in 0 .. BufMax - 1 /\ log_rd \in 0 .. BufMax - 1 /\ log_pos \in Nat
      /\ written \in Nat /\ textEnd \in Nat /\ written = log_pos + len
      /\ log_buf \in [0 .. BufMax - 1 -> [n : Nat, width : 1 .. 6]]
  BY DEF LogInv, RingInv
<1>2. len = Between(BufMax, log_rd, log_wr)
  BY <1>1, LenOfRing
<1>3. /\ log_buf' = [log_buf EXCEPT ![log_wr] = ch]
      /\ log_wr' = (log_wr + 1) % BufMax /\ Eaten(log_wr')
      /\ written' = written + 1 /\ textEnd' = textEnd /\ resp' = resp /\ restarted' = restarted
  BY DEF log_write
<1>4. log_wr' = Moved(BufMax, log_wr)
  BY <1>1, <1>3, RingWraps DEF Moved
<1>5. /\ log_rd' = IF Moved(BufMax, log_wr) = log_rd THEN Moved(BufMax, log_rd) ELSE log_rd
      /\ log_pos' = IF Moved(BufMax, log_wr) = log_rd THEN log_pos + 1 ELSE log_pos
  BY <1>1, <1>3, <1>4, RingWraps DEF Eaten, Moved
<1>6. RingMoved(BufMax, log_rd, log_rd', log_wr, log_wr')
  <2>1. RingMoved(BufMax, log_rd,
                  IF Moved(BufMax, log_wr) = log_rd THEN Moved(BufMax, log_rd) ELSE log_rd,
                  log_wr, Moved(BufMax, log_wr))
    BY <1>0, <1>1, RingMoves
  <2> QED
    BY <1>4, <1>5, <2>1, Zenon
<1>7. /\ len \in 0 .. BufMax - 1 /\ log_wr' \in 0 .. BufMax - 1 /\ log_rd' \in 0 .. BufMax - 1
      /\ Between(BufMax, log_rd', log_wr') = IF log_wr' = log_rd THEN len ELSE len + 1
  BY <1>2, <1>6 DEF RingMoved
<1>8. log_len' = Between(BufMax, log_rd', log_wr')
  BY <1>7, RingWraps DEF log_len, Between
<1> HIDE DEF len
<1>9. written' = log_pos' + log_len' /\ log_pos' \in Nat /\ written' \in Nat
  BY <1>1, <1>3, <1>4, <1>5, <1>7, <1>8
<1>10. log_buf' \in [0 .. BufMax - 1 -> [n : Nat, width : 1 .. 6]]
  BY <1>0, <1>1, <1>3
<1>11. ASSUME NEW i \in 0 .. BufMax - 1, i < log_len'
       PROVE  log_buf'[(log_rd' + i) % BufMax].n = log_pos' + i
  <2> DEFINE j == Away(BufMax, log_rd', i)
             k == IF log_wr' = log_rd THEN i + 1 ELSE i
  <2>1. (log_rd' + i) % BufMax = j
    BY <1>7, RingWraps DEF Away
  <2>2. /\ j \in 0 .. BufMax - 1 /\ (j = log_wr => i = log_len' - 1)
        /\ j # log_wr => k \in 0 .. BufMax - 1 /\ k < len /\ Away(BufMax, log_rd, k) = j
    BY <1>2, <1>6, <1>8, <1>11 DEF RingMoved
  <2> HIDE DEF j
  <2>3. CASE j = log_wr
    <3>1. log_buf'[j] = ch
      BY <1>1, <1>3, <2>2, <2>3
    <3>2. log_pos' + i = written
      <4>1. PICK p \in Int : p = log_pos'
        BY <1>9
      <4>2. \/ p = log_pos + 1 /\ i = len - 1
            \/ p = log_pos /\ i = len
        BY <1>4, <1>5, <1>7, <1>8, <2>2, <2>3, <4>1
      <4>3. p + i = written
        BY <1>1, <1>7, <4>2
      <4> QED
        BY <4>1, <4>3
    <3> QED
      BY <2>1, <3>1, <3>2
  <2>4. CASE j # log_wr
    <3>1. log_pos' + i = log_pos + k
      BY <1>1, <1>4, <1>5
    <3> HIDE DEF k
    <3>2. (log_rd + k) % BufMax = j
      BY <1>1, <2>2, <2>4, RingWraps DEF Away
    <3>3. log_buf[(log_rd + k) % BufMax].n = log_pos + k
      BY <2>2, <2>4 DEF LogInv, RingInv, len
    <3>4. log_buf'[j] = log_buf[j]
      BY <1>1, <1>3, <2>2, <2>4
    <3> QED
      BY <2>1, <3>1, <3>2, <3>3, <3>4
  <2> QED
    BY <2>3, <2>4
<1>12. RingInv'
  BY <1>1, <1>3, <1>7, <1>9, <1>10, <1>11 DEF RingInv
<1>13. TextInPlace'
  BY <1>1, <1>3 DEF LogInv, TextInPlace
<1> QED
  BY <1>3, <1>12, <1>13 DEF LogInv

\* The cells the first i characters take are as many as their widths are together: one
\* more takes 6 more, at most.
LEMMA CellsOf ==
  ASSUME NEW s, NEW k \in Nat
  PROVE  IsFiniteSet(Cells(s, k)) /\ Cardinality(Cells(s, k)) \in Nat
<1>1. IsFiniteSet(1 .. k) /\ IsFiniteSet(1 .. 6)
  BY FS_Interval, 1 \in Int, 6 \in Int, k \in Int
<1>2. IsFiniteSet((1 .. k) \X (1 .. 6))
  BY <1>1, FS_Product
<1>3. Cells(s, k) \in SUBSET ((1 .. k) \X (1 .. 6))
  BY DEF Cells
<1>4. IsFiniteSet(Cells(s, k))
  BY <1>2, <1>3, FS_Subset
<1> QED
  BY <1>4, FS_CardinalityType

LEMMA NoCells == ASSUME NEW s PROVE Cardinality(Cells(s, 0)) = 0
<1>1. Cells(s, 0) = {}
  <2>1. (1 .. 0) = {}
    OBVIOUS
  <2> QED
    BY <2>1 DEF Cells
<1> QED
  BY <1>1, FS_EmptySet

LEMMA OneMore ==
  ASSUME NEW s, NEW k \in Nat
  PROVE  Cardinality(Cells(s, k + 1)) <= Cardinality(Cells(s, k)) + 6
<1> DEFINE last == {k + 1} \X (1 .. 6)
<1>1. IsFiniteSet({k + 1}) /\ Cardinality({k + 1}) = 1
  BY FS_Singleton
<1>2. IsFiniteSet(1 .. 6) /\ Cardinality(1 .. 6) = 6
  <2>1. IsFiniteSet(1 .. 6) /\ Cardinality(1 .. 6) = IF 1 > 6 THEN 0 ELSE 6 - 1 + 1
    BY FS_Interval, 1 \in Int, 6 \in Int
  <2> QED
    BY <2>1
<1>3. IsFiniteSet(last) /\ Cardinality(last) = 1 * 6
  BY <1>1, <1>2, FS_Product
<1>4. IsFiniteSet(Cells(s, k)) /\ Cardinality(Cells(s, k)) \in Nat
  BY CellsOf
<1>5. Cells(s, k + 1) \in SUBSET (Cells(s, k) \cup last)
  BY DEF Cells
<1> HIDE DEF last
<1>6. /\ IsFiniteSet(Cells(s, k) \cup last)
      /\ Cardinality(Cells(s, k) \cup last)
           = Cardinality(Cells(s, k)) + Cardinality(last) - Cardinality(Cells(s, k) \cap last)
  BY <1>3, <1>4, FS_Union
<1>7. Cardinality(Cells(s, k) \cap last) \in Nat
  <2>1. Cells(s, k) \cap last \in SUBSET Cells(s, k)
    OBVIOUS
  <2> QED
    BY <1>4, <2>1, FS_Subset, FS_CardinalityType
<1>8. Cardinality(Cells(s, k + 1)) <= Cardinality(Cells(s, k) \cup last)
  BY <1>5, <1>6, FS_Subset
<1>9. Cardinality(Cells(s, k + 1)) \in Nat
  BY CellsOf
<1> QED
  BY <1>3, <1>4, <1>6, <1>7, <1>8, <1>9

\* What an answer takes fits buff with its end, and fills it when it is not all.
LEMMA TakenFits ==
  ASSUME NEW head \in 0 .. HeaderMax, NEW s \in Seq([n : Nat, width : 1 .. 6]),
         NEW k \in 0 .. Len(s), Taken(head, s, k)
  PROVE  /\ Filled(head, s, k) \in Nat /\ Filled(head, s, k) + 3 <= BuffLen
         /\ k < Len(s) => Filled(head, s, k) + 3 > BuffLen - 6
<1>1. BuffLen \in Nat /\ HeaderMax \in Nat /\ HeaderMax + 3 <= BuffLen
  BY LogAssumption
<1>2. Filled(head, s, k) \in Nat
  BY CellsOf DEF Filled
<1>3. CASE k = 0
  <2>1. Filled(head, s, k) = head
    BY <1>3, NoCells DEF Filled
  <2> QED
    BY <1>1, <1>2, <2>1 DEF Taken, Room
<1>4. CASE k # 0
  <2>1. k - 1 \in Nat /\ k - 1 \in 0 .. k - 1 /\ (k - 1) + 1 = k
    BY <1>4
  <2>2. Filled(head, s, k) <= Filled(head, s, k - 1) + 6 /\ Filled(head, s, k - 1) \in Nat
    <3>1. Cardinality(Cells(s, k)) <= Cardinality(Cells(s, k - 1)) + 6
      BY <2>1, OneMore
    <3>2. Cardinality(Cells(s, k)) \in Nat /\ Cardinality(Cells(s, k - 1)) \in Nat
      BY <2>1, CellsOf
    <3> QED
      BY <3>1, <3>2 DEF Filled
  <2>3. Filled(head, s, k - 1) < BuffLen - 8
    BY <2>1 DEF Taken, Room
  <2>4. k < Len(s) => ~(Filled(head, s, k) < BuffLen - 8)
    BY DEF Taken, Room
  <2> QED
    BY <1>1, <1>2, <2>2, <2>3, <2>4
<1> QED
  BY <1>3, <1>4

\* What the ring holds from start on.
LEMMA FromRing ==
  ASSUME RingInv, NEW start \in 0 .. log_len
  PROVE  /\ From(start) \in Seq([n : Nat, width : 1 .. 6]) /\ Len(From(start)) = log_len - start
         /\ \A i \in 1 .. log_len - start : From(start)[i].n = log_pos + start + i - 1
<1>0. BufMax \in Nat \ {0} /\ log_len \in 0 .. BufMax - 1
  <2>1. log_wr \in 0 .. BufMax - 1 /\ log_rd \in 0 .. BufMax - 1
    BY DEF RingInv
  <2> QED
    BY <2>1, LenOfRing, RingWraps DEF Between
<1>1. /\ log_rd \in 0 .. BufMax - 1 /\ log_pos \in Nat
      /\ log_buf \in [0 .. BufMax - 1 -> [n : Nat, width : 1 .. 6]]
  BY DEF RingInv
<1>2. ASSUME NEW i \in 1 .. log_len - start
      PROVE  /\ log_buf[(log_rd + start + i - 1) % BufMax] \in [n : Nat, width : 1 .. 6]
             /\ log_buf[(log_rd + start + i - 1) % BufMax].n = log_pos + start + i - 1
  <2> DEFINE j == start + i - 1
  <2>1. j \in 0 .. BufMax - 1 /\ j < log_len
    BY <1>0
  <2>2. log_rd + start + i - 1 = log_rd + j /\ log_pos + start + i - 1 = log_pos + j
    BY <1>0, <1>1
  <2> HIDE DEF j
  <2>3. (log_rd + j) % BufMax \in 0 .. BufMax - 1
    <3>1. (log_rd + j) % BufMax = IF log_rd + j < BufMax THEN log_rd + j ELSE log_rd + j - BufMax
      BY <1>1, <2>1, RingWraps
    <3> QED
      BY <1>0, <1>1, <2>1, <3>1
  <2>4. log_buf[(log_rd + j) % BufMax].n = log_pos + j
    BY <2>1 DEF RingInv
  <2>5. log_buf[(log_rd + j) % BufMax] \in [n : Nat, width : 1 .. 6]
    BY <1>1, <2>3
  <2> QED
    BY <2>2, <2>4, <2>5
<1>3. log_len - start \in Nat
  BY <1>0
<1> DEFINE m == log_len - start
           T == [n : Nat, width : 1 .. 6]
           c == [i \in 1 .. m |-> log_buf[(log_rd + start + i - 1) % BufMax]]
<1>4. From(start) = c
  BY DEF From
<1>5. /\ m \in Nat
      /\ \A i \in 1 .. m : c[i] \in T /\ c[i].n = log_pos + start + i - 1
  BY <1>2, <1>3
<1>6. c = [i \in 1 .. m |-> c[i]]
  OBVIOUS
<1> HIDE DEF m, c, T
<1>7. c \in [1 .. m -> T]
  BY <1>5, <1>6
<1>8. c \in Seq(T) /\ Len(c) = m
  BY <1>5, <1>6, <1>7
<1> QED
  BY <1>4, <1>5, <1>8 DEF m, T

LEMMA AjaxKept ==
  ASSUME LogInv, NEW head \in 0 .. HeaderMax, ajaxLog(head)
  PROVE  LogInv'
<1> DEFINE start == StartAt(textEnd)
           s == From(start)
           Answered == /\ resp'.size \in Nat /\ resp'.size <= BuffLen
                       /\ Len(resp'.text) = resp'.len
                       /\ \A i \in 1 .. Len(resp'.text) : resp'.text[i].n = resp'.start + i - 1
<1>1. /\ log_wr \in 0 .. BufMax - 1 /\ log_rd \in 0 .. BufMax - 1 /\ log_pos \in Nat
      /\ written \in Nat /\ textEnd \in Nat /\ written = log_pos + log_len
      /\ BufMax \in Nat \ {0} /\ BuffLen \in Nat
  BY LogAssumption DEF LogInv, RingInv
<1>2. log_len \in Nat
  BY <1>1, LenOfRing DEF Between
<1>3. start \in 0 .. log_len
  BY <1>1, <1>2 DEF StartAt
<1>4. /\ s \in Seq([n : Nat, width : 1 .. 6]) /\ Len(s) = log_len - start
      /\ \A i \in 1 .. log_len - start : s[i].n = log_pos + start + i - 1
  BY <1>3, FromRing DEF LogInv
<1>5. PICK k \in 0 .. Len(s) :
        /\ Taken(head, s, k)
        /\ LET size == Filled(head, s, k) + 3 IN
           resp' = IF size > SendRoom THEN [NoResp EXCEPT !.size = size]
                   ELSE [start |-> log_pos + start, len |-> log_len - start,
                         text |-> SubSeq(s, 1, k), size |-> size]
  BY DEF ajaxLog
<1>6. /\ textEnd' = IF resp'.len > 0 THEN resp'.start + resp'.len ELSE textEnd
      /\ UNCHANGED <<ring, written, restarted>>
  BY DEF ajaxLog
<1> HIDE DEF start, s, Answered
<1>7. /\ Filled(head, s, k) \in Nat /\ Filled(head, s, k) + 3 <= BuffLen
      /\ k < Len(s) => Filled(head, s, k) + 3 > BuffLen - 6
  BY <1>4, <1>5, TakenFits
<1>8. SendRoom \in Nat /\ SendRoom + 6 <= BuffLen
  BY LogAssumption
<1>9. ASSUME Filled(head, s, k) + 3 > SendRoom
      PROVE  Answered /\ textEnd' = textEnd
  <2>1. /\ Len(resp'.text) = 0 /\ resp'.len = 0 /\ resp'.size = Filled(head, s, k) + 3
    BY <1>5, <1>9 DEF NoResp
  <2>2. textEnd' = textEnd
    BY <1>6, <2>1
  <2>3. Answered
    BY <1>7, <2>1 DEF Answered
  <2> QED
    BY <2>2, <2>3
<1>10. ASSUME ~(Filled(head, s, k) + 3 > SendRoom)
       PROVE  Answered /\ (textEnd' = textEnd \/ textEnd' = written)
  <2>1. /\ resp'.start = log_pos + start /\ resp'.len = log_len - start
        /\ resp'.size = Filled(head, s, k) + 3 /\ resp'.text = SubSeq(s, 1, k)
    BY <1>5, <1>10
  <2>2. k = Len(s)
    <3>1. PICK m \in Nat, e \in Nat : m = Filled(head, s, k) /\ e = Len(s)
      BY <1>4, <1>7
    <3>2. k < e => m + 3 > BuffLen - 6
      BY <1>7, <3>1
    <3> QED
      BY <1>1, <1>8, <1>10, <3>1, <3>2
  <2>3. Len(resp'.text) = k /\ \A i \in 1 .. k : resp'.text[i] = s[i]
    BY <1>4, <2>1
  <2>4. ASSUME NEW i \in 1 .. Len(resp'.text)
        PROVE  resp'.text[i].n = resp'.start + i - 1
    <3>1. resp'.text[i] = s[i] /\ i \in 1 .. log_len - start
      BY <1>4, <2>2, <2>3
    <3>2. s[i].n = log_pos + start + i - 1
      BY <1>4, <3>1
    <3>3. PICK b \in Int : b = log_pos + start
      BY <1>1, <1>3, <1>2
    <3> QED
      BY <2>1, <3>1, <3>2, <3>3
  <2>5. Len(resp'.text) = resp'.len
    BY <1>4, <2>1, <2>2, <2>3
  <2>6. Answered
    BY <1>7, <2>1, <2>4, <2>5 DEF Answered
  <2>7. textEnd' = IF log_len - start > 0 THEN written ELSE textEnd
    BY <1>1, <1>2, <1>3, <1>6, <2>1
  <2> QED
    BY <2>6, <2>7
<1>11. Answered /\ (textEnd' = textEnd \/ textEnd' = written)
  BY <1>9, <1>10
<1>12. RingInv'
  <2>1. log_len' = log_len
    BY <1>6 DEF log_len, ring
  <2>2. textEnd' \in Nat
    BY <1>1, <1>11
  <2> QED
    BY <1>6, <2>1, <2>2 DEF LogInv, RingInv, ring
<1>13. ~restarted => textEnd <= written
  BY DEF LogInv, TextInPlace
<1>14. ~restarted' => textEnd' <= written'
  BY <1>1, <1>6, <1>11, <1>13
<1>15. TextInPlace'
  BY <1>11, <1>14 DEF Answered, TextInPlace
<1> QED
  BY <1>11, <1>12, <1>15 DEF Answered, LogInv

LEMMA LogStep == LogInv /\ [LogNext]_logVars => LogInv'
<1> SUFFICES ASSUME LogInv, [LogNext]_logVars PROVE LogInv'
  OBVIOUS
<1>1. CASE UNCHANGED logVars
  <2>1. log_len' = log_len
    BY <1>1 DEF log_len, logVars, ring
  <2> QED
    BY <1>1, <2>1 DEF LogInv, RingInv, TextInPlace, logVars, ring
<1>2. CASE Restart
  <2>1. /\ log_wr' = 0 /\ log_rd' = 0 /\ log_pos' = 0 /\ written' = 0 /\ restarted' = TRUE
        /\ resp' = NoResp /\ log_buf' = log_buf /\ textEnd' = textEnd
    BY <1>2 DEF Restart
  <2>2. BufMax \in Nat \ {0} /\ BuffLen \in Nat
    BY LogAssumption
  <2>3. log_len' = 0
    BY <2>1, <2>2, RingWraps DEF log_len
  <2>4. RingInv'
    BY <2>1, <2>2, <2>3 DEF LogInv, RingInv
  <2>5. resp'.size = 0 /\ Len(resp'.text) = 0 /\ resp'.len = 0
    BY <2>1 DEF NoResp
  <2>6. TextInPlace'
    BY <2>1, <2>2, <2>5 DEF TextInPlace
  <2> QED
    BY <2>4, <2>5, <2>6 DEF LogInv
<1>3. CASE Reload
  <2>1. /\ textEnd' = 0 /\ resp' = NoResp /\ UNCHANGED <<ring, written>>
    BY <1>3 DEF Reload
  <2>2. BufMax \in Nat \ {0} /\ BuffLen \in Nat
    BY LogAssumption
  <2>3. log_len' = log_len
    BY <2>1 DEF log_len, ring
  <2>4. RingInv' /\ written \in Nat
    BY <2>1, <2>3 DEF LogInv, RingInv, ring
  <2>5. resp'.size = 0 /\ Len(resp'.text) = 0 /\ resp'.len = 0
    BY <2>1 DEF NoResp
  <2>6. TextInPlace'
    BY <2>1, <2>2, <2>4, <2>5 DEF TextInPlace
  <2> QED
    BY <2>4, <2>5, <2>6 DEF LogInv
<1> QED
  BY <1>1, <1>2, <1>3, WriteKept, AjaxKept DEF LogNext

\* The page gets each character under its own number, whatever the size of the ring and of
\* the answer (log_write, ajaxLog, updateText).
THEOREM PageInPlace == LogSpec => []TextInPlace
<1>1. LogInv => TextInPlace
  BY DEF LogInv
<1> QED
  BY <1>1, LogBegins, LogStep, PTL DEF LogSpec
===============================================================================
