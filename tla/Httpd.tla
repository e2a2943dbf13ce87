-------------------------------- MODULE Httpd ---------------------------------
(***************************************************************************)
(* A connection of the web server (libesphttpd/core/httpd.c): a request in  *)
(* segments cut anywhere, the CGI that serves it, and the answer, which     *)
(* waits in a backlog while the network is busy.  httpdRecvCb works on one  *)
(* segment, here in a step per stretch of bytes, and nothing else happens   *)
(* meanwhile.  What a CGI does is its choice.  HFL_CHUNKED is never set     *)
(* (httpd.c:607), so that each connection serves one request.               *)
(***************************************************************************)
EXTENDS Integers, Sequences

CONSTANTS
  Requests,    \* what a client sends: [known, head, len, extra]
  MaxPost,     \* MAX_POST
  Segments,    \* lengths of the segments the network delivers
  MaxBacklog,  \* buffers the backlog takes; MAX_BACKLOG_SIZE bytes in the code
  MaxPieces    \* a bound: buffers a CGI sends

\* known: its method is GET or POST; head, len: the bytes of its headers and of its
\* body; extra: bytes the client sends behind it.
ASSUME HttpdAssumption ==
  /\ \A q \in Requests : /\ q.known \in BOOLEAN /\ q.head \in Nat \ {0}
                         /\ q.len \in Nat /\ q.extra \in Nat
  /\ MaxPost \in Nat \ {0} /\ Segments \subseteq Nat \ {0}
  /\ MaxBacklog \in Nat /\ MaxPieces \in Nat

VARIABLES
  request,     \* what the client sends
  at, left,    \* how much of it httpdRecvCb has worked on; what the segment still has
  inRecv,      \* in httpdRecvCb
  post,        \* HttpdPostData; given: the bytes the CGI has been given
  cgi,         \* it is set
  done,        \* history: a CGI was done
  silent,      \* history: in a sent callback, with nothing to say
  discon,      \* HFL_DISCONAFTERSENT
  buffered,    \* something is in sendBuff
  out,         \* the buffers sent, by number: see Outputs
  connection   \* open, closing (by this end) or closed

served == <<cgi, done, silent, discon>>
vars == <<request, at, left, inRecv, post, served, buffered, out, connection>>

\* got: how many have reached the client; inflight: the one the network has, or 0;
\* next: the one to come.  history: refused, the network did not take one although it
\* had none; dropped, the backlog did not.
Outputs == [got : Nat, inflight : Nat, backlog : Seq(Nat), next : Nat,
            refused : BOOLEAN, dropped : BOOLEAN]

NoPost == [len |-> -1, size |-> 0, buffLen |-> 0, received |-> 0, given |-> 0]
NoOutput == [got |-> 0, inflight |-> 0, backlog |-> <<>>, next |-> 1,
             refused |-> FALSE, dropped |-> FALSE]

Init ==
  /\ request \in Requests
  /\ at = 0 /\ left = 0 /\ inRecv = FALSE /\ post = NoPost
  /\ cgi = FALSE /\ done = FALSE /\ silent = FALSE /\ discon = FALSE
  /\ buffered = FALSE /\ out = NoOutput
  /\ connection = "open"

-----------------------------------------------------------------------------
(* Sending. *)

Queued(s) ==
  IF Len(s.backlog) < MaxBacklog
    THEN [s EXCEPT !.backlog = Append(@, s.next), !.next = @ + 1,
                   !.refused = @ \/ s.inflight = 0]
    ELSE [s EXCEPT !.next = @ + 1, !.dropped = TRUE]

\* Mutant of httpdUnbufferedSend: the backlog is filled at its front.
httpdUnbufferedSendFirst(s) ==
  {LET q == Queued(s) IN
     IF q.dropped THEN q ELSE [q EXCEPT !.backlog = <<s.next>> \o s.backlog]}
  \cup (IF s.inflight = 0 THEN {[s EXCEPT !.inflight = s.next, !.next = @ + 1]} ELSE {})

\* httpdUnbufferedSend: the network takes the buffer or it goes to the backlog.
httpdUnbufferedSend(s) ==
  {Queued(s)}
  \cup (IF s.inflight = 0 THEN {[s EXCEPT !.inflight = s.next, !.next = @ + 1]} ELSE {})

\* httpdFlushSendBuffer
httpdFlushSendBuffer(full) == IF full THEN out' \in httpdUnbufferedSend(out) ELSE UNCHANGED out

\* What a CGI writes with httpdSend goes to sendBuff; it always fits here.
httpdSend(data) == data => out.next <= MaxPieces

-----------------------------------------------------------------------------
(* The CGI. *)

\* Mutant of httpdCgiIsDone: the connection is not marked.
httpdCgiIsDoneUnmarked == cgi' = FALSE /\ done' = TRUE /\ UNCHANGED <<silent, discon>>

httpdCgiIsDone == cgi' = FALSE /\ done' = TRUE /\ discon' = TRUE /\ UNCHANGED silent

\* The last read of a file whose size fills its buffers finds nothing (cgiRoffsHook,
\* cgiEspFsHook).
DoneSilently == cgi' = FALSE /\ done' = TRUE /\ discon' = TRUE /\ silent' = TRUE

GoesOn == cgi' = TRUE /\ UNCHANGED <<done, silent, discon>>

\* httpdProcessRequest: the first CGI for the URL that takes the request; the last one
\* always does.  A CGI that is done has answered.  A method it does not know leaves no
\* URL, and no answer.
httpdProcessRequest ==
  IF ~request.known THEN UNCHANGED <<served, buffered, out>>
  ELSE \E data \in BOOLEAN :
         /\ httpdSend(data)
         /\ \/ /\ GoesOn
               /\ httpdFlushSendBuffer(buffered \/ data) /\ buffered' = FALSE
            \/ /\ data /\ httpdCgiIsDone
               /\ buffered' = TRUE /\ UNCHANGED out

\* callCGI, for more of the body.
callCGI ==
  \E data \in BOOLEAN :
    /\ httpdSend(data)
    /\ GoesOn \/ (data /\ httpdCgiIsDone)
    /\ buffered' = (buffered \/ data) /\ UNCHANGED out

-----------------------------------------------------------------------------
(* Receiving. *)

Size(q) == q.head + q.len + q.extra
Least(a, b) == IF a < b THEN a ELSE b
Work(n) == at' = at + n /\ left' = left - n /\ UNCHANGED <<request, inRecv, connection>>

\* httpdRecvCb begins.
Receive(n) ==
  /\ connection = "open" /\ ~inRecv /\ at + n <= Size(request)
  /\ inRecv' = TRUE /\ left' = n /\ buffered' = FALSE
  /\ UNCHANGED <<request, at, post, served, out, connection>>

\* httpdParseHeader, of the length of the body.
httpdParseHeader == [NoPost EXCEPT !.len = request.len, !.size = Least(request.len, MaxPost)]

\* Header bytes, up to the empty line.
HeaderBytes ==
  LET n == Least(left, request.head - at) IN
  /\ inRecv /\ left > 0 /\ post.len < 0
  /\ Work(n)
  /\ IF at + n < request.head THEN UNCHANGED <<post, served, buffered, out>>
     ELSE /\ post' = httpdParseHeader
          /\ IF request.len = 0 THEN httpdProcessRequest ELSE UNCHANGED <<served, buffered, out>>

\* Mutant of Full: the end of a body shorter than the buffer is not noticed.
FullBufferOnly(p) == p.buffLen >= p.size

\* The buffer is full, or the body complete.
Full(p) == p.buffLen >= p.size \/ p.received = p.len

\* Bytes of the body, and what comes behind it, up to the next call of the CGI; one
\* that was done is chosen again.
BodyBytes ==
  LET room == Least(left, post.size - post.buffLen)
      n == IF post.received < post.len THEN Least(room, post.len - post.received) ELSE room
      p == [post EXCEPT !.buffLen = @ + n, !.received = @ + n]
  IN /\ inRecv /\ left > 0 /\ post.len > 0
     /\ Work(n)
     /\ IF Full(p)
          THEN /\ post' = [p EXCEPT !.buffLen = 0, !.given = @ + p.buffLen]
               /\ IF cgi THEN callCGI ELSE httpdProcessRequest
          ELSE post' = p /\ UNCHANGED <<served, buffered, out>>

\* Behind a request without a body nothing is expected.
Unexpected ==
  /\ inRecv /\ left > 0 /\ post.len = 0
  /\ Work(left)
  /\ UNCHANGED <<post, served, buffered, out>>

\* httpdRecvCb ends.
RecvEnd ==
  /\ inRecv /\ left = 0
  /\ httpdFlushSendBuffer(buffered)
  /\ inRecv' = FALSE /\ buffered' = FALSE
  /\ UNCHANGED <<request, at, left, post, served, connection>>

-----------------------------------------------------------------------------
(* Other callbacks. *)

Arrived == [out EXCEPT !.got = @ + 1, !.inflight = 0]

\* The next buffer of the backlog; what the network refuses now is gone.
FromBacklog ==
  /\ out.backlog # <<>>
  /\ out' \in {[Arrived EXCEPT !.inflight = Head(out.backlog), !.backlog = Tail(@)],
               [Arrived EXCEPT !.refused = TRUE, !.backlog = Tail(@)]}
  /\ UNCHANGED <<served, connection>>

\* The answer is out.
Disconnects == discon /\ out.backlog = <<>>

\* httpdSentCb
httpdSentCb ==
  /\ connection = "open" /\ ~inRecv /\ out.inflight # 0
  /\ UNCHANGED <<request, at, left, inRecv, post, buffered>>
  /\ \/ ~Disconnects /\ FromBacklog
     \/ /\ Disconnects
        /\ connection' = "closing" /\ out' = Arrived
        /\ UNCHANGED served
     \/ /\ ~Disconnects /\ out.backlog = <<>>
        /\ UNCHANGED connection
        /\ \/ ~cgi /\ out' = Arrived /\ UNCHANGED served
           \/ /\ cgi
              /\ \/ (GoesOn \/ DoneSilently) /\ out' = Arrived
                 \/ /\ httpdSend(TRUE) /\ out' \in httpdUnbufferedSend(Arrived)
                    /\ GoesOn \/ httpdCgiIsDone

\* A CGI sends, or ends, from a callback of its own.
CgiSends ==
  /\ connection = "open" /\ ~inRecv /\ cgi
  /\ UNCHANGED <<request, at, left, inRecv, post, buffered, connection>>
  /\ httpdSend(TRUE) /\ out' \in httpdUnbufferedSend(out)
  /\ GoesOn \/ httpdCgiIsDone

\* httpdDisconCb, httpdReconCb: the CGI is called for the last time and the memory freed.
httpdDisconCb ==
  /\ connection # "closed" /\ ~inRecv
  /\ connection' = "closed" /\ cgi' = FALSE
  /\ UNCHANGED <<request, at, left, inRecv, post, done, silent, discon, buffered, out>>

\* httpdConnectCb; the pool of connections is in SscpHttp.
httpdConnectCb ==
  /\ connection = "closed" /\ connection' = "open"
  /\ request' \in Requests
  /\ at' = 0 /\ left' = 0 /\ post' = NoPost
  /\ cgi' = FALSE /\ done' = FALSE /\ silent' = FALSE /\ discon' = FALSE
  /\ buffered' = FALSE /\ out' = NoOutput
  /\ UNCHANGED inRecv

Receiving == HeaderBytes \/ BodyBytes \/ Unexpected \/ RecvEnd

Next ==
  \/ \E n \in Segments : Receive(n)
  \/ Receiving \/ httpdSentCb \/ CgiSends \/ httpdDisconCb \/ httpdConnectCb

Spec == Init /\ [][Next]_vars

\* The network confirms a buffer or gives up.
Confirmation == httpdSentCb \/ (out.inflight # 0 /\ httpdDisconCb)

\* httpdRecvCb comes to its end.
FairSpec == Spec /\ WF_vars(Receiving) /\ WF_vars(Confirmation)

-----------------------------------------------------------------------------
(* Properties. *)

\* What the CGI has sent reaches the client in order and without a gap, and the server
\* closes the connection only behind its end, unless the network refused a buffer while
\* it had none or the backlog was full (httpdUnbufferedSend, httpdSentCb).
AnswerInOrder ==
  out.refused \/ out.dropped \/
    /\ IF out.inflight = 0 THEN out.backlog = <<>> /\ out.next = out.got + 1
       ELSE /\ out.inflight = out.got + 1
            /\ out.next = out.inflight + Len(out.backlog) + 1
            /\ \A i \in 1..Len(out.backlog) : out.backlog[i] = out.inflight + i
    /\ connection = "closing" => out.next = out.got + 1

\* However the body is cut, each of its bytes is given to the CGI once, and the last of
\* them with the end of the body.
BodyOnce ==
  /\ post.given + post.buffLen = post.received
  /\ post.len >= 0 /\ at >= request.head /\ post.len > 0 => post.received = at - request.head
  /\ post.len > 0 /\ post.received = post.len => post.buffLen = 0

\* A CGI that is done, even one that was chosen again for the rest of a body
\* (httpdRecvCb), has its connection closed, unless it was done in a sent callback in
\* which it sent nothing: no other callback would come.
RequestEnds == done ~> (connection # "open" \/ silent \/ out.refused \/ out.dropped)
===============================================================================
