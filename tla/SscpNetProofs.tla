---------------------------- MODULE SscpNetProofs ---------------------------
(***************************************************************************)
(* SscpNet for every number of slots, size of the buffers, set of URLs and *)
(* of lengths.                                                             *)
(***************************************************************************)
EXTENDS SscpNet, TLAPS

\* One slot by itself, used or given back.  What has not been read is flagged; a name
\* is looked up only before there is a socket; what is being sent keeps its buffer full.
Sound(c) ==
  /\ c \in Connections /\ c.rxIndex <= c.rxCount
  /\ c.rxIndex < c.rxCount => "RXFULL" \in c.flags
  /\ c.lookup # None => c.state = "idle" /\ c.net = "none" /\ c.type # "ws" /\ ~c.sending
  /\ c.net = "connecting" => c.state = "connecting" /\ ~c.sending
  /\ c.lookup = "tcp" \/ c.net \in {"connecting", "open"} => c.type \in {"tcp", None}
  /\ c.type # None => c.net # "closing"
  /\ c.type # None /\ c.sending => "TXFULL" \in c.flags

\* The slot whose payload is captured: it cannot be given back meanwhile.
Capturing(c) ==
  /\ c.type # None /\ c.lookup = None /\ ~c.sending /\ c.net # "connecting"
  /\ "TXFULL" \in c.flags

\* The SDK owes the slot an answer that answers a command.
Busy(c) == c.type # None /\ (c.lookup # None \/ c.net = "connecting" \/ c.sending)

\* Without events, and until a connection has broken or a handle that was given back has
\* been answered, only the command being processed has made a slot busy.
Asked == ~sscp_events /\ ~failed /\ ~late =>
  ~stray /\ \A t \in Slots : Busy(conns[t]) \/ payload = t => pending = t

Plain ==
  /\ sscp_events \in BOOLEAN /\ stray \in BOOLEAN /\ failed \in BOOLEAN
  /\ late \in BOOLEAN /\ astray \in BOOLEAN
  /\ listeners \in [Listeners -> Paths \cup {None}]
  /\ pending \in Slots \cup {None} /\ payload \in Slots \cup {None}
  /\ DOMAIN conns = Slots /\ conns = [s \in Slots |-> conns[s]]

IInv ==
  /\ Plain
  /\ \A s \in Slots : Sound(conns[s]) /\ (payload = s => Capturing(conns[s]))
  /\ Asked

LEMMA NoneIsNoSlot == None \notin Slots
BY NetAssumption DEF Slots

LEMMA NoneIsNoType == None # "tcp"
BY NetAssumption DEF Types

LEMMA TypesNamed ==
  /\ Types = {"tcp", "udp", "ws"} /\ Flags = {"INIT", "TERM", "TXFULL", "RXFULL"}
BY DEF Types, Flags

-----------------------------------------------------------------------------
(* Slots. *)

LEMMA UnusedSound ==
  ASSUME NEW type \in Types
  PROVE  /\ Sound(Unused) /\ ~Busy(Unused)
         /\ Sound(sscp_allocate_connection(type)) /\ ~Busy(sscp_allocate_connection(type))
         /\ sscp_allocate_connection(type).type = type
         /\ ~sscp_allocate_connection(type).sending
<1> DEFINE d == sscp_allocate_connection(type)
<1>1. Unused \in Connections
  BY NetAssumption DEF Unused, Connections
<1>2. /\ Unused.rxIndex = 0 /\ Unused.rxCount = 0 /\ Unused.lookup = None /\ ~Unused.sending
      /\ Unused.net = "none" /\ Unused.type = None
  BY DEF Unused
<1>3. d \in Connections
  BY <1>1, TypesNamed DEF Connections, sscp_allocate_connection
<1>4. /\ d.rxIndex = 0 /\ d.rxCount = 0 /\ d.lookup = None /\ ~d.sending /\ d.net = "none"
      /\ d.type = type
  BY DEF sscp_allocate_connection, Unused
<1> HIDE DEF d
<1>5. Sound(Unused) /\ ~Busy(Unused)
  BY <1>1, <1>2 DEF Sound, Busy
<1>6. Sound(d) /\ ~Busy(d)
  BY <1>3, <1>4, NoneIsNoType DEF Sound, Busy
<1> QED
  BY <1>4, <1>5, <1>6 DEF d

\* A closed slot is not used; the SDK may still hold it.
LEMMA CloseSound ==
  ASSUME NEW c, Sound(c)
  PROVE  /\ Sound(close_handler(c)) /\ ~Busy(close_handler(c))
         /\ close_handler(c).type = None
<1> DEFINE net == IF c.net \in {"connecting", "open"} THEN "closing"
                  ELSE IF c.net = "udp" THEN "none" ELSE c.net
           sending == c.sending /\ c.net # "udp"
           d == [Unused EXCEPT !.lookup = c.lookup, !.net = net, !.sending = sending]
<1>1. close_handler(c) = d
  BY DEF close_handler
<1>2. Unused \in Connections
  BY NetAssumption DEF Unused, Connections
<1>3. /\ net \in {"none", "closing", "ws"} /\ sending \in BOOLEAN
      /\ c.lookup \in {"tcp", "udp", None}
      /\ c.lookup # None => net = "none" /\ ~sending
  <2>1. c.sending \in BOOLEAN /\ c.lookup \in {"tcp", "udp", None}
    BY DEF Sound, Connections
  <2>2. c.net \in {"none", "connecting", "open", "closing", "udp", "ws"}
    BY DEF Sound, Connections
  <2>3. c.lookup # None => c.net = "none" /\ ~c.sending
    BY DEF Sound
  <2>4. sending \in BOOLEAN
    BY <2>1, Zenon
  <2> QED
    BY <2>1, <2>2, <2>3, <2>4
<1> HIDE DEF net, sending
<1>4. d \in Connections
  BY <1>2, <1>3 DEF Connections
<1>5. /\ d.rxIndex = 0 /\ d.rxCount = 0 /\ d.lookup = c.lookup /\ d.sending = sending
      /\ d.net = net /\ d.type = None /\ d.state = "idle"
  BY DEF Unused
<1> HIDE DEF d
<1>6. None # "ws"
  BY NetAssumption DEF Types
<1>7. ~Busy(d)
  BY <1>5 DEF Busy
<1>8. Sound(d)
  BY <1>3, <1>4, <1>5, <1>6 DEF Sound
<1> QED
  BY <1>1, <1>5, <1>7, <1>8

-----------------------------------------------------------------------------
(* Steps that change one slot. *)

\* What is left to show of a step that changes slot s to d: that d is sound, that a
\* payload is captured for it if it is and that replies are for the command.
LEMMA OneSlot ==
  ASSUME IInv, NEW s \in Slots, NEW d, Set(s, d), Sound(d),
         payload' \in {payload, None, s}, payload' = s => Capturing(d),
         pending' \in {pending, None, s}, stray' \in BOOLEAN,
         sscp_events' = sscp_events, listeners' = listeners,
         failed' \in BOOLEAN, late' \in BOOLEAN, astray' \in BOOLEAN,
         Asked'
  PROVE  IInv'
<1>1. conns' = [conns EXCEPT ![s] = d]
  BY DEF Set
<1>2. Plain'
  <2>1. DOMAIN conns' = Slots /\ conns' = [t \in Slots |-> conns'[t]]
    BY <1>1 DEF IInv, Plain
  <2>2. pending' \in Slots \cup {None} /\ payload' \in Slots \cup {None}
    BY DEF IInv, Plain
  <2> QED
    BY <2>1, <2>2 DEF IInv, Plain
<1>3. ASSUME NEW t \in Slots
      PROVE  Sound(conns'[t]) /\ (payload' = t => Capturing(conns'[t]))
  <2>1. CASE t = s
    BY <1>1, <2>1 DEF IInv, Plain
  <2>2. CASE t # s
    <3>1. conns'[t] = conns[t]
      BY <1>1, <2>2 DEF IInv, Plain
    <3>2. payload' = t => payload = t
      BY <2>2, NoneIsNoSlot
    <3> QED
      BY <3>1, <3>2 DEF IInv
  <2> QED
    BY <2>1, <2>2
<1> QED
  BY <1>2, <1>3 DEF IInv

\* A reply about a slot that is busy, or whose payload is captured, is asked for; one
\* about a slot that was given back is late.
LEMMA AnswerAsked ==
  ASSUME IInv, NEW s \in Slots, NEW d, Set(s, d), sscp_sendResponse(s), ~Busy(d),
         conns[s].type # None => Busy(conns[s]) \/ payload = s,
         payload' \in {payload, None}, payload' # s,
         sscp_events' = sscp_events, failed' = failed
  PROVE  Asked'
<1> SUFFICES ASSUME ~sscp_events, ~failed, ~late, conns[s].type # None
             PROVE  ~stray' /\ \A t \in Slots : ~Busy(conns'[t]) /\ payload' # t
  BY Zenon DEF Asked, sscp_sendResponse
<1>1. ~stray /\ \A t \in Slots : Busy(conns[t]) \/ payload = t => pending = t
  BY DEF IInv, Asked
<1>2. pending = s
  BY <1>1
<1>3. ~stray'
  BY <1>1, <1>2 DEF sscp_sendResponse
<1>4. ASSUME NEW t \in Slots PROVE ~Busy(conns'[t]) /\ payload' # t
  <2>1. CASE t = s
    BY <2>1 DEF Set, IInv, Plain
  <2>2. CASE t # s
    <3>1. ~Busy(conns[t]) /\ payload # t
      BY <1>1, <1>2, <2>2
    <3>2. conns'[t] = conns[t]
      BY <2>2 DEF Set, IInv, Plain
    <3> QED
      BY <3>1, <3>2, NoneIsNoSlot
  <2> QED
    BY <2>1, <2>2
<1> QED
  BY <1>3, <1>4

\* Without a reply no slot may become busy.
LEMMA SilentAsked ==
  ASSUME IInv, NEW s \in Slots, NEW d, Set(s, d), Silent,
         Busy(d) => Busy(conns[s]) \/ payload = s, payload' \in {payload, None},
         sscp_events' = sscp_events, failed' = failed
  PROVE  Asked'
<1> SUFFICES ASSUME ~sscp_events, ~failed, ~late
             PROVE  ~stray' /\ \A t \in Slots : Busy(conns'[t]) \/ payload' = t => pending' = t
  BY DEF Asked, Silent
<1>1. ~stray /\ \A t \in Slots : Busy(conns[t]) \/ payload = t => pending = t
  BY DEF IInv, Asked
<1>2. ASSUME NEW t \in Slots, Busy(conns'[t]) \/ payload' = t PROVE pending = t
  <2>1. Busy(conns'[t]) => Busy(conns[t]) \/ payload = t
    BY DEF Set, IInv, Plain
  <2>2. payload' = t => payload = t
    BY NoneIsNoSlot
  <2> QED
    BY <1>1, <1>2, <2>1, <2>2
<1> QED
  BY <1>1, <1>2 DEF Silent

\* A command makes its slot busy while no other one is.
LEMMA CommandAsked ==
  ASSUME IInv, Ready, NEW s \in Slots, NEW d, Set(s, d), stray' = stray, late' = late,
         \/ pending' = s /\ payload' \in {payload, s}
         \/ pending' = pending /\ payload' = payload /\ (Busy(d) => Busy(conns[s])),
         sscp_events' = sscp_events, failed' = failed
  PROVE  Asked'
<1> SUFFICES ASSUME ~sscp_events, ~failed, ~late
             PROVE  ~stray' /\ \A t \in Slots : Busy(conns'[t]) \/ payload' = t => pending' = t
  BY DEF Asked
<1>1. ~stray /\ \A t \in Slots : Busy(conns[t]) \/ payload = t => pending = t
  BY DEF IInv, Asked
<1>2. pending = None /\ payload = None
  BY DEF Ready
<1>3. \A t \in Slots : ~Busy(conns[t])
  BY <1>1, <1>2, NoneIsNoSlot
<1>4. ASSUME NEW t \in Slots, Busy(conns'[t]) \/ payload' = t PROVE pending' = t
  <2>1. Busy(conns'[t]) => t = s /\ Busy(d)
    BY <1>3 DEF Set, IInv, Plain
  <2> QED
    BY <1>2, <1>3, <1>4, <2>1, NoneIsNoSlot
<1> QED
  BY <1>1, <1>4

\* With events on, or after a break of a connection or a late answer, nothing is left
\* to show.
LEMMA EventsAsked == ASSUME sscp_events' \/ failed' \/ late' PROVE Asked'
BY DEF Asked

\* What sscp_sendResponse leaves is typed.
LEMMA AnswerTyped ==
  ASSUME IInv, NEW s \in Slots, sscp_sendResponse(s)
  PROVE  stray' \in BOOLEAN /\ late' \in BOOLEAN /\ pending' = None
BY Zenon DEF IInv, Plain, sscp_sendResponse

LEMMA OthersTyped ==
  ASSUME IInv, Others
  PROVE  /\ sscp_events' = sscp_events /\ listeners' = listeners /\ failed' = failed
         /\ failed' \in BOOLEAN /\ astray' \in BOOLEAN
BY DEF IInv, Plain, Others

\* A callback, or a command that is answered at once.
LEMMA SilentSlot ==
  ASSUME IInv, NEW s \in Slots, NEW d, Set(s, d), Sound(d), Silent, Others,
         payload' \in {payload, None}, payload' = s => Capturing(d),
         Busy(d) => Busy(conns[s]) \/ payload = s
  PROVE  IInv'
<1>1. Asked'
  BY OthersTyped, SilentAsked
<1>2. pending' = pending /\ stray' \in BOOLEAN /\ late' \in BOOLEAN
  BY Zenon DEF IInv, Plain, Silent
<1> QED
  BY <1>1, <1>2, OthersTyped, OneSlot

\* A callback that answers the command being processed, or comes late.
LEMMA AnswerSlot ==
  ASSUME IInv, NEW s \in Slots, NEW d, Set(s, d), Sound(d), ~Busy(d), sscp_sendResponse(s),
         Others, payload' \in {payload, None}, payload' # s,
         conns[s].type # None => Busy(conns[s]) \/ payload = s
  PROVE  IInv'
<1>1. Asked'
  BY OthersTyped, AnswerAsked
<1> QED
  BY <1>1, AnswerTyped, OthersTyped, OneSlot

\* A callback that reports data.
LEMMA ReportSlot ==
  ASSUME IInv, NEW s \in Slots, NEW d, Set(s, d), Sound(d), DataEvent(s), Others,
         payload' = payload, payload = s => Capturing(d),
         Busy(d) => Busy(conns[s]) \/ payload = s
  PROVE  IInv'
<1>1. CASE sscp_events
  <2>1. sscp_sendResponse(s) /\ sscp_events'
    BY <1>1, OthersTyped DEF DataEvent
  <2> QED
    BY <2>1, AnswerTyped, OthersTyped, EventsAsked, OneSlot
<1>2. CASE ~sscp_events
  BY <1>2, SilentSlot DEF DataEvent
<1> QED
  BY <1>1, <1>2

\* A command that waits for a callback.
LEMMA CommandSlot ==
  ASSUME IInv, Ready, NEW s \in Slots, NEW d, Set(s, d), Sound(d), stray' = stray, late' = late,
         pending' = s, payload' \in {payload, s}, payload' = s => Capturing(d), Others
  PROVE  IInv'
<1>1. Asked'
  BY OthersTyped, CommandAsked
<1>2. stray' \in BOOLEAN /\ late' \in BOOLEAN
  BY Zenon DEF IInv, Plain
<1> QED
  BY <1>1, <1>2, OthersTyped, OneSlot

LEMMA AstrayInv == ASSUME IInv, GoneAstray PROVE IInv'
BY DEF IInv, Plain, Asked, GoneAstray

LEMMA InitInv == Init => IInv
<1> SUFFICES ASSUME Init PROVE IInv
  OBVIOUS
<1>1. "tcp" \in Types
  BY DEF Types
<1>2. Sound(Unused) /\ ~Busy(Unused)
  BY <1>1, UnusedSound
<1>3. Plain
  <2>1. sscp_events \in BOOLEAN /\ stray \in BOOLEAN /\ failed \in BOOLEAN
        /\ late \in BOOLEAN /\ astray \in BOOLEAN
    BY NetAssumption DEF Init
  <2> QED
    BY <2>1 DEF Init, Plain
<1>4. \A s \in Slots : conns[s] = Unused /\ payload # s
  BY NoneIsNoSlot DEF Init
<1> QED
  BY <1>2, <1>3, <1>4 DEF IInv, Asked, Init

-----------------------------------------------------------------------------
(* The actions. *)

LEMMA ConnectInv ==
  ASSUME IInv, NEW s \in Slots, tcp_do_connect(s) \/ udp_do_connect(s)
  PROVE  IInv'
<1>1. ASSUME NEW type \in {"tcp", "udp"}, Ready,
             Set(s, [sscp_allocate_connection(type) EXCEPT !.lookup = type]),
             pending' = s, Others, UNCHANGED <<payload, stray, late>>
      PROVE  IInv'
  <2> DEFINE c == sscp_allocate_connection(type)
             d == [c EXCEPT !.lookup = type]
  <2>1. Sound(c) /\ c.type = type /\ ~c.sending /\ ~Busy(c) /\ type # None
    BY UnusedSound, NetAssumption DEF Types
  <2>2. c.rxIndex = 0 /\ c.rxCount = 0 /\ c.net = "none" /\ c.state = "idle"
    BY DEF sscp_allocate_connection, Unused
  <2>3. c \in Connections
    BY <2>1 DEF Sound
  <2> HIDE DEF c
  <2>4. d \in Connections
    BY <2>3 DEF Connections
  <2>5. /\ d.rxIndex = 0 /\ d.rxCount = 0 /\ d.net = "none" /\ d.state = "idle" /\ ~d.sending
        /\ d.type = type /\ d.lookup = type
    BY <2>1, <2>2, <2>3 DEF Connections
  <2>6. Set(s, d)
    BY <1>1 DEF c
  <2> HIDE DEF d
  <2>7. Sound(d)
    BY <2>4, <2>5 DEF Sound
  <2> QED
    BY <1>1, <2>6, <2>7, CommandSlot, NoneIsNoSlot DEF Ready
<1>2. ASSUME NEW type \in {"tcp", "udp"}, NEW net, NEW state,
             \/ net = "connecting" /\ state = "connecting" /\ type = "tcp"
             \/ net = "udp" /\ state = "connected" /\ type = "udp"
      PROVE  LET d == [sscp_allocate_connection(type) EXCEPT !.net = net, !.state = state]
             IN  Sound(d) /\ (Busy(d) => net = "connecting")
  <2> DEFINE c == sscp_allocate_connection(type)
             d == [c EXCEPT !.net = net, !.state = state]
  <2>1. Sound(c) /\ c.type = type /\ ~c.sending /\ ~Busy(c) /\ type # None
    BY UnusedSound, NetAssumption DEF Types
  <2>2. c.rxIndex = 0 /\ c.rxCount = 0 /\ c.lookup = None
    BY DEF sscp_allocate_connection, Unused
  <2>3. c \in Connections
    BY <2>1 DEF Sound
  <2> HIDE DEF c
  <2>4. d \in Connections
    BY <1>2, <2>3 DEF Connections
  <2>5. /\ d.rxIndex = 0 /\ d.rxCount = 0 /\ d.net = net /\ d.state = state /\ ~d.sending
        /\ d.type = type /\ d.lookup = None
    BY <2>1, <2>2, <2>3 DEF Connections
  <2> HIDE DEF d
  <2>6. Sound(d) /\ (Busy(d) => net = "connecting")
    BY <1>2, <2>4, <2>5, NoneIsNoType DEF Sound, Busy
  <2> QED
    BY <2>6 DEF d, c
<1>3. ASSUME tcp_do_connect(s) PROVE IInv'
  <2> DEFINE d == [sscp_allocate_connection("tcp") EXCEPT !.net = "connecting",
                                                          !.state = "connecting"]
  <2>1. Sound(d)
    BY <1>2
  <2> HIDE DEF d
  <2>2. CASE Set(s, d) /\ Ready /\ pending' = s /\ Others /\ UNCHANGED <<payload, stray, late>>
    BY <2>1, <2>2, CommandSlot, NoneIsNoSlot DEF Ready
  <2> QED
    BY <1>1, <1>3, <2>2, AstrayInv DEF tcp_do_connect, d
<1>4. ASSUME udp_do_connect(s) PROVE IInv'
  <2> DEFINE d == [sscp_allocate_connection("udp") EXCEPT !.net = "udp",
                                                          !.state = "connected"]
  <2>1. Sound(d) /\ ~Busy(d)
    BY <1>2
  <2> HIDE DEF d
  <2>2. CASE Set(s, d) /\ Ready /\ Others /\ UNCHANGED <<payload, stray, late, pending>>
    BY <2>1, <2>2, SilentSlot, NoneIsNoSlot DEF Ready, Silent
  <2> QED
    BY <1>1, <1>4, <2>2, AstrayInv DEF udp_do_connect, d
<1> QED
  BY <1>3, <1>4

LEMMA DnsInv == ASSUME IInv, NEW s \in Slots, DnsCb(s) PROVE IInv'
<1> DEFINE c == [conns[s] EXCEPT !.lookup = None]
<1>0. Sound(conns[s]) /\ conns[s].lookup # None /\ payload # s
  BY DEF IInv, DnsCb, Capturing
<1>1. c \in Connections
  BY <1>0 DEF Sound, Connections
<1>2. /\ c.lookup = None /\ c.type = conns[s].type /\ c.net = "none" /\ c.state = "idle"
      /\ c.type # "ws" /\ ~c.sending /\ c.flags = conns[s].flags
      /\ c.rxIndex = conns[s].rxIndex /\ c.rxCount = conns[s].rxCount
  BY <1>0 DEF Sound, Connections
<1> HIDE DEF c
<1>3. c.rxIndex <= c.rxCount /\ (c.rxIndex < c.rxCount => "RXFULL" \in c.flags)
  BY <1>0, <1>2 DEF Sound
<1>4. Sound(c) /\ ~Busy(c)
  BY <1>1, <1>2, <1>3, NoneIsNoType DEF Sound, Busy
<1>5. /\ c.type # None => Busy(conns[s])
      /\ conns[s].lookup = "tcp" => c.type \in {"tcp", None}
  BY <1>0, <1>2 DEF Busy, Sound
<1>6. ASSUME Set(s, sscp_close_connection(c)), sscp_sendResponse(s), Others,
             payload' = payload
      PROVE  IInv'
  <2>1. Sound(sscp_close_connection(c)) /\ ~Busy(sscp_close_connection(c))
    BY <1>4, CloseSound DEF sscp_close_connection
  <2> QED
    BY <1>0, <1>2, <1>5, <1>6, <2>1, AnswerSlot
<1>7. ASSUME NEW net, NEW state,
             \/ net = "connecting" /\ state = "connecting" /\ c.type \in {"tcp", None}
             \/ net = "udp" /\ state = "connected"
      PROVE  LET d == [c EXCEPT !.net = net, !.state = state] IN
             Sound(d) /\ (Busy(d) => c.type # None /\ net = "connecting")
  <2> DEFINE d == [c EXCEPT !.net = net, !.state = state]
  <2>1. d \in Connections
    BY <1>1, <1>7 DEF Connections
  <2>2. /\ d.net = net /\ d.state = state /\ d.lookup = None /\ ~d.sending /\ d.type = c.type
        /\ d.flags = c.flags /\ d.rxIndex = c.rxIndex /\ d.rxCount = c.rxCount
    BY <1>1, <1>2 DEF Connections
  <2> HIDE DEF d
  <2>3. Sound(d) /\ (Busy(d) => c.type # None /\ net = "connecting")
    BY <1>2, <1>3, <1>7, <2>1, <2>2, NoneIsNoType DEF Sound, Busy
  <2> QED
    BY <2>3 DEF d
<1>8. ASSUME Silent, Others, payload' = payload, c.type \in {"tcp", None},
             Set(s, [c EXCEPT !.net = "connecting", !.state = "connecting"])
      PROVE  IInv'
  <2> DEFINE d == [c EXCEPT !.net = "connecting", !.state = "connecting"]
  <2>1. Sound(d) /\ (Busy(d) => c.type # None)
    BY <1>7, <1>8
  <2>2. Set(s, d)
    BY <1>8
  <2> HIDE DEF d
  <2> QED
    BY <1>0, <1>5, <1>8, <2>1, <2>2, SilentSlot
<1>9. ASSUME sscp_sendResponse(s), Others, payload' = payload,
             Set(s, [c EXCEPT !.net = "udp", !.state = "connected"])
      PROVE  IInv'
  <2> DEFINE d == [c EXCEPT !.net = "udp", !.state = "connected"]
  <2>1. Sound(d) /\ (Busy(d) => "udp" = "connecting")
    BY <1>7
  <2>2. Set(s, d) /\ "udp" # "connecting"
    BY <1>9
  <2> HIDE DEF d
  <2> QED
    BY <1>0, <1>2, <1>5, <1>9, <2>1, <2>2, AnswerSlot
<1> QED
  BY <1>5, <1>6, <1>8, <1>9 DEF DnsCb, c

LEMMA SocketInv ==
  ASSUME IInv, NEW s \in Slots, tcp_connect_cb(s) \/ tcp_recon_cb(s) \/ tcp_discon_cb(s)
  PROVE  IInv'
<1> DEFINE c == conns[s]
<1>0. Sound(c) /\ c \in Connections /\ (payload = s => Capturing(c))
  BY DEF IInv, Sound
<1>1. ASSUME NEW d \in Connections, d.net \in {"none", "open"}, d.lookup = c.lookup,
             c.lookup = None, ~d.sending, d.type = c.type,
             d.net = "open" => c.net = "connecting",
             c.flags \subseteq d.flags, d.rxIndex = c.rxIndex, d.rxCount = c.rxCount
      PROVE  /\ Sound(d) /\ (Busy(d) => Busy(c))
             /\ Capturing(c) => Capturing(d)
             /\ ~Busy(d)
  <2> HIDE DEF c
  <2>1. Sound(d)
    BY <1>0, <1>1, NoneIsNoType DEF Sound
  <2>2. /\ Busy(d) => Busy(c)
        /\ Capturing(c) => Capturing(d)
        /\ ~Busy(d)
    BY <1>1 DEF Busy, Capturing
  <2> QED
    BY <2>1, <2>2
<1> HIDE DEF c
<1>2. CASE tcp_connect_cb(s)
  <2> DEFINE d == [c EXCEPT !.net = "open", !.state = "connected"]
  <2>1. /\ c.net = "connecting" /\ Set(s, d) /\ sscp_sendResponse(s) /\ Others
        /\ payload' = payload
    BY <1>2 DEF tcp_connect_cb, c
  <2>2. /\ c.lookup = None /\ ~c.sending /\ payload # s
        /\ conns[s].type # None => Busy(conns[s])
    BY <1>0, <2>1 DEF Sound, Busy, Capturing, c
  <2>3. d \in Connections
    BY <1>0 DEF Connections
  <2>4. /\ d.net = "open" /\ d.lookup = c.lookup /\ d.sending = c.sending
        /\ d.type = c.type /\ d.flags = c.flags /\ d.rxIndex = c.rxIndex /\ d.rxCount = c.rxCount
    BY <1>0 DEF Connections
  <2> HIDE DEF d
  <2>5. Sound(d) /\ ~Busy(d)
    BY <1>1, <2>1, <2>2, <2>3, <2>4
  <2> QED
    BY <2>1, <2>2, <2>5, AnswerSlot
<1>3. CASE tcp_recon_cb(s)
  <2> DEFINE d == [c EXCEPT !.net = "none", !.state = "idle", !.sending = FALSE]
  <2>1. /\ c.net \in {"connecting", "open", "closing"} /\ Set(s, d) /\ sscp_sendResponse(s)
        /\ failed' = (failed \/ c.net = "open") /\ payload' = payload
        /\ UNCHANGED <<sscp_events, listeners, astray>>
    BY <1>3 DEF tcp_recon_cb, c
  <2>2. d \in Connections
    BY <1>0 DEF Connections
  <2>3. /\ d.net = "none" /\ d.lookup = c.lookup /\ ~d.sending /\ d.state = "idle"
        /\ d.type = c.type /\ d.flags = c.flags /\ d.rxIndex = c.rxIndex /\ d.rxCount = c.rxCount
    BY <1>0 DEF Connections
  <2>4. c.lookup = None
    BY <1>0, <2>1 DEF Sound
  <2> HIDE DEF d
  <2>5. Sound(d) /\ ~Busy(d) /\ (payload = s => Capturing(d))
    BY <1>0, <1>1, <2>2, <2>3, <2>4
  <2>6. Asked'
    <3>1. CASE c.net = "open"
      BY <2>1, <3>1, EventsAsked
    <3>2. CASE c.net # "open"
      <4>1. failed' = failed
        BY <2>1, <3>2 DEF IInv, Plain
      <4>2. CASE c.type = None
        BY <2>1, <4>2, EventsAsked DEF sscp_sendResponse, c
      <4>3. CASE c.type # None
        <5>1. Busy(conns[s]) /\ payload # s
          BY <1>0, <2>1, <3>2, <4>3 DEF Busy, Capturing, Sound, c
        <5> QED
          BY <2>1, <2>5, <4>1, <5>1, AnswerAsked
      <4> QED
        BY <4>2, <4>3
    <3> QED
      BY <3>1, <3>2
  <2>7. failed' \in BOOLEAN /\ astray' \in BOOLEAN
    BY <2>1, Zenon DEF IInv, Plain
  <2> QED
    BY <2>1, <2>5, <2>6, <2>7, AnswerTyped, OneSlot
<1>4. CASE tcp_discon_cb(s)
  <2> DEFINE d == [c EXCEPT !.net = "none", !.state = "idle", !.sending = FALSE,
                            !.flags = @ \cup {"TERM"}]
  <2>1. /\ c.net \in {"open", "closing"} /\ Set(s, d) /\ Silent /\ Others
        /\ payload' = payload
    BY <1>4 DEF tcp_discon_cb, c
  <2>2. d \in Connections
    BY <1>0, TypesNamed DEF Connections
  <2>3. /\ d.net = "none" /\ d.lookup = c.lookup /\ ~d.sending /\ d.state = "idle"
        /\ d.type = c.type /\ d.flags = c.flags \cup {"TERM"} /\ d.rxIndex = c.rxIndex
        /\ d.rxCount = c.rxCount
    BY <1>0 DEF Connections
  <2>4. c.lookup = None
    BY <1>0, <2>1 DEF Sound
  <2> HIDE DEF d
  <2>5. Sound(d) /\ ~Busy(d) /\ (payload = s => Capturing(d))
    BY <1>0, <1>1, <2>2, <2>3, <2>4
  <2> QED
    BY <2>1, <2>5, SilentSlot
<1> QED
  BY <1>2, <1>3, <1>4

LEMMA WebsocketInv ==
  ASSUME IInv, NEW s \in Slots,
         websocketCloseCb(s) \/ \E url \in Urls : sscp_websocketConnect(s, url)
  PROVE  IInv'
<1>1. ASSUME NEW url \in Urls, sscp_websocketConnect(s, url) PROVE IInv'
  <2> DEFINE c == sscp_allocate_connection("ws")
             d == [c EXCEPT !.net = "ws"]
  <2>1. Sound(c) /\ c.type = "ws" /\ ~c.sending
    BY UnusedSound DEF Types
  <2>2. c.rxIndex = 0 /\ c.rxCount = 0 /\ c.lookup = None
    BY DEF sscp_allocate_connection, Unused
  <2>3. c \in Connections
    BY <2>1 DEF Sound
  <2> HIDE DEF c
  <2>4. d \in Connections
    BY <2>3 DEF Connections
  <2>5. /\ d.rxIndex = 0 /\ d.rxCount = 0 /\ d.net = "ws" /\ ~d.sending /\ d.lookup = None
    BY <2>1, <2>2, <2>3 DEF Connections
  <2>6. Sound(d) /\ ~Busy(d)
    <3> HIDE DEF d
    <3> QED
      BY <2>4, <2>5, NoneIsNoType DEF Sound, Busy
  <2>7. payload # s
    BY <1>1 DEF IInv, Capturing, sscp_websocketConnect, FirstFree
  <2>8. \/ Set(s, d) /\ Silent /\ Others /\ payload' = payload
        \/ GoneAstray
    BY <1>1 DEF sscp_websocketConnect, c
  <2> HIDE DEF d
  <2> QED
    BY <2>6, <2>7, <2>8, SilentSlot, AstrayInv
<1>2. ASSUME websocketCloseCb(s) PROVE IInv'
  <2> DEFINE c == conns[s]
             d == [c EXCEPT !.net = "none"]
  <2>1. /\ c.net = "ws" /\ Set(s, d) /\ Silent /\ Others /\ payload' = payload
    BY <1>2 DEF websocketCloseCb
  <2>2. Sound(c) /\ c \in Connections /\ (payload = s => Capturing(c))
    BY DEF IInv, Sound
  <2> HIDE DEF c
  <2>3. d \in Connections
    BY <2>2 DEF Connections
  <2>4. /\ d.net = "none" /\ d.lookup = c.lookup /\ d.sending = c.sending
        /\ d.state = c.state /\ d.type = c.type /\ d.flags = c.flags
        /\ d.rxIndex = c.rxIndex /\ d.rxCount = c.rxCount
    BY <2>2 DEF Connections
  <2> HIDE DEF d
  <2>5. Sound(d) /\ (Busy(d) => Busy(c)) /\ (payload = s => Capturing(d))
    BY <2>1, <2>2, <2>3, <2>4 DEF Sound, Busy, Capturing
  <2> QED
    BY <2>1, <2>5, SilentSlot DEF c
<1> QED
  BY <1>1, <1>2

\* Steps that change what is to be read, or what is flagged.
LEMMA DataSound ==
  ASSUME NEW c, Sound(c), NEW index \in 0..RxMax, NEW count \in 0..RxMax,
         NEW flags \in SUBSET Flags, index <= count,
         index < count => "RXFULL" \in flags, "TXFULL" \in c.flags => "TXFULL" \in flags
  PROVE  LET d == [c EXCEPT !.rxIndex = index, !.rxCount = count, !.flags = flags] IN
         /\ Sound(d) /\ (Busy(d) => Busy(c))
         /\ Capturing(c) => Capturing(d)
         /\ d.rxIndex = index /\ d.rxCount = count
<1> DEFINE d == [c EXCEPT !.rxIndex = index, !.rxCount = count, !.flags = flags]
<1>1. c \in Connections
  BY DEF Sound
<1>2. d \in Connections
  BY <1>1 DEF Connections
<1>3. /\ d.net = c.net /\ d.lookup = c.lookup /\ d.sending = c.sending
      /\ d.state = c.state /\ d.type = c.type /\ d.flags = flags
      /\ d.rxIndex = index /\ d.rxCount = count
  BY <1>1 DEF Connections
<1> HIDE DEF d
<1>4. Sound(d)
  BY <1>2, <1>3 DEF Sound
<1>5. (Busy(d) => Busy(c)) /\ (Capturing(c) => Capturing(d))
  BY <1>3 DEF Busy, Capturing
<1> QED
  BY <1>3, <1>4, <1>5 DEF d

LEMMA ReceiveInv ==
  ASSUME IInv, NEW s \in Slots, NEW n \in Pieces,
         tcp_recv_cb(s, n) \/ message_recv_cb(s, n) \/ recv_handler(s, n)
  PROVE  IInv'
<1> DEFINE c == conns[s]
<1>0. /\ Sound(c) /\ c \in Connections /\ (payload = s => Capturing(c))
      /\ n \in Nat /\ RxMax \in Nat
  BY NetAssumption DEF IInv, Sound
<1>1. /\ c.rxIndex \in 0..RxMax /\ c.rxCount \in 0..RxMax /\ c.rxIndex <= c.rxCount
      /\ c.flags \in SUBSET Flags
      /\ c.rxIndex < c.rxCount => "RXFULL" \in c.flags
  BY <1>0 DEF Sound, Connections
<1> HIDE DEF c
<1>2. c.flags \cup {"RXFULL"} \in SUBSET Flags
  BY <1>1, TypesNamed
<1>3. CASE tcp_recv_cb(s, n)
  <2> DEFINE count == IF c.rxCount + n > RxMax THEN RxMax ELSE c.rxCount + n
             index == IF count > c.rxCount THEN 0 ELSE c.rxIndex
             flags == c.flags \cup {"RXFULL"}
             d == [c EXCEPT !.rxIndex = index, !.rxCount = count, !.flags = flags]
             e == [c EXCEPT !.rxCount = count,
                            !.rxIndex = IF count > c.rxCount THEN 0 ELSE @,
                            !.flags = @ \cup {"RXFULL"}]
  <2>1. e = d
    BY <1>0 DEF Connections
  <2>2. count \in 0..RxMax /\ index \in 0..RxMax /\ index <= count
    BY <1>0, <1>1
  <2>3. /\ Set(s, e) /\ Others /\ payload' = payload
        /\ DataEvent(s) \/ Silent
    BY <1>3 DEF tcp_recv_cb, c
  <2> HIDE DEF count, index, e
  <2>4. Sound(d) /\ (Busy(d) => Busy(c)) /\ (Capturing(c) => Capturing(d))
    BY <1>0, <1>2, <2>2, DataSound
  <2> HIDE DEF d
  <2> QED
    BY <1>0, <2>1, <2>3, <2>4, ReportSlot, SilentSlot DEF c
<1>4. CASE message_recv_cb(s, n)
  <2> DEFINE count == IF n > RxMax THEN RxMax ELSE n
             flags == c.flags \cup {"RXFULL"}
             d == [c EXCEPT !.rxIndex = 0, !.rxCount = count, !.flags = flags]
             e == [c EXCEPT !.rxCount = count, !.rxIndex = 0, !.flags = @ \cup {"RXFULL"}]
  <2>1. e = d
    BY <1>0 DEF Connections
  <2>2. count \in 0..RxMax /\ 0 \in 0..RxMax /\ 0 <= count
    BY <1>0
  <2>3. Set(s, e) /\ Others /\ payload' = payload /\ DataEvent(s)
    BY <1>4 DEF message_recv_cb, c
  <2> HIDE DEF count, e
  <2>4. Sound(d) /\ (Busy(d) => Busy(c)) /\ (Capturing(c) => Capturing(d))
    BY <1>0, <1>2, <2>2, DataSound
  <2> HIDE DEF d
  <2> QED
    BY <1>0, <2>1, <2>3, <2>4, ReportSlot DEF c
<1>5. CASE recv_handler(s, n)
  <2> DEFINE size == IF c.rxIndex + n > c.rxCount THEN c.rxCount - c.rxIndex ELSE n
             index == c.rxIndex + size
             flags == IF index >= c.rxCount THEN c.flags \ {"RXFULL"} ELSE c.flags
             d == [c EXCEPT !.rxIndex = index, !.rxCount = c.rxCount, !.flags = flags]
             e == [c EXCEPT !.rxIndex = @ + size,
                            !.flags = IF c.rxIndex + size >= c.rxCount THEN @ \ {"RXFULL"}
                                      ELSE @]
  <2>1. e = d
    BY <1>0 DEF Connections
  <2>2. index \in 0..RxMax /\ index <= c.rxCount /\ index >= c.rxIndex
    BY <1>0, <1>1
  <2>3. Set(s, e) /\ Silent /\ Others /\ payload' = payload
    BY <1>5 DEF recv_handler, c
  <2>4. /\ flags \in SUBSET Flags /\ (index < c.rxCount => "RXFULL" \in flags)
        /\ "TXFULL" \in c.flags => "TXFULL" \in flags
    BY <1>1, <2>2
  <2> HIDE DEF index, flags, e
  <2>5. Sound(d) /\ (Busy(d) => Busy(c)) /\ (Capturing(c) => Capturing(d))
    BY <1>0, <1>1, <2>2, <2>4, DataSound
  <2> HIDE DEF d
  <2> QED
    BY <1>0, <2>1, <2>3, <2>5, SilentSlot DEF c
<1> QED
  BY <1>3, <1>4, <1>5

LEMMA SendInv ==
  ASSUME IInv, NEW s \in Slots, send_handler(s) \/ send_cb(s) \/ sent_cb(s)
  PROVE  IInv'
<1> DEFINE c == conns[s]
<1>0. Sound(c) /\ c \in Connections /\ (payload = s => Capturing(c)) /\ c.flags \in SUBSET Flags
  BY DEF IInv, Sound, Connections
<1> HIDE DEF c
<1>1. ASSUME NEW flags \in SUBSET Flags, NEW sending \in BOOLEAN,
             "RXFULL" \in c.flags => "RXFULL" \in flags,
             sending => "TXFULL" \in flags /\ c.lookup = None /\ c.net # "connecting"
      PROVE  LET d == [c EXCEPT !.sending = sending, !.flags = flags] IN
             /\ Sound(d) /\ (Busy(d) => Busy(c) \/ sending)
             /\ d.type = c.type /\ d.lookup = c.lookup /\ d.net = c.net
             /\ d.sending = sending /\ d.flags = flags
  <2> DEFINE d == [c EXCEPT !.sending = sending, !.flags = flags]
  <2>1. d \in Connections
    BY <1>0 DEF Connections
  <2>2. /\ d.net = c.net /\ d.lookup = c.lookup /\ d.sending = sending
        /\ d.state = c.state /\ d.type = c.type /\ d.flags = flags
        /\ d.rxIndex = c.rxIndex /\ d.rxCount = c.rxCount
    BY <1>0 DEF Connections
  <2> HIDE DEF d
  <2>3. Sound(d) /\ (Busy(d) => Busy(c) \/ sending)
    BY <1>0, <1>1, <2>1, <2>2 DEF Sound, Busy
  <2> QED
    BY <2>2, <2>3 DEF d
<1>2. CASE send_handler(s)
  <2> DEFINE flags == c.flags \cup {"TXFULL"}
             d == [c EXCEPT !.sending = FALSE, !.flags = flags]
             e == [c EXCEPT !.flags = @ \cup {"TXFULL"}]
  <2>1. /\ Ready /\ c.type # None /\ "TXFULL" \notin c.flags
        /\ c.type = "ws" \/ c.state = "connected"
        /\ Set(s, e) /\ pending' = s /\ payload' = s /\ Others
        /\ stray' = stray /\ late' = late
    BY <1>2 DEF send_handler, c
  <2>2. c.lookup = None /\ c.net # "connecting" /\ ~c.sending
    BY <1>0, <2>1 DEF Sound
  <2>3. e = d
    BY <1>0, <2>2 DEF Connections
  <2>4. flags \in SUBSET Flags /\ "TXFULL" \in flags
        /\ ("RXFULL" \in c.flags => "RXFULL" \in flags)
    BY <1>0, TypesNamed
  <2> HIDE DEF flags, e
  <2>5. /\ Sound(d) /\ d.type = c.type /\ d.lookup = None /\ d.net # "connecting" /\ ~d.sending
        /\ "TXFULL" \in d.flags
    <3>1. FALSE \in BOOLEAN
      OBVIOUS
    <3>2. /\ Sound(d) /\ d.type = c.type /\ d.lookup = c.lookup /\ d.net = c.net
          /\ d.sending = FALSE /\ d.flags = flags
      BY <1>1, <2>4, <3>1
    <3> QED
      BY <2>2, <2>4, <3>2
  <2> HIDE DEF d
  <2>6. Capturing(d)
    BY <2>1, <2>5 DEF Capturing
  <2> QED
    BY <2>1, <2>3, <2>5, <2>6, CommandSlot
<1>3. CASE send_cb(s)
  <2>1. CASE GoneAstray
    BY <2>1, AstrayInv
  <2>2. CASE /\ payload = s /\ Set(s, [c EXCEPT !.sending = TRUE])
             /\ payload' = None /\ Silent /\ Others
    <3> DEFINE d == [c EXCEPT !.sending = TRUE, !.flags = c.flags]
    <3>1. Capturing(c)
      BY <1>0, <2>2
    <3>2. [c EXCEPT !.sending = TRUE] = d
      BY <1>0 DEF Connections
    <3>3. Sound(d)
      BY <1>0, <1>1, <3>1 DEF Capturing
    <3> HIDE DEF d
    <3> QED
      BY <2>2, <3>2, <3>3, SilentSlot, NoneIsNoSlot DEF c
  <2>3. CASE /\ payload = s /\ Set(s, [c EXCEPT !.flags = @ \ {"TXFULL"}])
             /\ payload' = None /\ sscp_sendResponse(s) /\ Others
    <3> DEFINE d == [c EXCEPT !.sending = FALSE, !.flags = c.flags \ {"TXFULL"}]
    <3>1. Capturing(c)
      BY <1>0, <2>3
    <3>2. [c EXCEPT !.flags = @ \ {"TXFULL"}] = d
      BY <1>0, <3>1 DEF Connections, Capturing
    <3>3. /\ Sound(d) /\ d.lookup = c.lookup /\ d.net = c.net /\ ~d.sending
      BY <1>0, <1>1
    <3> HIDE DEF d
    <3>4. ~Busy(d)
      BY <3>1, <3>3 DEF Busy, Capturing
    <3> QED
      BY <2>3, <3>2, <3>3, <3>4, AnswerSlot, NoneIsNoSlot DEF c
  <2> QED
    BY <1>3, <2>1, <2>2, <2>3 DEF send_cb, c
<1>4. CASE sent_cb(s)
  <2> DEFINE d == [c EXCEPT !.sending = FALSE, !.flags = c.flags \ {"TXFULL"}]
  <2>1. /\ c.sending /\ Set(s, [c EXCEPT !.sending = FALSE, !.flags = @ \ {"TXFULL"}])
        /\ sscp_sendResponse(s) /\ Others /\ payload' = payload
    BY <1>4 DEF sent_cb, c
  <2>2. [c EXCEPT !.sending = FALSE, !.flags = @ \ {"TXFULL"}] = d
    BY <1>0 DEF Connections
  <2>3. /\ Sound(d) /\ d.lookup = c.lookup /\ d.net = c.net /\ ~d.sending
    BY <1>0, <1>1
  <2> HIDE DEF d
  <2>4. ~Busy(d) /\ (c.type # None => Busy(c)) /\ payload # s
    BY <1>0, <2>1, <2>3 DEF Busy, Capturing, Sound
  <2> QED
    BY <2>1, <2>2, <2>3, <2>4, AnswerSlot DEF c
<1> QED
  BY <1>2, <1>3, <1>4

LEMMA PollCloseInv ==
  ASSUME IInv, NEW s \in Slots, (\E mask \in SUBSET Slots : cmds_do_poll(s, mask)) \/ cmds_do_close(s)
  PROVE  IInv'
<1>0. Sound(conns[s])
  BY DEF IInv
<1>1. CASE \E mask \in SUBSET Slots : cmds_do_poll(s, mask)
  <2> DEFINE c == conns[s]
             told == checkForEvents(c) \ {"RXFULL"}
             d == [c EXCEPT !.rxIndex = c.rxIndex, !.rxCount = c.rxCount, !.flags = c.flags \ told]
             e == [c EXCEPT !.flags = @ \ told]
  <2>1. Ready /\ Set(s, e) /\ Silent /\ Others /\ payload' = payload
    BY <1>1 DEF cmds_do_poll
  <2>2. "RXFULL" \notin told /\ "TXFULL" \notin told
    BY DEF checkForEvents
  <2> HIDE DEF c, told
  <2>3. /\ c.rxIndex \in 0..RxMax /\ c.rxCount \in 0..RxMax /\ c.rxIndex <= c.rxCount
        /\ c.flags \in SUBSET Flags /\ (c.rxIndex < c.rxCount => "RXFULL" \in c.flags)
        /\ c \in Connections
    BY <1>0 DEF Sound, Connections, c
  <2>4. e = d
    BY <2>3 DEF Connections
  <2>5. Sound(d) /\ (Busy(d) => Busy(c))
    BY <1>0, <2>2, <2>3, DataSound DEF c
  <2> HIDE DEF d, e
  <2> QED
    BY <2>1, <2>4, <2>5, SilentSlot, NoneIsNoSlot DEF Ready, c
<1>2. CASE cmds_do_close(s)
  <2>1. Sound(close_handler(conns[s])) /\ ~Busy(close_handler(conns[s]))
    BY <1>0, CloseSound
  <2> QED
    BY <1>2, <2>1, SilentSlot, NoneIsNoSlot DEF cmds_do_close, Ready
<1> QED
  BY <1>1, <1>2

LEMMA ResetInv ==
  ASSUME IInv, \/ sscp_reset
               \/ \E i \in Listeners : CloseListener(i) \/ \E path \in Paths : cmds_do_listen(i, path)
  PROVE  IInv'
<1>1. CASE sscp_reset
  <2>1. ASSUME NEW s \in Slots PROVE Sound(conns'[s]) /\ ~Busy(conns'[s])
    <3>1. conns'[s] = sscp_close_connection(conns[s]) /\ Sound(conns[s])
      BY <1>1 DEF sscp_reset, IInv
    <3>2. CASE conns[s].type = None
      BY <3>1, <3>2, NetAssumption DEF sscp_close_connection, Sound, Busy, Types
    <3>3. CASE conns[s].type # None
      BY <3>1, <3>3, CloseSound DEF sscp_close_connection
    <3> QED
      BY <3>2, <3>3
  <2>2. /\ DOMAIN conns' = Slots /\ conns' = [s \in Slots |-> conns'[s]]
        /\ listeners' \in [Listeners -> Paths \cup {None}]
        /\ pending' = None /\ payload' = None
        /\ UNCHANGED <<sscp_events, stray, failed, late, astray>>
    BY <1>1 DEF sscp_reset
  <2>3. Plain'
    BY <2>2 DEF IInv, Plain
  <2>4. Asked'
    BY <2>1, <2>2, NoneIsNoSlot DEF IInv, Asked
  <2> QED
    BY <2>1, <2>2, <2>3, <2>4, NoneIsNoSlot DEF IInv
<1>2. ASSUME NEW i \in Listeners, NEW path \in Paths \cup {None},
             listeners' = [listeners EXCEPT ![i] = path],
             UNCHANGED <<sscp_events, conns, pending, payload, stray, failed, late, astray>>
      PROVE  IInv'
  <2>1. Plain'
    BY <1>2 DEF IInv, Plain
  <2>2. Asked'
    BY <1>2 DEF IInv, Asked
  <2> QED
    BY <1>2, <2>1, <2>2 DEF IInv
<1> QED
  BY <1>1, <1>2 DEF CloseListener, cmds_do_listen

LEMMA StepInv == ASSUME IInv, [Next]_vars PROVE IInv'
<1>1. CASE UNCHANGED vars
  BY <1>1 DEF IInv, Plain, Asked, vars
<1>2. CASE Command
  BY <1>2, ConnectInv, SendInv, PollCloseInv, ReceiveInv, ResetInv DEF Command
<1>3. ASSUME NEW s \in Slots, Callback(s) PROVE IInv'
  BY <1>3, DnsInv, SocketInv, WebsocketInv, SendInv, ReceiveInv DEF Callback
<1> QED
  BY <1>1, <1>2, <1>3 DEF Next

-----------------------------------------------------------------------------
(* Messages. *)

\* What MessageKept says of one slot.
Keeps(c, d) ==
  c.type \in {"udp", "ws"} /\ d.type = c.type /\ c.rxIndex < c.rxCount
    => d.rxCount = c.rxCount /\ d.rxIndex >= c.rxIndex

Kept == \A s \in Slots : Keeps(conns[s], conns'[s])

LEMMA UnchangedKept == ASSUME IInv, conns' = conns PROVE Kept
BY DEF IInv, Sound, Connections, Kept, Keeps

LEMMA SetKept ==
  ASSUME IInv, NEW s \in Slots, NEW d, Set(s, d), Keeps(conns[s], d)
  PROVE  Kept
<1> SUFFICES ASSUME NEW t \in Slots PROVE Keeps(conns[t], conns'[t])
  BY DEF Kept
<1>1. CASE t = s
  BY <1>1 DEF Set, IInv, Plain
<1>2. CASE t # s
  BY <1>2 DEF Set, IInv, Plain, Sound, Connections, Keeps
<1> QED
  BY <1>1, <1>2

\* A slot that changes its type, or whose data stay as they are.
LEMMA SameKept ==
  ASSUME IInv, NEW s \in Slots, NEW d, Set(s, d),
         \/ conns[s].type = None \/ d.type = None \/ conns[s].type = "tcp"
         \/ d.rxCount = conns[s].rxCount /\ d.rxIndex = conns[s].rxIndex
  PROVE  Kept
<1>1. Keeps(conns[s], d)
  BY NetAssumption DEF Keeps, IInv, Sound, Connections, Types
<1> QED
  BY <1>1, SetKept

LEMMA CallbackKept == ASSUME IInv, NEW s \in Slots, Callback(s) PROVE Kept
<1> DEFINE c == conns[s]
<1>0. c \in Connections /\ Sound(c)
  BY DEF IInv, Sound
<1>1. CASE DnsCb(s)
  <2> DEFINE b == [c EXCEPT !.lookup = None]
  <2>1. b \in Connections /\ b.type = c.type /\ b.rxCount = c.rxCount /\ b.rxIndex = c.rxIndex
    BY <1>0 DEF Connections
  <2>2. \/ Set(s, sscp_close_connection(b))
        \/ Set(s, [b EXCEPT !.net = "connecting", !.state = "connecting"])
        \/ Set(s, [b EXCEPT !.net = "udp", !.state = "connected"])
    BY <1>1 DEF DnsCb
  <2>3. c.type # None => sscp_close_connection(b).type = None
    BY <2>1 DEF sscp_close_connection, close_handler, Unused
  <2>4. ASSUME NEW d, \/ d = [b EXCEPT !.net = "connecting", !.state = "connecting"]
                     \/ d = [b EXCEPT !.net = "udp", !.state = "connected"]
        PROVE  d.rxCount = c.rxCount /\ d.rxIndex = c.rxIndex
    BY <2>1, <2>4 DEF Connections
  <2> HIDE DEF b
  <2> QED
    BY <2>2, <2>3, <2>4, SameKept
<1>2. CASE tcp_connect_cb(s)
  <2> DEFINE d == [c EXCEPT !.net = "open", !.state = "connected"]
  <2>1. Set(s, d)
    BY <1>2 DEF tcp_connect_cb
  <2>2. d.rxCount = c.rxCount /\ d.rxIndex = c.rxIndex
    BY <1>0 DEF Connections
  <2> HIDE DEF d
  <2> QED
    BY <2>1, <2>2, SameKept
<1>3. ASSUME tcp_recon_cb(s) \/ tcp_discon_cb(s) PROVE Kept
  <2>1. PICK flags : Set(s, [c EXCEPT !.net = "none", !.state = "idle", !.sending = FALSE,
                                      !.flags = flags])
    <3>1. [c EXCEPT !.net = "none", !.state = "idle", !.sending = FALSE, !.flags = c.flags]
            = [c EXCEPT !.net = "none", !.state = "idle", !.sending = FALSE]
      BY <1>0 DEF Connections
    <3>2. CASE tcp_recon_cb(s)
      BY <3>1, <3>2 DEF tcp_recon_cb
    <3>3. CASE tcp_discon_cb(s)
      BY <3>3 DEF tcp_discon_cb
    <3> QED
      BY <1>3, <3>2, <3>3
  <2> DEFINE d == [c EXCEPT !.net = "none", !.state = "idle", !.sending = FALSE,
                            !.flags = flags]
  <2>2. d.rxCount = c.rxCount /\ d.rxIndex = c.rxIndex
    BY <1>0 DEF Connections
  <2>3. Set(s, d)
    BY <2>1
  <2> HIDE DEF d
  <2> QED
    BY <2>2, <2>3, SameKept
<1>5. ASSUME NEW url \in Urls, sscp_websocketConnect(s, url) PROVE Kept
  BY <1>5, SameKept, UnchangedKept DEF sscp_websocketConnect, FirstFree, GoneAstray
<1>6. CASE websocketCloseCb(s)
  <2> DEFINE d == [c EXCEPT !.net = "none"]
  <2>1. Set(s, d)
    BY <1>6 DEF websocketCloseCb
  <2>2. d.rxCount = c.rxCount /\ d.rxIndex = c.rxIndex
    BY <1>0 DEF Connections
  <2> HIDE DEF d
  <2> QED
    BY <2>1, <2>2, SameKept
<1>7. CASE send_cb(s)
  <2> DEFINE d == [c EXCEPT !.sending = TRUE]
             e == [c EXCEPT !.flags = @ \ {"TXFULL"}]
  <2>1. Set(s, d) \/ Set(s, e) \/ GoneAstray
    BY <1>7 DEF send_cb
  <2>2. d.rxCount = c.rxCount /\ d.rxIndex = c.rxIndex
    BY <1>0 DEF Connections
  <2>3. e.rxCount = c.rxCount /\ e.rxIndex = c.rxIndex
    BY <1>0 DEF Connections
  <2> HIDE DEF d, e
  <2> QED
    BY <2>1, <2>2, <2>3, SameKept, UnchangedKept DEF GoneAstray
<1>8. CASE sent_cb(s)
  <2> DEFINE d == [c EXCEPT !.sending = FALSE, !.flags = @ \ {"TXFULL"}]
  <2>1. Set(s, d)
    BY <1>8 DEF sent_cb
  <2>2. d.rxCount = c.rxCount /\ d.rxIndex = c.rxIndex
    BY <1>0 DEF Connections
  <2> HIDE DEF d
  <2> QED
    BY <2>1, <2>2, SameKept
<1>9. ASSUME NEW n \in Pieces, tcp_recv_cb(s, n) PROVE Kept
  <2>1. c.type \in {"tcp", None}
    BY <1>0, <1>9 DEF tcp_recv_cb, Sound
  <2>2. PICK d : Set(s, d)
    BY <1>9 DEF tcp_recv_cb
  <2> QED
    BY <2>1, <2>2, SameKept
<1>10. ASSUME NEW n \in Pieces, message_recv_cb(s, n) PROVE Kept
  <2>1. PICK d : Set(s, d) /\ "RXFULL" \notin c.flags
    BY <1>10 DEF message_recv_cb
  <2>2. ~(c.rxIndex < c.rxCount)
    BY <1>0, <2>1 DEF Sound
  <2> QED
    BY <2>1, <2>2, SetKept DEF Keeps
<1> QED
  BY <1>1, <1>2, <1>3, <1>5, <1>6, <1>7, <1>8, <1>9, <1>10 DEF Callback

LEMMA CommandKept == ASSUME IInv, Command PROVE Kept
<1>1. ASSUME NEW s \in Slots, tcp_do_connect(s) \/ udp_do_connect(s) PROVE Kept
  BY <1>1, SameKept, UnchangedKept DEF tcp_do_connect, udp_do_connect, FirstFree, GoneAstray
<1>2. ASSUME NEW s \in Slots, cmds_do_close(s) PROVE Kept
  <2>1. close_handler(conns[s]).type = None
    BY DEF close_handler, Unused
  <2> QED
    BY <1>2, <2>1, SameKept DEF cmds_do_close
<1>3. ASSUME NEW s \in Slots, send_handler(s) \/ \E mask \in SUBSET Slots : cmds_do_poll(s, mask)
      PROVE  Kept
  <2>1. PICK flags : Set(s, [conns[s] EXCEPT !.flags = flags])
    BY <1>3 DEF send_handler, cmds_do_poll
  <2> DEFINE d == [conns[s] EXCEPT !.flags = flags]
  <2>2. conns[s] \in Connections
    BY DEF IInv, Sound
  <2>3. d.rxCount = conns[s].rxCount /\ d.rxIndex = conns[s].rxIndex
    BY <2>2 DEF Connections
  <2> HIDE DEF d
  <2> QED
    BY <2>1, <2>3, SameKept DEF d
<1>4. ASSUME NEW s \in Slots, NEW n \in Pieces, recv_handler(s, n) PROVE Kept
  <2> DEFINE c == conns[s]
             size == IF c.rxIndex + n > c.rxCount THEN c.rxCount - c.rxIndex ELSE n
             d == [c EXCEPT !.rxIndex = @ + size,
                            !.flags = IF c.rxIndex + size >= c.rxCount THEN @ \ {"RXFULL"}
                                      ELSE @]
  <2>1. Set(s, d)
    BY <1>4 DEF recv_handler
  <2>2. /\ c \in Connections /\ n \in Nat
        /\ c.rxIndex \in Nat /\ c.rxCount \in Nat /\ c.rxIndex <= c.rxCount
    BY NetAssumption DEF IInv, Sound, Connections
  <2>3. size \in Nat
    BY <2>2
  <2> HIDE DEF size
  <2>4. d.rxCount = c.rxCount /\ d.rxIndex = c.rxIndex + size
    BY <2>2 DEF Connections
  <2> HIDE DEF d
  <2> QED
    BY <2>1, <2>2, <2>3, <2>4, SetKept DEF Keeps
<1>5. ASSUME NEW i \in Listeners, CloseListener(i) \/ \E path \in Paths : cmds_do_listen(i, path)
      PROVE  Kept
  BY <1>5, UnchangedKept DEF CloseListener, cmds_do_listen
<1>6. CASE sscp_reset
  <2> SUFFICES ASSUME NEW s \in Slots PROVE Keeps(conns[s], conns'[s])
    BY DEF Kept
  <2>1. conns'[s] = sscp_close_connection(conns[s])
    BY <1>6 DEF sscp_reset
  <2>2. conns[s].type # None => conns'[s].type = None
    BY <2>1 DEF sscp_close_connection, close_handler, Unused
  <2> QED
    BY <2>2, NetAssumption DEF Keeps, Types
<1> QED
  BY <1>1, <1>2, <1>3, <1>4, <1>5, <1>6 DEF Command

-----------------------------------------------------------------------------
(* Theorems. *)

\* The variables have their types, and no slot is read behind its data.
THEOREM NetTyped == Spec => []TypeOK
<1>1. IInv => TypeOK
  BY DEF IInv, Plain, Sound, TypeOK
<1> QED
  BY InitInv, StepInv, <1>1, PTL DEF Spec

\* A POLL reports what has not been read, whatever came and was read before
\* (tcp_recv_cb, udp_recv_cb, websocketRecvCb, recv_handler).
THEOREM UnreadReported == Spec => []UnreadIsFlagged
<1>1. IInv => UnreadIsFlagged
  BY DEF IInv, Sound, UnreadIsFlagged
<1> QED
  BY InitInv, StepInv, <1>1, PTL DEF Spec

\* No SEND fills a buffer that is captured or on its way (send_handler, send_cb,
\* the sent and disconnect callbacks).
THEOREM BuffersKept == Spec => []BufferKept
<1>1. IInv => BufferKept
  BY DEF IInv, Sound, Capturing, BufferKept
<1> QED
  BY InitInv, StepInv, <1>1, PTL DEF Spec

\* Without events every reply is asked for, until a TCP connection breaks or the SDK
\* answers for a handle that was given back (sscp_sendResponse and its callers).
THEOREM RepliesAsked == Spec => []ReplyWhenAsked
<1>1. IInv => ReplyWhenAsked
  BY DEF IInv, Asked, ReplyWhenAsked
<1> QED
  BY InitInv, StepInv, <1>1, PTL DEF Spec

\* A datagram or a message stays as it is until it has been read (udp_recv_cb,
\* websocketRecvCb).
THEOREM MessagesKept == Spec => MessageKept
<1>1. IInv /\ [Next]_vars => Kept
  BY CallbackKept, CommandKept, UnchangedKept DEF Next, vars
<1>2. Kept => \A s \in Slots :
        conns[s].type \in {"udp", "ws"} /\ conns'[s].type = conns[s].type
          /\ conns[s].rxIndex < conns[s].rxCount
        => conns'[s].rxCount = conns[s].rxCount /\ conns'[s].rxIndex >= conns[s].rxIndex
  BY DEF Kept, Keeps
<1> QED
  BY InitInv, StepInv, <1>1, <1>2, PTL DEF Spec, MessageKept
=============================================================================
