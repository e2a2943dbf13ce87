-------------------------- MODULE PropLoaderProofs --------------------------
(***************************************************************************)
(* PropLoader for every number of requests, size of the buffer and of the  *)
(* files, length of the segments and of the handshake, number of retries,  *)
(* and thresholds of the button.                                           *)
(***************************************************************************)
EXTENDS PropLoader, FiniteSetTheorems, TLAPS

Cgis == {"free", "answered"} \cup Waiting
Waits(c) == reqs[c] \in {"load", "file"}

\* TypeOK in parts; of a button also that a level that is down has been counted.
LoadTyped == load \in Loads
RestTyped ==
  /\ taken \in BOOLEAN /\ ctsTimer \in BOOLEAN /\ reqs \in [Cells -> Cgis]
  /\ excuses \subseteq {"closed", "mode", "read"} /\ modes \subseteq Modes
  /\ lost \in BOOLEAN /\ wild \in BOOLEAN
Steadied(b) == b \in Buttons /\ (b.previous = 0 => b.steady = b.matching + 1)

\* The request whose client is gone does not wait any more, and no other one does.
ClosedIsGone == "closed" \in excuses => \A c \in Cells : ~Waits(c)

\* Between two segments there is a file, unless its request is gone.
FileIsThere == load.state = "LoadContinue" => load.file \/ "closed" \in excuses

\* A reset without an image is asked for by a request that waits for it, and the button
\* has been sampled since or what it asked for is lost.
ResetOnly ==
  load.state = "Reset" /\ load.image = None /\ ~load.file /\ "closed" \notin excuses =>
    load.connData \in Cells /\ reqs[load.connData] = "reset" /\ (ctsTimer \/ lost)

\* What OneEncoding rests on: the mode stays as it is during a load.
Encoded == load.state # "Idle" => modes \subseteq {load.mode} \/ "mode" \in excuses

\* What a load in progress says of the rest.
Going == Served /\ SerialLineReturned /\ TimerPending /\ NoMoreThanAsked /\ ClosedIsGone
         /\ FileIsThere /\ ResetOnly /\ ButtonComesBack /\ Encoded /\ OneEncoding

IInv == LoadTyped /\ RestTyped /\ Steadied(button) /\ Going

LEMMA FewModes == ASSUME NEW m, NEW S, S \subseteq {m} PROVE Cardinality(S) <= 1
<1>1. S = {} \/ S = {m}
  OBVIOUS
<1>2. Cardinality({}) = 0 /\ Cardinality({m}) = 1
  BY FS_EmptySet, FS_Singleton, Zenon
<1> QED
  BY <1>1, <1>2

LEMMA NamedStates == 
  /\ States = {"Idle", "Reset", "TxHandshake", "RxHandshakeStart", "RxHandshake",
               "LoadContinue", "VerifyChecksum", "StartAck"}
  /\ Receiving = {"RxHandshakeStart", "RxHandshake", "StartAck"}
  /\ Waiting = {"load", "file", "reset"}
BY DEF States, Receiving, Waiting

-----------------------------------------------------------------------------
(* Loads that begin, go on and end. *)

LEMMA BeginInv ==
  ASSUME IInv, ~wild, load.state = "Idle",
         NEW l \in Loads, load' = l, l.state = "Reset", l.timer,
         excuses' = {}, modes' = {}, taken' = taken, wild' = wild, Steadied(button'),
         ctsTimer' \in BOOLEAN, lost' \in BOOLEAN, reqs' \in [Cells -> Cgis],
         \A c \in Cells : reqs'[c] \in {"load", "file"} => l.connData = c /\ l.callback = "wifi",
         l.image = None /\ ~l.file =>
           l.connData \in Cells /\ reqs'[l.connData] = "reset" /\ (ctsTimer' \/ lost')
  PROVE  IInv'
<1>1. LoadTyped' /\ RestTyped'
  BY DEF IInv, LoadTyped, RestTyped
<1>2. Served' /\ ClosedIsGone' /\ ResetOnly' /\ ButtonComesBack'
  BY DEF Served, ClosedIsGone, ResetOnly, ButtonComesBack, Waits
<1>3. SerialLineReturned' /\ TimerPending' /\ NoMoreThanAsked' /\ FileIsThere' /\ Encoded'
  BY DEF IInv, Going, SerialLineReturned, TimerPending, NoMoreThanAsked, FileIsThere, Encoded,
         Receiving
<1>4. OneEncoding'
  BY FewModes DEF OneEncoding
<1> QED
  BY <1>1, <1>2, <1>3, <1>4 DEF IInv, Going

LEMMA EndInv ==
  ASSUME IInv, ~wild, load.state # "Idle", NEW l \in Loads,
         l.connData = load.connData, l.callback = load.callback, Complete(l),
         load' = [l EXCEPT !.state = "Idle"], taken' = FALSE,
         UNCHANGED <<button, excuses, modes>>
  PROVE  IInv'
<1>1. load' \in Loads /\ load'.state = "Idle" /\ load'.response = l.response
  BY NamedStates DEF Loads
<1>2. /\ reqs' \in [Cells -> Cgis] /\ ctsTimer' = TRUE /\ lost' = FALSE /\ wild' \in BOOLEAN
      /\ \A c \in Cells : reqs'[c] \notin {"load", "file"}
  <2>1. CASE l.callback = "wifi" /\ "closed" \in excuses
    BY <2>1 DEF Complete, Respond, RearmCts, IInv, Going, RestTyped, ClosedIsGone, Waits
  <2>2. CASE l.callback = "wifi" /\ "closed" \notin excuses
    <3>1. reqs' = [reqs EXCEPT ![l.connData] = "answered"] /\ wild' = wild
      BY <2>2 DEF Complete, Respond
    <3>2. \A c \in Cells : reqs'[c] \notin {"load", "file"}
      BY <3>1 DEF IInv, Going, RestTyped, Served
    <3> QED
      BY <2>2, <3>1, <3>2 DEF Complete, RearmCts, IInv, RestTyped, Cgis
  <2>3. CASE l.callback # "wifi"
    BY <2>3 DEF Complete, RearmCts, IInv, Going, RestTyped, Served
  <2> QED
    BY <2>1, <2>2, <2>3
<1>3. LoadTyped' /\ RestTyped' /\ Steadied(button')
  BY <1>1, <1>2 DEF IInv, LoadTyped, RestTyped
<1>4. Served' /\ ClosedIsGone' /\ ResetOnly' /\ ButtonComesBack'
  BY <1>1, <1>2 DEF Served, ClosedIsGone, ResetOnly, ButtonComesBack, Waits
<1>5. SerialLineReturned' /\ TimerPending' /\ NoMoreThanAsked' /\ FileIsThere' /\ Encoded'
  BY <1>1 DEF SerialLineReturned, TimerPending, NoMoreThanAsked, FileIsThere, Encoded, Receiving
<1>6. OneEncoding'
  BY DEF IInv, Going, OneEncoding
<1> QED
  BY <1>3, <1>4, <1>5, <1>6 DEF IInv, Going

\* The load is past its reset, and stays so.
LEMMA ContinueInv ==
  ASSUME IInv, ~wild, load.state # "Idle", NEW l \in Loads, load' = l,
         l.state \notin {"Idle", "Reset"},
         l.connData = load.connData, l.callback = load.callback, l.mode = load.mode,
         l.timer \/ l.timer = load.timer \/ excuses' \cap {"closed", "read"} # {},
         l.state \in Receiving =>
           l.received + l.remaining <= IF l.state = "StartAck" THEN l.response ELSE HandshakeSize,
         l.state = "LoadContinue" => l.file \/ "closed" \in excuses,
         taken' = TRUE, modes' \subseteq modes \cup {load.mode}, wild' \in BOOLEAN,
         excuses \subseteq excuses', excuses' \subseteq excuses \cup {"read"},
         UNCHANGED <<reqs, ctsTimer, button, lost>>
  PROVE  IInv'
<1>1. load.mode \in Modes
  BY DEF IInv, LoadTyped, Loads
<1>2. LoadTyped' /\ RestTyped' /\ Steadied(button')
  BY <1>1 DEF IInv, LoadTyped, RestTyped
<1>3. Served' /\ ClosedIsGone' /\ ResetOnly' /\ ButtonComesBack'
  BY DEF IInv, Going, Served, ClosedIsGone, ResetOnly, ButtonComesBack, Waits
<1>4. SerialLineReturned' /\ TimerPending' /\ NoMoreThanAsked' /\ FileIsThere'
  BY DEF IInv, Going, SerialLineReturned, TimerPending, NoMoreThanAsked, FileIsThere
<1>5. Encoded'
  BY DEF IInv, Going, Encoded
<1>6. OneEncoding'
  <2>1. CASE "mode" \in excuses
    BY <2>1 DEF OneEncoding
  <2>2. CASE "mode" \notin excuses
    <3>1. modes' \subseteq {load.mode}
      BY <2>2 DEF IInv, Going, Encoded
    <3> QED
      BY <3>1, FewModes DEF OneEncoding
  <2> QED
    BY <2>1, <2>2
<1> QED
  BY <1>2, <1>3, <1>4, <1>5, <1>6 DEF IInv, Going

\* The load stays where it is, but for its mode and for what is idle.
LEMMA StayInv ==
  ASSUME IInv, ~wild, wild' = wild, NEW l \in Loads, load' = l, l.state = load.state,
         l.response = load.response, l.received = load.received, l.remaining = load.remaining,
         \/ load.state = "Idle"
         \/ /\ l.connData = load.connData /\ l.callback = load.callback /\ l.image = load.image
            /\ l.file = load.file /\ (l.timer \/ l.timer = load.timer)
         \/ l = load,
         l.mode = load.mode \/ load.state = "Idle" \/ "mode" \in excuses',
         excuses \subseteq excuses', excuses' \subseteq excuses \cup {"mode"},
         Steadied(button'), ctsTimer' \in BOOLEAN, lost' \in BOOLEAN, reqs' \in [Cells -> Cgis],
         \A c \in Cells : reqs'[c] \in {"load", "file"} => reqs[c] = reqs'[c],
         \A c \in Cells : reqs[c] = "reset" => reqs'[c] = "reset",
         \/ UNCHANGED <<ctsTimer, lost>>
         \/ load.state = "Idle" /\ lost'
         \/ load.state # "Idle" /\ (lost' <=> \E c \in Cells : reqs[c] = "reset"),
         UNCHANGED <<taken, modes>>
  PROVE  IInv'
<1>1. LoadTyped' /\ RestTyped'
  BY DEF IInv, LoadTyped, RestTyped
<1>2. Served' /\ ClosedIsGone'
  BY DEF IInv, Going, Served, ClosedIsGone, Waits
<1>3. ResetOnly'
  BY DEF IInv, Going, ResetOnly
<1>4. ButtonComesBack'
  BY DEF IInv, Going, ButtonComesBack
<1>5. SerialLineReturned' /\ TimerPending' /\ NoMoreThanAsked' /\ FileIsThere'
  BY DEF IInv, Going, SerialLineReturned, TimerPending, NoMoreThanAsked, FileIsThere
<1>6. Encoded' /\ OneEncoding'
  BY DEF IInv, Going, Encoded, OneEncoding
<1> QED
  BY <1>1, <1>2, <1>3, <1>4, <1>5, <1>6 DEF IInv, Going

-----------------------------------------------------------------------------
(* Requests. *)

LEMMA LoadIs ==
  ASSUME IInv
  PROVE  /\ load \in Loads /\ BufferSize \in Nat
         /\ reqs \in [Cells -> Cgis] /\ Steadied(button)
         /\ ctsTimer \in BOOLEAN /\ lost \in BOOLEAN
BY LoaderAssumption DEF IInv, LoadTyped, RestTyped

\* A request that finds the loader busy, or cannot be served, is answered.
LEMMA RefuseInv ==
  ASSUME IInv, ~wild, NEW c \in Cells, reqs[c] = "free", Refuse(c), Others, modes' = modes,
         NEW l \in Loads, load' = l, l.state = load.state, l.response = load.response,
         l.received = load.received, l.remaining = load.remaining,
         \/ load.state = "Idle"
         \/ /\ l.connData = load.connData /\ l.callback = load.callback /\ l.image = load.image
            /\ l.file = load.file /\ l.timer = load.timer,
         l.mode = load.mode \/ load.state = "Idle" \/ "mode" \in excuses',
         excuses \subseteq excuses', excuses' \subseteq excuses \cup {"mode"}
  PROVE  IInv'
<1>1. reqs' = [reqs EXCEPT ![c] = "answered"]
  BY DEF Refuse
<1>2. /\ reqs' \in [Cells -> Cgis]
      /\ \A d \in Cells : reqs'[d] \in {"load", "file"} => reqs[d] = reqs'[d]
      /\ \A d \in Cells : reqs[d] = "reset" => reqs'[d] = "reset"
  BY <1>1, LoadIs DEF Cgis
<1>3. UNCHANGED <<ctsTimer, lost, taken, modes, button, wild>>
  BY DEF Others
<1>4. Steadied(button') /\ ctsTimer' \in BOOLEAN /\ lost' \in BOOLEAN
  BY <1>3, LoadIs
<1> QED
  BY <1>2, <1>3, <1>4, StayInv

\* A request that is served begins a load.
LEMMA ServeInv ==
  ASSUME IInv, ~wild, load.state = "Idle", NEW c \in Cells, NEW cgi \in Waiting,
         reqs' = [reqs EXCEPT ![c] = cgi], Others, excuses' = {}, modes' = {},
         NEW l \in Loads, load' = l, l.state = "Reset", l.timer,
         l.connData = c, cgi # "reset" => l.callback = "wifi" /\ (l.image # None \/ l.file)
  PROVE  IInv'
<1>1. \A d \in Cells : ~Waits(d)
  BY DEF IInv, Going, Served, Waits
<1>2. reqs' \in [Cells -> Cgis] /\ reqs'[c] = cgi /\ \A d \in Cells \ {c} : reqs'[d] = reqs[d]
  BY LoadIs DEF Cgis
<1>3. \A d \in Cells : reqs'[d] \in {"load", "file"} => l.connData = d /\ l.callback = "wifi"
  BY <1>1, <1>2 DEF Waits
<1>4. UNCHANGED <<ctsTimer, lost, taken, button, wild>>
  BY DEF Others
<1>5. ctsTimer \/ lost
  BY DEF IInv, Going, ButtonComesBack
<1>6. l.image = None /\ ~l.file =>
        l.connData \in Cells /\ reqs'[l.connData] = "reset" /\ (ctsTimer' \/ lost')
  BY <1>2, <1>4, <1>5 DEF Waiting
<1>7. Steadied(button') /\ ctsTimer' \in BOOLEAN /\ lost' \in BOOLEAN
  BY <1>4, LoadIs
<1> QED
  BY <1>2, <1>3, <1>4, <1>6, <1>7, BeginInv

LEMMA LoadRequestInv == ASSUME IInv, NEW c \in Cells, cgiPropLoad(c) PROVE IInv'
<1>1. CASE Refuse(c) /\ UNCHANGED <<load, excuses, modes>>
  BY <1>1, LoadIs, RefuseInv DEF cgiPropLoad
<1>2. ASSUME load.state = "Idle", NEW n \in ResponseSizes,
             Begin([startLoading(load) EXCEPT !.connData = c, !.image = c, !.mode = "ddoff",
                                !.response = n, !.callback = "wifi",
                                !.file = IF n > 0 THEN FALSE ELSE @]),
             reqs' = [reqs EXCEPT ![c] = "load"]
      PROVE  IInv'
  <2> DEFINE file == IF n > 0 THEN FALSE ELSE load.file
             d == [load EXCEPT !.state = "Reset", !.timer = TRUE, !.connData = c, !.image = c,
                     !.file = file, !.left = load.left, !.mode = "ddoff", !.response = n,
                     !.callback = "wifi"]
             e == [startLoading(load) EXCEPT !.connData = c, !.image = c, !.mode = "ddoff",
                                !.response = n, !.callback = "wifi",
                                !.file = IF n > 0 THEN FALSE ELSE @]
  <2>1. load \in Loads
    BY LoadIs
  <2>2. e = d
    BY <2>1 DEF startLoading, Loads
  <2>3. n \in Nat /\ c # None
    BY LoaderAssumption
  <2>4. file \in BOOLEAN /\ load.left \in Nat /\ "ddoff" \in Modes
    BY <2>1 DEF Loads, Modes
  <2> HIDE DEF file
  <2>5. /\ d \in Loads /\ d.state = "Reset" /\ d.timer /\ d.response = n
        /\ d.connData = c /\ d.callback = "wifi" /\ d.image = c
    BY <2>1, <2>3, <2>4, NamedStates DEF Loads
  <2> HIDE DEF d
  <2>6. load' = d /\ excuses' = {} /\ modes' = {}
    BY <1>2, <2>2 DEF Begin
  <2>7. ~wild /\ Others /\ "load" \in Waiting
    BY NamedStates DEF cgiPropLoad
  <2> QED
    BY <1>2, <2>3, <2>5, <2>6, <2>7, ServeInv
<1> QED
  BY <1>1, <1>2 DEF cgiPropLoad

LEMMA FileRequestInv ==
  ASSUME IInv, NEW c \in Cells, NEW m \in Modes, cgiPropLoadFile(c, m)
  PROVE  IInv'
<1> DEFINE l == [load EXCEPT !.mode = m]
<1>0. load \in Loads /\ ~wild /\ reqs[c] = "free" /\ Others
  BY LoadIs DEF cgiPropLoadFile
<1>1. l \in Loads
  BY <1>0 DEF Loads
<1>2. /\ l.state = load.state /\ l.timer = load.timer /\ l.response = load.response
      /\ l.received = load.received /\ l.remaining = load.remaining
      /\ l.connData = load.connData /\ l.callback = load.callback /\ l.image = load.image
      /\ l.file = load.file /\ l.mode = m /\ l.left = load.left /\ l.retries = load.retries
  BY <1>0 DEF Loads
<1>3. CASE /\ Refuse(c) /\ load' = l /\ modes' = modes
           /\ excuses' = IF l = load THEN excuses ELSE excuses \cup {"mode"}
  <2> HIDE DEF l
  <2> QED
    BY <1>0, <1>1, <1>2, <1>3, RefuseInv
<1>4. ASSUME load.state = "Idle", Refuse(c), NEW file \in {FALSE, load.file},
             load' = [l EXCEPT !.connData = c, !.file = file], UNCHANGED <<excuses, modes>>
      PROVE  IInv'
  <2> HIDE DEF l
  <2> DEFINE d == [l EXCEPT !.connData = c, !.file = file]
  <2>1. file \in BOOLEAN
    BY <1>0 DEF Loads
  <2>2. d \in Loads
    BY <1>1, <2>1 DEF Loads
  <2>3. /\ d.state = load.state /\ d.response = load.response
        /\ d.received = load.received /\ d.remaining = load.remaining
    BY <1>1, <1>2 DEF Loads
  <2> HIDE DEF d
  <2> QED
    BY <1>0, <1>4, <2>2, <2>3, RefuseInv DEF d
<1>5. ASSUME load.state = "Idle", NEW n \in FileSizes,
             Begin([startLoading(l) EXCEPT !.connData = c, !.file = TRUE, !.image = None,
                      !.left = n, !.callback = "wifi"]),
             reqs' = [reqs EXCEPT ![c] = "file"]
      PROVE  IInv'
  <2> HIDE DEF l
  <2> DEFINE d == [l EXCEPT !.state = "Reset", !.timer = TRUE, !.connData = c, !.file = TRUE,
                      !.image = None, !.left = n, !.callback = "wifi"]
             e == [startLoading(l) EXCEPT !.connData = c, !.file = TRUE, !.image = None,
                      !.left = n, !.callback = "wifi"]
  <2>1. e = d
    BY <1>1 DEF startLoading, Loads
  <2>2. n \in Nat
    BY LoaderAssumption
  <2>3. d \in Loads
    BY <1>1, <2>2, NamedStates DEF Loads
  <2>4. /\ d.state = "Reset" /\ d.timer /\ d.response = load.response
        /\ d.connData = c /\ d.callback = "wifi" /\ d.file
    BY <1>1, <1>2 DEF Loads
  <2>5. load' = d /\ excuses' = {} /\ modes' = {} /\ "file" \in Waiting
    BY <1>5, <2>1, NamedStates DEF Begin
  <2> HIDE DEF d
  <2> QED
    BY <1>0, <1>5, <2>3, <2>4, <2>5, ServeInv
<1> QED
  BY <1>3, <1>4, <1>5 DEF cgiPropLoadFile, l

LEMMA ResetRequestInv == ASSUME IInv, NEW c \in Cells, cgiPropReset(c) PROVE IInv'
<1>0. load \in Loads /\ ~wild /\ reqs[c] = "free" /\ Others
  BY LoadIs DEF cgiPropReset
<1>1. CASE Refuse(c) /\ UNCHANGED <<load, excuses, modes>>
  BY <1>0, <1>1, RefuseInv
<1>2. CASE /\ load.state = "Idle" /\ reqs' = [reqs EXCEPT ![c] = "reset"]
           /\ Begin([startLoading(load) EXCEPT !.connData = c, !.image = None])
  <2> DEFINE d == [load EXCEPT !.state = "Reset", !.timer = TRUE, !.connData = c, !.image = None]
             e == [startLoading(load) EXCEPT !.connData = c, !.image = None]
  <2>1. e = d
    BY <1>0 DEF startLoading, Loads
  <2>2. d \in Loads
    BY <1>0, NamedStates DEF Loads
  <2>3. /\ d.state = "Reset" /\ d.timer /\ d.response = load.response /\ d.connData = c
    BY <1>0 DEF Loads
  <2>4. load' = d /\ excuses' = {} /\ modes' = {} /\ "reset" \in Waiting
    BY <1>2, <2>1, NamedStates DEF Begin
  <2> HIDE DEF d
  <2> QED
    BY <1>0, <1>2, <2>2, <2>3, <2>4, ServeInv
<1> QED
  BY <1>1, <1>2 DEF cgiPropReset

LEMMA CloseInv == ASSUME IInv, NEW c \in Cells, Close(c) PROVE IInv'
<1>0. load \in Loads /\ reqs \in [Cells -> Cgis]
  BY LoadIs
<1>1. /\ reqs' = [reqs EXCEPT ![c] = "free"]
      /\ load' = IF reqs[c] = "file" THEN [load EXCEPT !.file = FALSE] ELSE load
      /\ excuses' = IF reqs[c] \in Waiting /\ load.connData = c THEN excuses \cup {"closed"} ELSE excuses
      /\ UNCHANGED <<taken, ctsTimer, button, modes, lost, wild>>
  BY DEF Close
<1>2. /\ reqs' \in [Cells -> Cgis] /\ reqs'[c] = "free"
      /\ \A d \in Cells \ {c} : reqs'[d] = reqs[d]
  BY <1>0, <1>1 DEF Cgis
<1>3. Waits(c) => "closed" \in excuses' /\ \A d \in Cells : ~(reqs'[d] \in {"load", "file"})
  BY <1>1, <1>2, NamedStates DEF IInv, Going, Served, Waits
<1>4. /\ load' \in Loads /\ load'.state = load.state /\ load'.timer = load.timer
      /\ load'.response = load.response /\ load'.received = load.received
      /\ load'.remaining = load.remaining /\ load'.connData = load.connData
      /\ load'.callback = load.callback /\ load'.image = load.image /\ load'.mode = load.mode
      /\ load'.file = load.file \/ Waits(c)
  <2> DEFINE d == [load EXCEPT !.file = FALSE]
  <2>1. d \in Loads
    BY <1>0 DEF Loads
  <2>2. /\ d.state = load.state /\ d.timer = load.timer
        /\ d.response = load.response /\ d.received = load.received
        /\ d.remaining = load.remaining /\ d.connData = load.connData
        /\ d.callback = load.callback /\ d.image = load.image /\ d.mode = load.mode
    BY <1>0 DEF Loads
  <2> HIDE DEF d
  <2>3. CASE reqs[c] = "file"
    BY <1>1, <2>1, <2>2, <2>3 DEF Waits, d
  <2>4. CASE reqs[c] # "file"
    BY <1>0, <1>1, <2>4
  <2> QED
    BY <2>3, <2>4
<1>5. excuses \subseteq excuses' /\ excuses' \subseteq excuses \cup {"closed"}
  BY <1>1
<1>6. LoadTyped' /\ RestTyped' /\ Steadied(button')
  BY <1>0, <1>1, <1>2, <1>4, <1>5 DEF IInv, LoadTyped, RestTyped
<1>7. Served' /\ ClosedIsGone'
  <2>1. ASSUME NEW d \in Cells, reqs'[d] \in {"load", "file"}
        PROVE  Waits(d) /\ "closed" \notin excuses'
    <3>1. reqs[d] = reqs'[d] /\ d # c
      BY <1>2, <2>1
    <3>2. load.connData = d /\ "closed" \notin excuses
      BY <2>1, <3>1 DEF IInv, Going, Served, ClosedIsGone, Waits
    <3> QED
      BY <1>1, <2>1, <3>1, <3>2 DEF Waits
  <2> QED
    BY <1>4, <2>1 DEF IInv, Going, Served, ClosedIsGone, Waits
<1>8. ResetOnly'
  <2> SUFFICES ASSUME load'.state = "Reset", load'.image = None, ~load'.file,
                      "closed" \notin excuses'
               PROVE  /\ load'.connData \in Cells /\ reqs'[load'.connData] = "reset"
                      /\ ctsTimer' \/ lost'
    BY DEF ResetOnly
  <2>1. ~Waits(c) /\ "closed" \notin excuses
    BY <1>3, <1>5
  <2>2. load.connData \in Cells /\ reqs[load.connData] = "reset" /\ (ctsTimer \/ lost)
    BY <1>4, <2>1 DEF IInv, Going, ResetOnly
  <2>3. load.connData # c
    BY <1>1, <2>2, NamedStates
  <2> QED
    BY <1>1, <1>2, <1>4, <2>2, <2>3
<1>9. SerialLineReturned' /\ TimerPending' /\ NoMoreThanAsked'
  BY <1>1, <1>4, <1>5 DEF IInv, Going, SerialLineReturned, TimerPending, NoMoreThanAsked
<1>10. FileIsThere' /\ ButtonComesBack' /\ Encoded' /\ OneEncoding'
  BY <1>1, <1>3, <1>4, <1>5 DEF IInv, Going, FileIsThere, ButtonComesBack, Encoded, OneEncoding
<1> QED
  BY <1>6, <1>7, <1>8, <1>9, <1>10 DEF IInv, Going

-----------------------------------------------------------------------------
(* The commands and the button. *)

LEMMA SampledIs ==
  ASSUME NEW b, Steadied(b), NEW level \in Levels
  PROVE  /\ Steadied(Sampled(b, level)) /\ Sampled(b, level).presses = b.presses
         /\ Sampled(b, level).previous = level
<1> DEFINE m == IF level # b.previous THEN 0
                ELSE IF b.matching < Threshold THEN b.matching + 1 ELSE b.matching
           s == IF level # b.previous THEN 1
                ELSE IF b.steady > Threshold THEN b.steady ELSE b.steady + 1
           d == [b EXCEPT !.previous = level, !.matching = m, !.steady = s]
<1>1. Threshold \in Nat /\ b \in Buttons /\ (b.previous = 0 => b.steady = b.matching + 1)
  BY ButtonAssumption DEF Steadied
<1>2. b.matching \in 0..Threshold /\ b.steady \in 0..(Threshold + 1)
  BY <1>1 DEF Buttons
<1>3. m \in 0..Threshold /\ s \in 0..(Threshold + 1) /\ (level = 0 => s = m + 1)
  BY <1>1, <1>2
<1>4. Sampled(b, level) = d
  BY <1>1 DEF Sampled, Buttons
<1> HIDE DEF m, s
<1>5. d \in Buttons
  BY <1>1, <1>3 DEF Buttons
<1>6. d.previous = level /\ d.matching = m /\ d.steady = s /\ d.presses = b.presses
  BY <1>1 DEF Buttons
<1> QED
  BY <1>3, <1>4, <1>5, <1>6 DEF Steadied

LEMMA TurnIs ==
  ASSUME NEW b, Steadied(b), NEW level \in Levels
  PROVE  /\ Steadied(Turn(b, level)) /\ Turn(b, level).presses = b.presses
         /\ Turn(b, level).previous = level
         /\ Turned(b, level) /\ level = 0 => Turn(b, level).steady > Threshold
<1> DEFINE e == Sampled(b, level)
           d == [e EXCEPT !.state = level]
<1>1. Steadied(e) /\ e.presses = b.presses /\ e.previous = level /\ Threshold \in Nat
  BY SampledIs, ButtonAssumption
<1>2. Turned(b, level) => e.matching = Threshold
  BY DEF Turned
<1> HIDE DEF e
<1>3. d \in Buttons
  BY <1>1 DEF Steadied, Buttons
<1>4. d.previous = level /\ d.matching = e.matching /\ d.steady = e.steady /\ d.presses = e.presses
  BY <1>1 DEF Steadied, Buttons
<1>5. Turn(b, level) = d
  BY DEF Turn, e
<1> QED
  BY <1>1, <1>2, <1>3, <1>4, <1>5 DEF Steadied

LEMMA PressIs ==
  ASSUME NEW b, Steadied(b), NEW late \in BOOLEAN
  PROVE  /\ Steadied(Press(b, late))
         /\ Press(b, late).previous = b.previous /\ Press(b, late).steady = b.steady
<1> DEFINE n == IF Fires(b, late) THEN 0 ELSE Counted(b, late)
           d == [b EXCEPT !.presses = n]
<1>1. b \in Buttons /\ PressCount \in Nat \ {0, 1}
  BY ButtonAssumption DEF Steadied
<1>2. b.presses \in 0..(PressCount - 1)
  BY <1>1 DEF Buttons
<1>3. n \in 0..(PressCount - 1)
  BY <1>1, <1>2 DEF Fires, Counted
<1> HIDE DEF n
<1>4. d \in Buttons
  BY <1>1, <1>3 DEF Buttons
<1>5. d.previous = b.previous /\ d.matching = b.matching /\ d.steady = b.steady
  BY <1>1 DEF Buttons
<1>6. Press(b, late) = d
  BY DEF Press, n
<1> QED
  BY <1>4, <1>5, <1>6 DEF Steadied

LEMMA FileLoadIs ==
  ASSUME NEW l \in Loads, NEW n \in FileSizes
  PROVE  /\ FileLoad(l, n) \in Loads /\ FileLoad(l, n).state = "Reset" /\ FileLoad(l, n).timer
         /\ FileLoad(l, n).response = 0 /\ FileLoad(l, n).file
<1> DEFINE d == [l EXCEPT !.state = "Reset", !.timer = TRUE, !.file = TRUE, !.image = None,
                          !.left = n, !.response = 0, !.callback = "plain"]
<1>1. n \in Nat
  BY LoaderAssumption
<1>2. FileLoad(l, n) = d
  BY DEF FileLoad, startLoading, Loads
<1>3. d \in Loads
  BY <1>1, NamedStates DEF Loads
<1>4. d.state = "Reset" /\ d.timer /\ d.response = 0 /\ d.file
  BY DEF Loads
<1> QED
  BY <1>2, <1>3, <1>4

LEMMA LoadFileInv ==
  ASSUME IInv, ~wild, NEW n \in FileSizes, loadFile(n), Steadied(button'),
         ctsTimer' \in BOOLEAN, UNCHANGED <<taken, reqs, lost, wild>>
  PROVE  IInv'
<1>1. load.state = "Idle" /\ load' = FileLoad(load, n) /\ excuses' = {} /\ modes' = {}
  BY DEF loadFile, Begin
<1>2. \A c \in Cells : reqs'[c] \notin {"load", "file"}
  BY <1>1 DEF IInv, Going, Served
<1>3. load' \in Loads /\ load'.state = "Reset" /\ load'.timer /\ load'.response = 0 /\ load'.file
  BY <1>1, LoadIs, FileLoadIs
<1>4. BufferSize \in Nat /\ reqs' \in [Cells -> Cgis] /\ lost' \in BOOLEAN
  BY LoadIs
<1> HIDE DEF FileLoad
<1> QED
  BY <1>1, <1>2, <1>3, <1>4, BeginInv

\* The file is missing.
LEMMA MissInv ==
  ASSUME IInv, ~wild, load.state = "Idle", load' = [load EXCEPT !.file = FALSE],
         Steadied(button'), ctsTimer' \in BOOLEAN,
         UNCHANGED <<ctsTimer, lost>> \/ lost' = TRUE,
         UNCHANGED <<taken, reqs, excuses, modes, wild>>
  PROVE  IInv'
<1> DEFINE d == [load EXCEPT !.file = FALSE]
<1>1. d \in Loads
  BY LoadIs DEF Loads
<1>2. /\ d.state = load.state /\ d.response = load.response
      /\ d.received = load.received /\ d.remaining = load.remaining
  BY LoadIs DEF Loads
<1>3. lost' \in BOOLEAN /\ reqs' \in [Cells -> Cgis] /\ load' = d
  BY LoadIs
<1> HIDE DEF d
<1> QED
  BY <1>1, <1>2, <1>3, StayInv

LEMMA RunCommandInv == ASSUME IInv, fs_do_frun PROVE IInv'
<1>1. /\ ~wild /\ UNCHANGED <<taken, reqs, ctsTimer, button, lost, wild>>
      /\ Steadied(button') /\ ctsTimer' \in BOOLEAN
  BY LoadIs DEF fs_do_frun
<1>2. ASSUME NEW n \in FileSizes, loadFile(n) PROVE IInv'
  BY <1>1, <1>2, LoadFileInv
<1>3. CASE /\ load.state = "Idle" /\ load' = [load EXCEPT !.file = FALSE]
           /\ UNCHANGED <<excuses, modes>>
  BY <1>1, <1>3, MissInv
<1> QED
  BY <1>2, <1>3 DEF fs_do_frun

LEMMA ButtonStaysInv ==
  ASSUME IInv, ~wild, Steadied(button'), ctsTimer' \in BOOLEAN, lost' \in BOOLEAN,
         \/ UNCHANGED <<ctsTimer, lost>>
         \/ load.state # "Idle" /\ (lost' <=> \E c \in Cells : reqs[c] = "reset"),
         UNCHANGED <<load, taken, reqs, excuses, modes, wild>>
  PROVE  IInv'
<1>1. load \in Loads /\ reqs' \in [Cells -> Cgis]
  BY LoadIs
<1> QED
  BY <1>1, StayInv

LEMMA ButtonInv == ASSUME IInv, Buttonwork PROVE IInv'
<1>0. Steadied(button) /\ ctsTimer \in BOOLEAN /\ lost \in BOOLEAN /\ 0 \in Levels
  BY LoadIs DEF Levels
<1>1. ASSUME NEW level \in Levels, CtsSample(level) PROVE IInv'
  <2>1. Steadied(button')
    BY <1>0, <1>1, SampledIs DEF CtsSample
  <2> QED
    BY <1>0, <1>1, <2>1, ButtonStaysInv DEF CtsSample
<1>2. ASSUME NEW level \in Levels, NEW late \in BOOLEAN, CtsTurn(level, late) PROVE IInv'
  <2>1. Steadied(button')
    BY <1>0, <1>2, TurnIs, PressIs DEF CtsTurn
  <2> QED
    BY <1>0, <1>2, <2>1, ButtonStaysInv DEF CtsTurn
<1>3. ASSUME NEW late \in BOOLEAN, CtsFire(late) PROVE IInv'
  <2>1. Steadied(button')
    BY <1>0, <1>3, TurnIs, PressIs DEF CtsFire
  <2>2. ~wild /\ ctsTimer' \in BOOLEAN /\ UNCHANGED <<taken, reqs, wild>>
    BY <1>3 DEF CtsFire
  <2>3. ASSUME NEW n \in FileSizes, loadFile(n), UNCHANGED lost PROVE IInv'
    BY <2>1, <2>2, <2>3, LoadFileInv
  <2>4. CASE /\ load.state = "Idle" /\ load' = [load EXCEPT !.file = FALSE] /\ lost' = TRUE
             /\ UNCHANGED <<excuses, modes>>
    BY <2>1, <2>2, <2>4, MissInv
  <2>5. CASE /\ load.state # "Idle" /\ lost' = (\E c \in Cells : reqs[c] = "reset")
             /\ UNCHANGED <<load, excuses, modes>>
    BY <2>1, <2>2, <2>5, ButtonStaysInv, Zenon
  <2> QED
    BY <1>3, <2>3, <2>4, <2>5 DEF CtsFire
<1> QED
  BY <1>1, <1>2, <1>3 DEF Buttonwork

-----------------------------------------------------------------------------
(* The timer and the serial line. *)

LEMMA ContinueIs ==
  ASSUME NEW l \in Loads, l.image # None \/ l.file
  PROVE  LET p == ploadLoadImageContinue(l)
         IN  /\ p \in Loads /\ p.timer /\ p.state \in {"VerifyChecksum", "LoadContinue"}
             /\ p.response = l.response /\ p.connData = l.connData /\ p.callback = l.callback
             /\ p.mode = l.mode /\ (p.state = "LoadContinue" => p.file)
<1> DEFINE k == IF l.left <= SegmentOf[l.mode] THEN 0 ELSE l.left - SegmentOf[l.mode]
           p == ploadLoadImageContinue(l)
           a == [l EXCEPT !.image = None, !.retries = Retries, !.timer = TRUE,
                          !.state = "VerifyChecksum"]
           b == [l EXCEPT !.left = k, !.file = FALSE, !.retries = Retries, !.timer = TRUE,
                          !.state = "VerifyChecksum"]
           c == [l EXCEPT !.left = k, !.timer = TRUE, !.state = "LoadContinue"]
<1>1. l.left \in Nat /\ SegmentOf[l.mode] \in Nat \ {0} /\ Retries \in Nat
  BY LoaderAssumption DEF Loads
<1>2. k \in Nat
  BY <1>1
<1>3. encodeFile(l) = [l EXCEPT !.left = k]
  BY DEF encodeFile, Loads
<1>4. encodeFile(l).left = k
  BY <1>3 DEF Loads
<1> HIDE DEF k
<1>5. CASE l.image # None
  <2>1. p = a
    BY <1>5 DEF ploadLoadImageContinue, finishLoad, Loads
  <2>2. a \in Loads
    BY <1>1, NamedStates DEF Loads
  <2>3. /\ a.timer /\ a.state = "VerifyChecksum" /\ a.response = l.response
        /\ a.connData = l.connData /\ a.callback = l.callback /\ a.mode = l.mode
    BY DEF Loads
  <2> QED
    BY <2>1, <2>2, <2>3
<1>6. CASE l.image = None /\ k = 0
  <2>1. p = b
    BY <1>3, <1>4, <1>6 DEF ploadLoadImageContinue, finishLoad, Loads
  <2>2. b \in Loads
    BY <1>1, <1>2, NamedStates DEF Loads
  <2>3. /\ b.timer /\ b.state = "VerifyChecksum" /\ b.response = l.response
        /\ b.connData = l.connData /\ b.callback = l.callback /\ b.mode = l.mode
    BY DEF Loads
  <2> QED
    BY <2>1, <2>2, <2>3
<1>7. CASE l.image = None /\ k # 0
  <2>1. p = c
    BY <1>3, <1>4, <1>7 DEF ploadLoadImageContinue, finishLoad, Loads
  <2>2. c \in Loads
    BY <1>1, <1>2, NamedStates DEF Loads
  <2>3. /\ c.timer /\ c.state = "LoadContinue" /\ c.response = l.response /\ c.file = l.file
        /\ c.connData = l.connData /\ c.callback = l.callback /\ c.mode = l.mode
    BY DEF Loads
  <2> QED
    BY <1>7, <2>1, <2>2, <2>3
<1> QED
  BY <1>5, <1>6, <1>7

\* The load, with its timer or what it received changed.
Alike(l) == l \in Loads /\ l.response = load.response /\ l.connData = load.connData
            /\ l.callback = load.callback /\ l.mode = load.mode

LEMMA TakenIs ==
  ASSUME IInv
  PROVE  /\ taken <=> load.state \notin {"Idle", "Reset"}
         /\ taken \in BOOLEAN /\ wild \in BOOLEAN
BY DEF IInv, RestTyped, Going, SerialLineReturned

LEMMA SegmentInv ==
  ASSUME IInv, ~wild, load.state \notin {"Idle", "Reset"}, NEW l, Alike(l), Segment(l),
         taken' = taken
  PROVE  IInv'
<1>1. l \in Loads /\ (l.image # None \/ l.file)
  BY DEF Segment, Alike
<1> DEFINE p == ploadLoadImageContinue(l)
<1>2. /\ p \in Loads /\ p.timer /\ p.state \in {"VerifyChecksum", "LoadContinue"}
      /\ p.response = l.response /\ p.connData = l.connData /\ p.callback = l.callback
      /\ p.mode = l.mode /\ (p.state = "LoadContinue" => p.file)
  BY <1>1, ContinueIs
<1>3. /\ load' = p /\ wild' = (wild \/ ImageFreed(l))
      /\ modes' = (IF l.image # None \/ l.left > 0 THEN modes \cup {l.mode} ELSE modes)
      /\ UNCHANGED <<reqs, ctsTimer, button, excuses, lost>>
  BY DEF Segment, encodeBuffer
<1> HIDE DEF p
<1>4. wild' \in BOOLEAN
  BY <1>3, TakenIs, Zenon DEF ImageFreed
<1>5. modes' \subseteq modes \cup {load.mode} /\ taken' = TRUE
  BY <1>3, LoadIs, TakenIs DEF Alike
<1>6. p.state \notin Receiving \cup {"Idle", "Reset"}
  BY <1>2, NamedStates
<1>7. p.response = load.response /\ p.connData = load.connData /\ p.callback = load.callback
      /\ p.mode = load.mode
  BY <1>2 DEF Alike
<1> QED
  BY <1>2, <1>3, <1>4, <1>5, <1>6, <1>7, LoadIs, ContinueInv

LEMMA FiredIs ==
  ASSUME IInv
  PROVE  /\ Alike(Fired) /\ Fired.state = load.state /\ Fired.received = load.received
         /\ Fired.remaining = load.remaining /\ Fired.image = load.image /\ Fired.file = load.file
         /\ Fired.retries = load.retries
         /\ Alike(Rearmed) /\ Rearmed.state = load.state /\ Rearmed.received = load.received
         /\ Rearmed.remaining = load.remaining /\ Rearmed.image = load.image
         /\ Rearmed.file = load.file /\ Rearmed.timer /\ Rearmed.retries = load.retries
<1>1. load \in Loads
  BY LoadIs
<1>2. Fired \in Loads /\ Rearmed \in Loads
  BY <1>1 DEF Fired, Rearmed, Loads
<1>3. /\ Fired.response = load.response /\ Fired.connData = load.connData
      /\ Fired.callback = load.callback /\ Fired.mode = load.mode
      /\ Fired.state = load.state /\ Fired.received = load.received
      /\ Fired.remaining = load.remaining /\ Fired.image = load.image /\ Fired.file = load.file
      /\ Fired.retries = load.retries
  BY <1>1 DEF Fired, Loads
<1>4. /\ Rearmed.response = load.response /\ Rearmed.connData = load.connData
      /\ Rearmed.callback = load.callback /\ Rearmed.mode = load.mode /\ Rearmed.timer
      /\ Rearmed.state = load.state /\ Rearmed.received = load.received
      /\ Rearmed.remaining = load.remaining /\ Rearmed.image = load.image
      /\ Rearmed.file = load.file /\ Rearmed.retries = load.retries
  BY <1>1 DEF Rearmed, Loads
<1> QED
  BY <1>2, <1>3, <1>4 DEF Alike

LEMMA AbortInv ==
  ASSUME IInv, ~wild, load.state # "Idle", NEW l, Alike(l), abortLoading(l) \/ finishLoading(l)
  PROVE  IInv'
BY LoadIs, EndInv DEF Alike, abortLoading, finishLoading

LEMMA IdleTimerInv == ASSUME IInv, ~wild, TimerIdle PROVE IInv'
<1>1. Steadied(button') /\ ctsTimer' \in BOOLEAN /\ lost' \in BOOLEAN /\ reqs' \in [Cells -> Cgis]
  BY LoadIs DEF TimerIdle, LoadOnly
<1>2. UNCHANGED <<taken, reqs, ctsTimer, button, excuses, modes, lost, wild>>
      /\ load.state = "Idle" /\ load' = Fired
  BY DEF TimerIdle, LoadOnly
<1> QED
  BY <1>1, <1>2, FiredIs, StayInv DEF Alike

LEMMA ResetTimerInv == ASSUME IInv, ~wild, TimerReset PROVE IInv'
<1>0. load.state = "Reset" /\ UNCHANGED <<ctsTimer, button, excuses, modes, lost>>
  BY DEF TimerReset
<1>1. CASE /\ load.image # None \/ load.file
           /\ load' = [Rearmed EXCEPT !.state = "TxHandshake"]
           /\ taken' = TRUE /\ UNCHANGED <<reqs, wild>>
  <2> DEFINE d == [Rearmed EXCEPT !.state = "TxHandshake"]
  <2>1. d \in Loads
    BY FiredIs, NamedStates DEF Alike, Loads
  <2>2. /\ d.state = "TxHandshake" /\ d.timer /\ d.response = load.response
        /\ d.connData = load.connData /\ d.callback = load.callback /\ d.mode = load.mode
    BY FiredIs DEF Alike, Loads
  <2>3. load' = d
    BY <1>1
  <2> HIDE DEF d
  <2>4. d.state \notin Receiving /\ wild' \in BOOLEAN
    BY <1>1, <2>2, LoadIs, TakenIs, NamedStates
  <2> QED
    BY <1>0, <1>1, <2>1, <2>2, <2>3, <2>4, ContinueInv
<1>2. CASE /\ load.image = None /\ ~load.file /\ Respond(load)
           /\ load' = [Rearmed EXCEPT !.state = "Idle"] /\ taken' = taken
  <2>1. load' \in Loads /\ load'.state = "Idle" /\ load'.response = load.response
    BY <1>2, FiredIs, NamedStates DEF Alike, Loads
  <2>2. /\ reqs' \in [Cells -> Cgis] /\ wild' \in BOOLEAN
        /\ \A c \in Cells : reqs'[c] \notin {"load", "file"}
        /\ wild' \/ ctsTimer \/ lost
    <3>1. CASE "closed" \in excuses
      BY <1>2, <3>1 DEF Respond, IInv, RestTyped, Going, ClosedIsGone, Waits
    <3>2. CASE "closed" \notin excuses
      <4>1. /\ load.connData \in Cells /\ reqs[load.connData] = "reset" /\ (ctsTimer \/ lost)
            /\ reqs' = [reqs EXCEPT ![load.connData] = "answered"] /\ wild' = wild
        BY <1>0, <1>2, <3>2 DEF Respond, IInv, Going, ResetOnly
      <4>2. \A c \in Cells : reqs[c] \in {"load", "file"} => load.connData = c
        BY DEF IInv, Going, Served
      <4>3. \A c \in Cells : reqs'[c] \notin {"load", "file"}
        BY <4>1, <4>2, LoadIs
      <4> QED
        BY <4>1, <4>3, LoadIs, TakenIs DEF Cgis
    <3> QED
      BY <3>1, <3>2
  <2>3. LoadTyped' /\ RestTyped' /\ Steadied(button')
    BY <1>0, <1>2, <2>1, <2>2 DEF IInv, LoadTyped, RestTyped
  <2>4. Served' /\ ClosedIsGone' /\ ResetOnly' /\ ButtonComesBack'
    BY <1>0, <2>1, <2>2 DEF Served, ClosedIsGone, ResetOnly, ButtonComesBack, Waits
  <2>5. SerialLineReturned' /\ TimerPending' /\ NoMoreThanAsked' /\ FileIsThere' /\ Encoded'
    BY <1>0, <1>2, <2>1, TakenIs
       DEF SerialLineReturned, TimerPending, NoMoreThanAsked, FileIsThere, Encoded, Receiving
  <2>6. OneEncoding'
    BY <1>0 DEF IInv, Going, OneEncoding
  <2> QED
    BY <2>3, <2>4, <2>5, <2>6 DEF IInv, Going
<1> QED
  BY <1>1, <1>2 DEF TimerReset

LEMMA HandshakeTimerInv == ASSUME IInv, ~wild, TimerTxHandshake PROVE IInv'
<1> DEFINE d == [Rearmed EXCEPT !.state = "RxHandshakeStart", !.received = 0,
                                !.remaining = HandshakeSize]
<1>1. load.state = "TxHandshake"
      /\ UNCHANGED <<taken, reqs, ctsTimer, button, excuses, modes, lost, wild>>
  BY DEF TimerTxHandshake, LoadOnly
<1>2. load' = d
  BY FiredIs DEF TimerTxHandshake, ploadInitiateHandshake, Alike, Loads
<1>3. HandshakeSize \in Nat
  BY LoaderAssumption
<1>4. d \in Loads
  BY <1>3, FiredIs, NamedStates DEF Alike, Loads
<1>5. /\ d.state = "RxHandshakeStart" /\ d.timer /\ d.response = load.response /\ d.received = 0
      /\ d.remaining = HandshakeSize
      /\ d.connData = load.connData /\ d.callback = load.callback /\ d.mode = load.mode
  BY FiredIs DEF Alike, Loads
<1> HIDE DEF d
<1>6. d.received + d.remaining <= HandshakeSize
      /\ wild' \in BOOLEAN /\ taken' = TRUE
  BY <1>1, <1>3, <1>5, LoadIs, TakenIs
<1> QED
  BY <1>1, <1>2, <1>4, <1>5, <1>6, ContinueInv

LEMMA ContinueTimerInv == ASSUME IInv, ~wild, TimerLoadContinue PROVE IInv'
<1>0. load.state = "LoadContinue"
  BY DEF TimerLoadContinue
<1>1. CASE Segment(Fired) /\ taken' = taken
  BY <1>0, <1>1, FiredIs, SegmentInv
<1>2. CASE /\ load' = Fired
           /\ excuses' = (IF load.file THEN excuses \cup {"read"} ELSE excuses)
           /\ UNCHANGED <<taken, reqs, ctsTimer, button, modes, lost, wild>>
  <2>1. load.file \/ "closed" \in excuses
    BY <1>0 DEF IInv, Going, FileIsThere
  <2>2. excuses' \cap {"closed", "read"} # {} /\ excuses \subseteq excuses'
        /\ excuses' \subseteq excuses \cup {"read"}
    BY <1>2, <2>1
  <2>3. Fired.state \notin Receiving \cup {"Idle", "Reset"} /\ taken' = TRUE /\ wild' \in BOOLEAN
    BY <1>0, <1>2, FiredIs, TakenIs, NamedStates
  <2>4. Fired.file \/ "closed" \in excuses
    BY <2>1, FiredIs
  <2> QED
    BY <1>0, <1>2, <2>2, <2>3, <2>4, FiredIs, LoadIs, ContinueInv DEF Alike
<1> QED
  BY <1>1, <1>2 DEF TimerLoadContinue

LEMMA ChecksumTimerInv == ASSUME IInv, ~wild, TimerVerifyChecksum PROVE IInv'
<1>0. load.state = "VerifyChecksum"
  BY DEF TimerVerifyChecksum
<1>1. CASE /\ load.retries > 0 /\ load' = [Rearmed EXCEPT !.retries = @ - 1] /\ LoadOnly
  <2> DEFINE k == load.retries - 1
             d == [Rearmed EXCEPT !.retries = k]
  <2>1. load.retries \in Nat
    BY LoadIs DEF Loads
  <2>2. k \in Nat
    BY <1>1, <2>1
  <2>3. load' = d
    BY <1>1, FiredIs DEF Alike, Loads
  <2> HIDE DEF k
  <2>4. d \in Loads
    BY <2>2, FiredIs DEF Alike, Loads
  <2>5. /\ d.state = "VerifyChecksum" /\ d.timer /\ d.response = load.response
        /\ d.connData = load.connData /\ d.callback = load.callback /\ d.mode = load.mode
    BY <1>0, FiredIs DEF Alike, Loads
  <2> HIDE DEF d
  <2>6. d.state \notin Receiving /\ wild' \in BOOLEAN /\ taken' = TRUE
    BY <1>0, <1>1, <2>5, LoadIs, TakenIs, NamedStates DEF LoadOnly
  <2> QED
    BY <1>0, <1>1, <2>3, <2>4, <2>5, <2>6, ContinueInv DEF LoadOnly
<1>2. CASE abortLoading(Fired)
  BY <1>0, <1>2, FiredIs, AbortInv
<1> QED
  BY <1>1, <1>2 DEF TimerVerifyChecksum

LEMMA TimerInv == ASSUME IInv, timerCallback PROVE IInv'
<1>0. ~wild
  BY DEF timerCallback
<1>1. CASE TimerTimeout
  BY <1>0, <1>1, FiredIs, AbortInv, NamedStates DEF TimerTimeout
<1> QED
  BY <1>0, <1>1, IdleTimerInv, ResetTimerInv, HandshakeTimerInv, ContinueTimerInv,
     ChecksumTimerInv DEF timerCallback

LEMMA ReceivedIs ==
  ASSUME IInv, NEW n \in 1..BufferSize + 1
  PROVE  /\ Alike(Received(n)) /\ Received(n).timer = load.timer
         /\ Received(n).received + Received(n).remaining = load.received + load.remaining
         /\ Received(n).file = load.file
         /\ Received(n).state = IF load.state = "RxHandshakeStart" THEN "RxHandshake"
                                ELSE load.state
<1> DEFINE t == Taken(n)
           s == IF load.state = "RxHandshakeStart" THEN "RxHandshake" ELSE load.state
           r == load.received + t
           m == load.remaining - t
           d == [load EXCEPT !.received = r, !.remaining = m, !.state = s]
<1>1. load \in Loads /\ BufferSize \in Nat
  BY LoadIs
<1>2. load.received \in Nat /\ load.remaining \in Nat /\ s \in States
  BY <1>1, NamedStates DEF Loads
<1>3. r \in Nat /\ m \in Nat /\ r + m = load.received + load.remaining
  BY <1>1, <1>2 DEF Taken
<1>4. Received(n) = d
  BY <1>1 DEF Received, Loads
<1> HIDE DEF s, r, m
<1>5. d \in Loads
  BY <1>1, <1>2, <1>3 DEF Loads
<1>6. /\ d.received = r /\ d.remaining = m /\ d.state = s /\ d.timer = load.timer
      /\ d.response = load.response /\ d.connData = load.connData
      /\ d.callback = load.callback /\ d.mode = load.mode /\ d.file = load.file
  BY <1>1 DEF Loads
<1> QED
  BY <1>3, <1>4, <1>5, <1>6 DEF Alike, s

LEMMA PartInv == ASSUME IInv, ~wild, NEW n \in 1..BufferSize + 1, ReadPart(n) PROVE IInv'
<1>1. load.state \in Receiving /\ load' = Received(n)
      /\ UNCHANGED <<taken, reqs, ctsTimer, button, excuses, modes, lost, wild>>
  BY DEF ReadPart, LoadOnly
<1>2. load.received + load.remaining <= IF load.state = "StartAck" THEN load.response ELSE HandshakeSize
  BY <1>1 DEF IInv, Going, NoMoreThanAsked
<1>3. Received(n).state \notin {"Idle", "Reset", "LoadContinue"} /\ load.state \notin {"Idle", "Reset"}
  BY <1>1, ReceivedIs, NamedStates
<1>4. wild' \in BOOLEAN /\ taken' = TRUE
  BY <1>1, <1>3, ReceivedIs, LoadIs, TakenIs DEF Alike
<1> HIDE DEF Received
<1> QED
  BY <1>1, <1>2, <1>3, <1>4, ReceivedIs, ContinueInv DEF Alike

LEMMA ChecksumInv == ASSUME IInv, ~wild, NEW good \in BOOLEAN, ReadChecksum(good) PROVE IInv'
<1>0. load.state = "VerifyChecksum"
  BY DEF ReadChecksum
<1>1. CASE /\ load' = [load EXCEPT !.state = "StartAck", !.remaining = load.response,
                                   !.received = 0, !.timer = TRUE]
           /\ LoadOnly
  <2> DEFINE d == [load EXCEPT !.state = "StartAck", !.remaining = load.response,
                               !.received = 0, !.timer = TRUE]
  <2>1. load \in Loads /\ load.response \in Nat
    BY LoadIs DEF Loads
  <2>2. d \in Loads
    BY <2>1, NamedStates DEF Loads
  <2>3. /\ d.state = "StartAck" /\ d.timer /\ d.response = load.response /\ d.received = 0
        /\ d.remaining = load.response
        /\ d.connData = load.connData /\ d.callback = load.callback /\ d.mode = load.mode
    BY <2>1 DEF Loads
  <2>4. load' = d
    BY <1>1
  <2> HIDE DEF d
  <2>5. d.received + d.remaining <= d.response /\ wild' \in BOOLEAN /\ taken' = TRUE
    BY <1>0, <1>1, <2>1, <2>3, LoadIs, TakenIs DEF LoadOnly
  <2> QED
    BY <1>0, <1>1, <2>1, <2>2, <2>3, <2>4, <2>5, ContinueInv DEF LoadOnly
<1>2. CASE finishLoading(load) \/ abortLoading(load)
  BY <1>0, <1>2, LoadIs, AbortInv DEF Alike
<1> QED
  BY <1>1, <1>2 DEF ReadChecksum

LEMMA ReadInv == ASSUME IInv, readCallback PROVE IInv'
<1> SUFFICES ASSUME NEW n \in 1..BufferSize + 1, NEW good \in BOOLEAN, ~wild,
                    \/ ReadPart(n) \/ ReadHandshake(n, good) \/ ReadResponse(n)
                    \/ ReadChecksum(good)
                    \/ /\ Overrun(n) /\ wild' = TRUE
                       /\ UNCHANGED <<load, taken, reqs, ctsTimer, button, excuses, modes, lost>>
             PROVE  IInv'
  BY DEF readCallback
<1>1. CASE ReadHandshake(n, good)
  <2>1. load.state \notin {"Idle", "Reset"} /\ Alike(Received(n))
    BY <1>1, ReceivedIs DEF ReadHandshake
  <2>2. CASE Segment(Received(n)) /\ taken' = taken
    BY <2>1, <2>2, SegmentInv
  <2>3. CASE abortLoading(Received(n))
    BY <2>1, <2>3, AbortInv
  <2> QED
    BY <1>1, <2>2, <2>3 DEF ReadHandshake
<1>2. CASE ReadResponse(n)
  BY <1>2, ReceivedIs, AbortInv DEF ReadResponse
<1>3. CASE /\ Overrun(n) /\ wild' = TRUE
           /\ UNCHANGED <<load, taken, reqs, ctsTimer, button, excuses, modes, lost>>
  BY <1>3 DEF IInv, LoadTyped, RestTyped, Going, Served, SerialLineReturned, TimerPending,
              NoMoreThanAsked, ClosedIsGone, FileIsThere, ResetOnly, ButtonComesBack, Encoded,
              OneEncoding, Waits
<1> QED
  BY <1>1, <1>2, <1>3, PartInv, ChecksumInv

-----------------------------------------------------------------------------
(* The results. *)

LEMMA InitInv == ASSUME Init PROVE IInv
<1>1. NoLoad \in Loads /\ NoLoad.state = "Idle" /\ NoLoad.response = 0
  BY NamedStates DEF NoLoad, Loads, Modes
<1>2. /\ load \in Loads /\ load.response = 0
      /\ load.state = "Idle" \/ (load.state = "Reset" /\ load.timer /\ load.file)
  <2>0. load = NoLoad \/ \E n \in FileSizes : load = FileLoad(NoLoad, n)
    BY Zenon DEF Init
  <2>1. CASE load = NoLoad
    BY <1>1, <2>1
  <2>2. ASSUME NEW n \in FileSizes, load = FileLoad(NoLoad, n)
        PROVE  load \in Loads /\ load.response = 0 /\ load.state = "Reset" /\ load.timer /\ load.file
    BY <1>1, <2>2, FileLoadIs
  <2> QED
    BY <2>0, <2>1, <2>2, Zenon
<1>3. Released \in Buttons /\ Released.previous = 1
  BY ButtonAssumption DEF Released, Buttons, Levels
<1>4. LoadTyped /\ RestTyped /\ Steadied(button)
  <2>1. LoadTyped
    BY <1>2, LoaderAssumption DEF LoadTyped
  <2>2. RestTyped
    BY Zenon DEF Init, RestTyped, Cgis
  <2>3. Steadied(button)
    BY <1>3 DEF Init, Steadied
  <2> QED
    BY <2>1, <2>2, <2>3
<1>5. Served /\ ClosedIsGone /\ ResetOnly /\ ButtonComesBack
  BY <1>2 DEF Init, Served, ClosedIsGone, ResetOnly, ButtonComesBack
<1>6. SerialLineReturned /\ TimerPending /\ NoMoreThanAsked /\ FileIsThere /\ Encoded
  BY <1>2 DEF Init, SerialLineReturned, TimerPending, NoMoreThanAsked, FileIsThere, Encoded,
              Receiving
<1>7. OneEncoding
  BY FewModes DEF Init, OneEncoding
<1> QED
  BY <1>4, <1>5, <1>6, <1>7 DEF IInv, Going

LEMMA StepInv == IInv /\ [Next]_vars => IInv'
<1> SUFFICES ASSUME IInv, [Next]_vars PROVE IInv'
  OBVIOUS
<1>1. CASE UNCHANGED vars
  BY <1>1 DEF vars, IInv, LoadTyped, RestTyped, Going, Served, SerialLineReturned, TimerPending,
              NoMoreThanAsked, ClosedIsGone, FileIsThere, ResetOnly, ButtonComesBack, Encoded,
              OneEncoding, Waits
<1>2. CASE Next
  BY <1>2, LoadRequestInv, FileRequestInv, ResetRequestInv, CloseInv, RunCommandInv, ButtonInv,
     TimerInv, ReadInv DEF Next
<1> QED
  BY <1>1, <1>2

(* The strengthened invariant of the loader holds in every state of every           *)
(* behaviour: requests, commands, button, timer and UART each keep it.              *)
THEOREM Kept == Spec => []IInv
BY InitInv, StepInv, PTL DEF Spec

\* The variables have their types.
THEOREM LoaderTyped == Spec => []TypeOK
<1>1. IInv => TypeOK
  BY DEF IInv, LoadTyped, RestTyped, Steadied, TypeOK, Cgis
<1> QED
  BY <1>1, Kept, PTL

\* The request that waits for its load is the one the load in progress will answer.
THEOREM RequestsServed == Spec => []Served
<1>1. IInv => Served
  BY DEF IInv, Going
<1> QED
  BY <1>1, Kept, PTL

\* The serial line is the loader's exactly while it loads.
THEOREM LineReturned == Spec => []SerialLineReturned
<1>1. IInv => SerialLineReturned
  BY DEF IInv, Going
<1> QED
  BY <1>1, Kept, PTL

\* A load in progress has its timer armed, unless its client or its file is gone.
THEOREM TimerArmed == Spec => []TimerPending
<1>1. IInv => TimerPending
  BY DEF IInv, Going
<1> QED
  BY <1>1, Kept, PTL

\* The loader takes the bytes of the handshake and then no more than the response its
\* request asked for, which may be more than the buffer holds.
THEOREM AskedOnly == Spec => []NoMoreThanAsked
<1>1. IInv => NoMoreThanAsked
  BY DEF IInv, Going
<1> QED
  BY <1>1, Kept, PTL

\* The button is sampled again once the load it started has ended.
THEOREM ButtonBack == Spec => []ButtonComesBack
<1>1. IInv => ButtonComesBack
  BY DEF IInv, Going
<1> QED
  BY <1>1, Kept, PTL

\* A load is encoded for one chip, unless a refused request changed the mode.
THEOREM OneMode == Spec => []OneEncoding
<1>1. IInv => OneEncoding
  BY DEF IInv, Going
<1> QED
  BY <1>1, Kept, PTL

\* A press counts only once the pin has been down for Threshold + 1 samples.
THEOREM PressSteady == Spec => PressIsSteady
<1>1. IInv /\ [Next]_vars =>
        [button'.presses # button.presses => button'.previous = 0 /\ button'.steady > Threshold]_vars
  <2> SUFFICES ASSUME IInv, Next, button'.presses # button.presses
               PROVE  button'.previous = 0 /\ button'.steady > Threshold
    BY DEF vars
  <2>0. Steadied(button) /\ Levels = {0, 1}
    BY LoadIs DEF Levels
  <2>1. CASE button' = button
    BY <2>1
  <2>2. ASSUME NEW level \in Levels, CtsSample(level) PROVE FALSE
    BY <2>0, <2>2, SampledIs DEF CtsSample
  <2>3. ASSUME NEW late \in BOOLEAN, Turned(button, 0), button' = Press(Turn(button, 0), late)
        PROVE  button'.previous = 0 /\ button'.steady > Threshold
    BY <2>0, <2>3, TurnIs, PressIs
  <2>4. ASSUME NEW level \in Levels, NEW late \in BOOLEAN, CtsTurn(level, late)
        PROVE  button'.previous = 0 /\ button'.steady > Threshold
    <3>1. CASE level = 0
      BY <2>3, <2>4, <3>1 DEF CtsTurn
    <3>2. CASE level # 0
      BY <2>0, <2>4, <3>2, TurnIs DEF CtsTurn
    <3> QED
      BY <3>1, <3>2
  <2>5. ASSUME NEW late \in BOOLEAN, CtsFire(late)
        PROVE  button'.previous = 0 /\ button'.steady > Threshold
    BY <2>3, <2>5 DEF CtsFire
  <2>6. CASE Buttonwork
    BY <2>2, <2>4, <2>5, <2>6 DEF Buttonwork
  <2>7. CASE ~Buttonwork
    <3>1. button' = button
      BY <2>7 DEF Next, cgiPropLoad, cgiPropLoadFile, cgiPropReset, Close, fs_do_frun, Others,
         timerCallback, TimerIdle, TimerReset, TimerTxHandshake, TimerTimeout, TimerLoadContinue,
         TimerVerifyChecksum, Segment, LoadOnly, abortLoading, finishLoading, readCallback,
         ReadPart, ReadHandshake, ReadResponse, ReadChecksum
    <3> QED
      BY <2>1, <3>1
  <2> QED
    BY <2>6, <2>7
<1> QED
  BY <1>1, Kept, PTL DEF Spec, PressIsSteady
=============================================================================
