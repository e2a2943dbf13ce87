------------------------------ MODULE PropLoader ------------------------------
(***************************************************************************)
(* The Propeller loader (parallax/cgiprop.c, parallax/proploader.c).  HTTP  *)
(* requests, the command FRUN and the CTS button start loads; a timer and   *)
(* the bytes that come from the Propeller drive the one there is.  Every    *)
(* callback is one step.  The bytes of images and of handshakes are counts, *)
(* and time is left out: an armed timer fires at some later step.           *)
(***************************************************************************)
EXTENDS Button, FiniteSets

CONSTANTS
  Cells,          \* addresses a HttpdConnData may have
  None,           \* the null pointer
  FileSizes,      \* sizes of the files, the empty one included
  SegmentOf,      \* st_load_segment_max_size: of each P2LoaderMode
  HandshakeSize,  \* bytes of the answer to the handshake
  BufferSize,     \* sizeof connection->buffer
  ResponseSizes,  \* values of the parameter response-size, which nobody checks
  Retries         \* retriesRemaining after finishLoad; 25 or more in the code

Modes == {"ddoff", "dragdrop"}

ASSUME LoaderAssumption ==
  /\ None \notin Cells
  /\ FileSizes \subseteq Nat
  /\ SegmentOf \in [Modes -> Nat \ {0}]
  /\ HandshakeSize \in Nat \ {0} /\ BufferSize \in Nat /\ HandshakeSize <= BufferSize
  /\ ResponseSizes \subseteq Nat
  /\ Retries \in Nat

VARIABLES
  load,       \* myConnection
  taken,      \* programmingCB is set: the loader takes the bytes of the UART
  reqs,       \* for each cell: free, answered, or the CGI that waits in it
  ctsTimer,   \* the sampling timer of the CTS button is armed
  button,     \* the CTS button
  excuses,    \* history: what befell the load in progress
  modes,      \* history: the modes in which its segments were encoded
  lost,       \* history: a load the button asked for did not start
  wild        \* memory has been used that was freed, or lies behind the buffer

vars == <<load, taken, reqs, ctsTimer, button, excuses, modes, lost, wild>>

States == {"Idle", "Reset", "TxHandshake", "RxHandshakeStart", "RxHandshake",
           "LoadContinue", "VerifyChecksum", "StartAck"}
Receiving == {"RxHandshakeStart", "RxHandshake", "StartAck"}
Waiting == {"load", "file", "reset"}

\* image is the request whose POST buffer holds the image; left is imageSize, of
\* which a file's segments have been taken away.
Loads == [state : States, timer : BOOLEAN, image : Cells \cup {None}, file : BOOLEAN,
          left : Nat, mode : Modes, received : Nat, remaining : Nat, response : Nat,
          retries : Nat, connData : Cells \cup {None}, callback : {"none", "wifi", "plain"}]

NoLoad == [state |-> "Idle", timer |-> FALSE, image |-> None, file |-> FALSE, left |-> 0,
           mode |-> "ddoff", received |-> 0, remaining |-> 0, response |-> 0,
           retries |-> 0, connData |-> None, callback |-> "none"]

\* The baud rates, sscp_enable and the reset pin are left out.
startLoading(l) == [l EXCEPT !.state = "Reset", !.timer = TRUE]

\* loadFile, of a file there is
FileLoad(l, n) == startLoading([l EXCEPT !.file = TRUE, !.image = None, !.left = n,
                                         !.response = 0, !.callback = "plain"])

\* cgiPropInit: with a pin pulled down it loads a file.
Init ==
  /\ load \in {NoLoad} \cup {FileLoad(NoLoad, n) : n \in FileSizes}
  /\ taken = FALSE
  /\ reqs = [c \in Cells |-> "free"]
  /\ ctsTimer = TRUE
  /\ button = Released
  /\ excuses = {} /\ modes = {} /\ lost = FALSE /\ wild = FALSE

-----------------------------------------------------------------------------
(* Starting and ending a load. *)

Begin(l) ==
  /\ load' = l
  /\ excuses' = {} /\ modes' = {}

\* Mutant of RearmCts: the button is not sampled again.
RearmCtsNot == UNCHANGED <<ctsTimer, lost>>

\* What wifiLoadCompletionCB and loadCompletionCB end with.
RearmCts == ctsTimer' = TRUE /\ lost' = FALSE

\* httpdSendResponse to connection->connData, which may be gone.
Respond(l) ==
  IF "closed" \in excuses
    THEN wild' = TRUE /\ UNCHANGED reqs
    ELSE reqs' = [reqs EXCEPT ![l.connData] = "answered"] /\ UNCHANGED wild

Complete(l) ==
  /\ RearmCts
  /\ IF l.callback = "wifi" THEN Respond(l) ELSE UNCHANGED <<reqs, wild>>

\* abortLoading: the file stays open, the timer armed.
abortLoading(l) ==
  /\ Complete(l)
  /\ load' = [l EXCEPT !.state = "Idle"]
  /\ taken' = FALSE
  /\ UNCHANGED <<button, excuses, modes>>

\* Mutant of finishLoading: the callback is not called.
finishLoadingQuiet(l) ==
  /\ load' = [l EXCEPT !.state = "Idle"]
  /\ taken' = FALSE
  /\ UNCHANGED <<reqs, wild, ctsTimer, lost, button, excuses, modes>>

\* finishLoading
finishLoading(l) ==
  /\ Complete(l)
  /\ load' = [l EXCEPT !.state = "Idle"]
  /\ taken' = FALSE
  /\ UNCHANGED <<button, excuses, modes>>

-----------------------------------------------------------------------------
(* HTTP requests. *)

\* A request is answered at once: a load is in progress, loads are not allowed
\* (IsAutoLoadEnabled), or an argument or the data is missing or too large.
Refuse(c) == reqs' = [reqs EXCEPT ![c] = "answered"]

Others == UNCHANGED <<taken, ctsTimer, button, lost, wild>>

\* Mutant of cgiPropLoad: the mode is set before the loader is known to be idle.
cgiPropLoadModeFirst(c) ==
  /\ ~wild /\ reqs[c] = "free"
  /\ \/ /\ Refuse(c)
        /\ load' = [load EXCEPT !.mode = "ddoff"]
        /\ UNCHANGED <<excuses, modes>>
     \/ /\ load.state = "Idle"
        /\ \E n \in ResponseSizes :
             Begin([startLoading(load) EXCEPT !.connData = c, !.image = c, !.mode = "ddoff",
                                !.response = n, !.callback = "wifi"])
        /\ reqs' = [reqs EXCEPT ![c] = "load"]
  /\ Others

\* cgiPropLoad: the file is forgotten only if a response is wanted.
cgiPropLoad(c) ==
  /\ ~wild /\ reqs[c] = "free"
  /\ \/ /\ Refuse(c)
        /\ UNCHANGED <<load, excuses, modes>>
     \/ /\ load.state = "Idle"
        /\ \E n \in ResponseSizes :
             Begin([startLoading(load) EXCEPT !.connData = c, !.image = c, !.mode = "ddoff",
                                !.response = n, !.callback = "wifi",
                                !.file = IF n > 0 THEN FALSE ELSE @])
        /\ reqs' = [reqs EXCEPT ![c] = "load"]
  /\ Others

\* cgiPropLoadP1File and cgiPropLoadP2File set the mode whatever becomes of the
\* request, then cgiPropLoadFile looks at the state.
cgiPropLoadFile(c, m) ==
  LET l == [load EXCEPT !.mode = m] IN
  /\ ~wild /\ reqs[c] = "free"
  /\ \/ /\ Refuse(c)                                   \* busy, or not allowed
        /\ load' = l
        /\ excuses' = IF l = load THEN excuses ELSE excuses \cup {"mode"}
        /\ UNCHANGED modes
     \/ /\ load.state = "Idle"                         \* no such file, or no name
        /\ Refuse(c)
        /\ \E file \in {FALSE, load.file} : load' = [l EXCEPT !.connData = c, !.file = file]
        /\ UNCHANGED <<excuses, modes>>
     \/ /\ load.state = "Idle"
        /\ \E n \in FileSizes :
             Begin([startLoading(l) EXCEPT !.connData = c, !.file = TRUE, !.image = None, !.left = n,
                             !.callback = "wifi"])
        /\ reqs' = [reqs EXCEPT ![c] = "file"]
  /\ Others

\* cgiPropReset: takes the state of a load, and with a file left over becomes one.
cgiPropReset(c) ==
  /\ ~wild /\ reqs[c] = "free"
  /\ \/ /\ Refuse(c)
        /\ UNCHANGED <<load, excuses, modes>>
     \/ /\ load.state = "Idle"
        /\ Begin([startLoading(load) EXCEPT !.connData = c, !.image = None])
        /\ reqs' = [reqs EXCEPT ![c] = "reset"]
  /\ Others

\* The socket of a request closes: httpdRetireConn makes the cleanup call if the
\* CGI still waits, and frees the cell with its POST buffer.
Close(c) ==
  /\ ~wild /\ reqs[c] # "free"
  /\ reqs' = [reqs EXCEPT ![c] = "free"]
  /\ load' = IF reqs[c] = "file" THEN [load EXCEPT !.file = FALSE] ELSE load
  /\ excuses' = IF reqs[c] \in Waiting /\ load.connData = c THEN excuses \cup {"closed"} ELSE excuses
  /\ UNCHANGED <<taken, ctsTimer, button, modes, lost, wild>>

-----------------------------------------------------------------------------
(* The commands and the button. *)

\* loadFile finds the file: FRUN, the CTS button, and the load at boot.
loadFile(n) ==
  /\ load.state = "Idle"
  /\ Begin(FileLoad(load, n))

\* FRUN; that the loader is busy changes nothing.
fs_do_frun ==
  /\ ~wild
  /\ \/ /\ \E n \in FileSizes : loadFile(n)
     \/ /\ load.state = "Idle"                         \* lsFileNotFound
        /\ load' = [load EXCEPT !.file = FALSE]
        /\ UNCHANGED <<excuses, modes>>
  /\ UNCHANGED <<taken, reqs, ctsTimer, button, lost, wild>>

\* ctsButtonTimerCallback: a sample that changes nothing but its counters.
CtsSample(level) ==
  /\ ~wild /\ ctsTimer
  /\ ~Turned(button, level)
  /\ button' = Sampled(button, level)
  /\ UNCHANGED <<load, taken, reqs, ctsTimer, excuses, modes, lost, wild>>

\* ctsButtonTimerCallback: a press or a release counts.
CtsTurn(level, late) ==
  LET b == Turn(button, level) IN
  /\ ~wild /\ ctsTimer
  /\ Turned(button, level)
  /\ ~(level = 0 /\ Fires(b, late))
  /\ button' = IF level = 0 THEN Press(b, late) ELSE b
  /\ UNCHANGED <<load, taken, reqs, ctsTimer, excuses, modes, lost, wild>>

\* ctsButtonTimerCallback: the last press of a series.  The sampling stops until a
\* load completes; none will if the file is missing or if what keeps the loader
\* busy is a reset.
CtsFire(late) ==
  LET b == Turn(button, 0) IN
  /\ ~wild /\ ctsTimer
  /\ Turned(button, 0) /\ Fires(b, late)
  /\ button' = Press(b, late)
  /\ ctsTimer' = FALSE
  /\ \/ \E n \in FileSizes : loadFile(n) /\ UNCHANGED lost
     \/ /\ load.state = "Idle"
        /\ load' = [load EXCEPT !.file = FALSE]
        /\ lost' = TRUE
        /\ UNCHANGED <<excuses, modes>>
     \/ /\ load.state # "Idle"
        /\ lost' = \E c \in Cells : reqs[c] = "reset"
        /\ UNCHANGED <<load, excuses, modes>>
  /\ UNCHANGED <<taken, reqs, wild>>

-----------------------------------------------------------------------------
(* The timer and the serial line. *)

\* finishLoad
finishLoad(l) == [l EXCEPT !.retries = Retries]

\* encodeFile: the next segment; a file without a byte left is finished.
encodeFile(l) == [l EXCEPT !.left = IF @ <= SegmentOf[l.mode] THEN 0 ELSE @ - SegmentOf[l.mode]]

\* ploadLoadImageContinue: sends the image, or the next segment of the file, which
\* is closed behind the last one.
ploadLoadImageContinue(l) ==
  LET sent == IF l.image # None THEN [l EXCEPT !.image = None] ELSE encodeFile(l)
      closed == IF l.image # None THEN sent ELSE [sent EXCEPT !.file = FALSE]
  IN IF l.image # None \/ encodeFile(l).left = 0
       THEN [finishLoad(closed) EXCEPT !.timer = TRUE, !.state = "VerifyChecksum"]
       ELSE [sent EXCEPT !.timer = TRUE, !.state = "LoadContinue"]

\* encodeBuffer, for the chip of the mode; an empty file has nothing to encode.
encodeBuffer(l) == modes' = IF l.image # None \/ l.left > 0 THEN modes \cup {l.mode} ELSE modes

\* The image is in the POST buffer of a request that is gone.
ImageFreed(l) == l.image # None /\ "closed" \in excuses

\* ploadLoadImage, and ploadLoadImageContinue for what is left.
Segment(l) ==
  /\ l.image # None \/ l.file
  /\ wild' = (wild \/ ImageFreed(l))
  /\ load' = ploadLoadImageContinue(l)
  /\ encodeBuffer(l)
  /\ UNCHANGED <<reqs, ctsTimer, button, excuses, lost>>

\* roffs_read fails, or there is neither image nor file.
ReadFails(l) == l.image = None /\ (l.file => l.left > 0)

\* timerCallback: Fired is the load without the timer that brought it.
Fired == [load EXCEPT !.timer = FALSE]
Rearmed == [load EXCEPT !.timer = TRUE]
LoadOnly == UNCHANGED <<taken, reqs, ctsTimer, button, excuses, modes, lost, wild>>

TimerIdle ==
  /\ load.state = "Idle"
  /\ load' = Fired
  /\ LoadOnly

TimerReset ==
  /\ load.state = "Reset"
  /\ \/ /\ load.image # None \/ load.file
        /\ load' = [Rearmed EXCEPT !.state = "TxHandshake"]
        /\ taken' = TRUE
        /\ UNCHANGED <<reqs, wild>>
     \/ /\ load.image = None /\ ~load.file
        /\ Respond(load)
        /\ load' = [Rearmed EXCEPT !.state = "Idle"]
        /\ UNCHANGED taken
  /\ UNCHANGED <<ctsTimer, button, excuses, modes, lost>>

ploadInitiateHandshake(l) == [l EXCEPT !.received = 0, !.remaining = HandshakeSize]

TimerTxHandshake ==
  /\ load.state = "TxHandshake"
  /\ load' = ploadInitiateHandshake([Rearmed EXCEPT !.state = "RxHandshakeStart"])
  /\ LoadOnly

TimerTimeout ==
  /\ load.state \in Receiving
  /\ abortLoading(Fired)

\* An error here is not looked at: the state stays, and the timer is not armed.
TimerLoadContinue ==
  /\ load.state = "LoadContinue"
  /\ \/ Segment(Fired) /\ UNCHANGED taken
     \/ /\ ReadFails(load)
        /\ load' = Fired
        /\ excuses' = IF load.file THEN excuses \cup {"read"} ELSE excuses
        /\ UNCHANGED <<taken, reqs, ctsTimer, button, modes, lost, wild>>

\* Mutant of TimerVerifyChecksum: the retries are not counted.
TimerVerifyChecksumEndless ==
  /\ load.state = "VerifyChecksum" /\ load.retries > 0
  /\ load' = Rearmed
  /\ LoadOnly

TimerVerifyChecksum ==
  /\ load.state = "VerifyChecksum"
  /\ \/ /\ load.retries > 0
        /\ load' = [Rearmed EXCEPT !.retries = @ - 1]
        /\ LoadOnly
     \/ /\ load.retries = 0
        /\ abortLoading(Fired)

timerCallback ==
  /\ ~wild /\ load.timer
  /\ \/ TimerIdle \/ TimerReset \/ TimerTxHandshake \/ TimerTimeout
     \/ TimerLoadContinue \/ TimerVerifyChecksum

\* readCallback: n bytes for the handshake or for the response.  Each first byte is
\* taken for the start of the handshake, since the test of line 732 is never false.
Taken(n) == IF n > load.remaining THEN load.remaining ELSE n
Received(n) ==
  [load EXCEPT !.received = @ + Taken(n), !.remaining = @ - Taken(n),
               !.state = IF @ = "RxHandshakeStart" THEN "RxHandshake" ELSE @]

\* The bytes go over bytesReceived and what else is behind the buffer.
Overrun(n) == load.state \in Receiving /\ load.received + Taken(n) > BufferSize

ReadPart(n) ==
  /\ load.state \in Receiving
  /\ Received(n).remaining # 0
  /\ load' = Received(n)
  /\ LoadOnly

\* The answer to the handshake is complete; good: it is the one of a Propeller of
\* this version.
ReadHandshake(n, good) ==
  LET l == Received(n) IN
  /\ load.state \in {"RxHandshakeStart", "RxHandshake"}
  /\ l.remaining = 0
  /\ \/ good /\ Segment(l) /\ UNCHANGED taken
     \/ (good => ReadFails(l)) /\ abortLoading(l)

ReadResponse(n) ==
  /\ load.state = "StartAck"
  /\ Received(n).remaining = 0
  /\ finishLoading(Received(n))

\* Mutant of ReadChecksum: the response is put behind the handshake.
ReadChecksumAppends(good) ==
  /\ load.state = "VerifyChecksum"
  /\ \/ /\ good /\ load.response > 0
        /\ load' = [load EXCEPT !.state = "StartAck", !.remaining = load.response,
                                !.timer = TRUE]
        /\ LoadOnly
     \/ good /\ load.response = 0 /\ finishLoading(load)
     \/ ~good /\ abortLoading(load)

\* One byte says whether the checksum is right.
ReadChecksum(good) ==
  /\ load.state = "VerifyChecksum"
  /\ \/ /\ good /\ load.response > 0
        /\ load' = [load EXCEPT !.state = "StartAck", !.remaining = load.response,
                                !.received = 0, !.timer = TRUE]
        /\ LoadOnly
     \/ good /\ load.response = 0 /\ finishLoading(load)
     \/ ~good /\ abortLoading(load)

readCallback ==
  /\ ~wild /\ taken
  /\ \E n \in 1..BufferSize + 1, good \in BOOLEAN :
       \/ /\ ~Overrun(n)
          /\ \/ ReadPart(n)
             \/ ReadHandshake(n, good)
             \/ ReadResponse(n)
             \/ ReadChecksum(good)
       \/ /\ Overrun(n)
          /\ wild' = TRUE
          /\ UNCHANGED <<load, taken, reqs, ctsTimer, button, excuses, modes, lost>>

-----------------------------------------------------------------------------
Buttonwork ==
  \/ \E level \in Levels : CtsSample(level)
  \/ \E level \in Levels, late \in BOOLEAN : CtsTurn(level, late)
  \/ \E late \in BOOLEAN : CtsFire(late)

Next ==
  \/ \E c \in Cells : cgiPropLoad(c) \/ cgiPropReset(c) \/ Close(c)
  \/ \E c \in Cells, m \in Modes : cgiPropLoadFile(c, m)
  \/ fs_do_frun \/ Buttonwork
  \/ timerCallback \/ readCallback

Spec == Init /\ [][Next]_vars
FairSpec == Spec /\ WF_vars(timerCallback)

-----------------------------------------------------------------------------
(* Properties. *)

\* The variables have their types.
TypeOK ==
  /\ load \in Loads /\ taken \in BOOLEAN /\ ctsTimer \in BOOLEAN
  /\ reqs \in [Cells -> {"free", "answered"} \cup Waiting]
  /\ button \in Buttons
  /\ excuses \subseteq {"closed", "mode", "read"} /\ modes \subseteq Modes
  /\ lost \in BOOLEAN /\ wild \in BOOLEAN

\* A request for a load that waits for its answer is the one whose load is in
\* progress: an answer cannot be forgotten, nor go to a request that came later.
Served ==
  \A c \in Cells : reqs[c] \in {"load", "file"} =>
    /\ load.state # "Idle" /\ load.connData = c /\ load.callback = "wifi"

\* The serial line belongs to the loader exactly while a load is past its reset.
SerialLineReturned == taken <=> load.state \notin {"Idle", "Reset"}

\* A load in progress has its timer armed, so that it ends, unless its client went
\* away or the flash failed between two segments (timerCallback, stLoadContinue).
TimerPending == load.state = "Idle" \/ load.timer \/ excuses \cap {"closed", "read"} # {}

\* What the loader takes of the Propeller's bytes are the handshake, which fits in its
\* buffer, and then no more than the response its request asked for: so only a request
\* for more than the buffer holds can overrun it (ploadInitiateHandshake, readCallback).
NoMoreThanAsked ==
  load.state \in Receiving =>
    load.received + load.remaining <= IF load.state = "StartAck" THEN load.response
                                      ELSE HandshakeSize

\* All segments of a load are encoded for the same chip, unless a request for the
\* other one was refused in the meantime.
OneEncoding == Cardinality(modes) <= 1 \/ "mode" \in excuses

\* The button is sampled again after each load it may have started, unless there
\* was none.
ButtonComesBack == wild \/ ctsTimer \/ load.state # "Idle" \/ lost

\* A press counts only after Threshold + 1 samples that show it.
PressIsSteady ==
  [][button'.presses # button.presses => button'.previous = 0 /\ button'.steady > Threshold]_vars

\* Every load ends, if its client stays and the flash can be read.
LoadEnds ==
  (load.state # "Idle") ~> (load.state = "Idle" \/ wild \/ excuses \cap {"closed", "read"} # {})
===============================================================================
