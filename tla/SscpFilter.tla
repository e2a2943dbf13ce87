----------------------------- MODULE SscpFilter -----------------------------
(***************************************************************************)
(* sscp_filter (parallax/sscp.c), the parser between the UART and the SSCP *)
(* commands.  The UART hands it chunks of bytes; one step below is one     *)
(* iteration of its loop.  A byte is its class, chosen when it is read.    *)
(* The pointers of the loop are kept as distances: window is p - start,    *)
(* len the loop's counter and left the bytes of the chunk beyond p, which  *)
(* is len unless an iteration moved p twice.                               *)
(***************************************************************************)
EXTENDS Integers

CONSTANTS
  Max,          \* SSCP_BUFFER_MAX
  NameLens,     \* lengths of the names the one-byte tokens stand for
  PayloadLens,  \* lengths a handler passes to sscp_capturePayload
  ChunkMax,     \* bytes in a chunk, at most
  SentMax       \* bytes the microcontroller sends, at most

ASSUME FilterAssumption ==
  /\ Max \in Nat
  /\ NameLens \subseteq Nat
  /\ PayloadLens \subseteq Nat
  /\ ChunkMax \in Nat
  /\ SentMax \in Nat

\* Mutant of Slack: room for the digits of an 8-bit number only.
SlackShort == 4

Slack == 16      \* spare room behind the buffer for the digits of a number

\* Classes of bytes; "int8" to "int32" are the numeric tokens, "name" the others.
Bytes == {"start", "cr", "char", "name", "int8", "int16", "int32"}
IntTokens == {"int8", "int16", "int32"}
Width(b) == IF b = "int8" THEN 1 ELSE IF b = "int16" THEN 2 ELSE 4
\* Characters of the longest number os_sprintf prints for a token of a width.
Digits(w) == IF w = 1 THEN 4 ELSE IF w = 2 THEN 6 ELSE 11

VARIABLES
  sscp_enable, sscp_state, sscp_processing,
  separator,    \* sscp_separator # -1
  length,       \* sscp_length
  collect,      \* sscp_collect, data bytes of a number still to come
  width,        \* data bytes of that number (sscp_token)
  remaining,    \* sscp_payload_remaining
  captured,     \* bytes written through sscp_payload
  asked,        \* sscp_payload_length
  filtering,    \* inside sscp_filter
  len, left, window,
  reach,        \* history: highest index of sscp_buffer written
  sent,         \* history: bytes received from the UART
  oob,          \* history: bytes passed to outOfBand
  eaten,        \* history: bytes used up by commands
  paid,         \* history: payload bytes
  garbled       \* history: p was moved twice in one iteration

parser == <<sscp_enable, sscp_state, sscp_processing, separator, length, collect, width>>
payload == <<remaining, captured, asked>>
history == <<reach, sent, oob, eaten, paid, garbled>>
vars == <<parser, payload, filtering, len, left, window, history>>

States == {"IDLE", "PARSING", "COLLECTING", "PAYLOAD"}

Init ==
  /\ sscp_enable \in BOOLEAN
  /\ sscp_state = "IDLE"
  /\ sscp_processing = FALSE
  /\ separator = FALSE
  /\ length = 0 /\ collect = 0 /\ width = 0
  /\ remaining = 0 /\ captured = 0 /\ asked = 0
  /\ filtering = FALSE
  /\ len = 0 /\ left = 0 /\ window = 0
  /\ reach = 0 /\ sent = 0 /\ oob = 0 /\ eaten = 0 /\ paid = 0
  /\ garbled = FALSE

Higher(i) == IF i > reach THEN i ELSE reach

-----------------------------------------------------------------------------
(* Around the loop. *)

\* The UART task calls the filter with a chunk.
Recv(n) ==
  /\ ~filtering
  /\ sent + n <= SentMax
  /\ sent' = sent + n
  /\ IF sscp_enable
       THEN /\ filtering' = TRUE
            /\ len' = n /\ left' = n /\ window' = 0
            /\ oob' = oob
       ELSE /\ oob' = oob + n
            /\ UNCHANGED <<filtering, len, left, window>>
  /\ UNCHANGED <<parser, payload, reach, eaten, paid, garbled>>

\* The end of the loop: what was read outside of a command is passed on.
EndChunk ==
  /\ filtering /\ len = 0
  /\ filtering' = FALSE
  /\ left' = 0 /\ window' = 0
  /\ oob' = IF sscp_state = "IDLE" THEN oob + window ELSE oob
  /\ UNCHANGED <<parser, payload, len, reach, sent, eaten, paid, garbled>>

\* One iteration that moves p over k bytes and leaves window' = w.
Iterate(k, w) ==
  /\ filtering /\ len > 0
  /\ len' = len - 1
  /\ left' = left - k
  /\ window' = w
  /\ garbled' = IF k > 1 THEN TRUE ELSE garbled
  /\ UNCHANGED <<filtering, sscp_enable, sent>>

-----------------------------------------------------------------------------
(* STATE_IDLE *)

\* Mutant of IdleStart: the text in front of the command is not passed on.
IdleStartDropsText ==
  /\ sscp_state = "IDLE" /\ ~sscp_processing
  /\ Iterate(1, 0)
  /\ sscp_state' = "PARSING"
  /\ separator' = FALSE
  /\ length' = 0
  /\ oob' = oob
  /\ eaten' = eaten + 1
  /\ UNCHANGED <<sscp_processing, collect, width, payload, reach, paid>>

IdleStart ==
  /\ sscp_state = "IDLE" /\ ~sscp_processing
  /\ Iterate(1, 0)
  /\ sscp_state' = "PARSING"
  /\ separator' = FALSE
  /\ length' = 0
  /\ oob' = oob + window
  /\ eaten' = eaten + 1
  /\ UNCHANGED <<sscp_processing, collect, width, payload, reach, paid>>

\* Other bytes, and a start byte while a command is being processed.
IdleOther(b) ==
  /\ sscp_state = "IDLE"
  /\ b # "start" \/ sscp_processing
  /\ Iterate(1, window + 1)
  /\ UNCHANGED <<sscp_state, sscp_processing, separator, length, collect, width,
                 payload, reach, oob, eaten, paid>>

-----------------------------------------------------------------------------
(* STATE_PARSING *)

\* sscp_process: an unknown command is answered at once; a handler answers at
\* once, leaves the answer to a callback, or waits for a payload first.
sscp_process ==
  \/ /\ sscp_processing' \in BOOLEAN
     /\ sscp_state' = "IDLE"
     /\ UNCHANGED payload
  \/ \E n \in PayloadLens :
        /\ sscp_processing' = TRUE
        /\ sscp_state' = "PAYLOAD"
        /\ asked' = n /\ remaining' = n /\ captured' = 0

\* The pending separator fits, or there is none to insert before b.
SeparatorFits(b) == separator /\ b # "cr" => length < Max
\* The length once it is inserted.
Inserted(b) == IF separator /\ b # "cr" THEN length + 1 ELSE length

EndCommand ==
  /\ sscp_state = "PARSING"
  /\ Iterate(1, 0)
  /\ sscp_process
  /\ reach' = Higher(length)
  /\ eaten' = eaten + 1
  /\ UNCHANGED <<separator, length, collect, width, oob, paid>>

IntToken(b) ==
  /\ sscp_state = "PARSING" /\ b \in IntTokens
  /\ SeparatorFits(b)
  /\ Iterate(1, window)
  /\ sscp_state' = "COLLECTING"
  /\ separator' = FALSE
  /\ length' = Inserted(b)
  /\ collect' = Width(b) /\ width' = Width(b)
  /\ reach' = Higher(Inserted(b) - 1)
  /\ eaten' = eaten + 1
  /\ UNCHANGED <<sscp_processing, payload, oob, paid>>

NameToken(k) ==
  /\ sscp_state = "PARSING"
  /\ SeparatorFits("name")
  /\ Inserted("name") + k < Max
  /\ Iterate(1, window)
  /\ length' = Inserted("name") + k
  /\ separator' = TRUE
  /\ reach' = Higher(Inserted("name") + k)
  /\ eaten' = eaten + 1
  /\ UNCHANGED <<sscp_state, sscp_processing, collect, width, payload, oob, paid>>

\* A name that does not fit: the token is dropped and the byte behind it is
\* stepped over as text without being looked at.
NameTooLong(k) ==
  /\ sscp_state = "PARSING"
  /\ SeparatorFits("name")
  /\ Inserted("name") + k >= Max
  /\ Iterate(2, 1)
  /\ sscp_state' = "IDLE"
  /\ separator' = FALSE
  /\ length' = Inserted("name")
  /\ reach' = Higher(Inserted("name") - 1)
  /\ eaten' = eaten + 1
  /\ UNCHANGED <<sscp_processing, collect, width, payload, oob, paid>>

\* An ordinary byte, which a start byte is here as well.
Char(b) ==
  /\ sscp_state = "PARSING" /\ b \in {"char", "start"}
  /\ SeparatorFits(b)
  /\ Inserted(b) < Max
  /\ Iterate(1, window)
  /\ length' = Inserted(b) + 1
  /\ separator' = FALSE
  /\ reach' = Higher(Inserted(b))
  /\ eaten' = eaten + 1
  /\ UNCHANGED <<sscp_state, sscp_processing, collect, width, payload, oob, paid>>

CharTooLong(b) ==
  /\ sscp_state = "PARSING" /\ b \in {"char", "start"}
  /\ SeparatorFits(b)
  /\ Inserted(b) >= Max
  /\ Iterate(1, 1)
  /\ sscp_state' = "IDLE"
  /\ separator' = FALSE
  /\ length' = Inserted(b)
  /\ reach' = Higher(Inserted(b) - 1)
  /\ UNCHANGED <<sscp_processing, collect, width, payload, oob, eaten, paid>>

\* No room for the separator of b: p is moved to the next byte, and that byte is
\* treated as if the command went on.
NoRoom(b) ==
  /\ sscp_state = "PARSING" /\ ~SeparatorFits(b)
  /\ UNCHANGED <<separator, length, oob, paid>>

NoRoomEnd(b) ==
  /\ NoRoom(b)
  /\ Iterate(2, 0)
  /\ sscp_process
  /\ reach' = Higher(length)
  /\ eaten' = eaten + 2
  /\ UNCHANGED <<collect, width>>

NoRoomInt(b, c) ==
  /\ NoRoom(b) /\ c \in IntTokens
  /\ Iterate(2, window)
  /\ sscp_state' = "COLLECTING"
  /\ collect' = Width(c) /\ width' = Width(c)
  /\ eaten' = eaten + 2
  /\ UNCHANGED <<sscp_processing, payload, reach>>

\* The name does not fit either, and the byte behind it is skipped as well.
NoRoomName(b) ==
  /\ NoRoom(b)
  /\ Iterate(3, 1)
  /\ sscp_state' = "IDLE"
  /\ eaten' = eaten + 2
  /\ UNCHANGED <<sscp_processing, collect, width, payload, reach>>

NoRoomChar(b) ==
  /\ NoRoom(b)
  /\ Iterate(2, 1)
  /\ sscp_state' = "IDLE"
  /\ eaten' = eaten + 1
  /\ UNCHANGED <<sscp_processing, collect, width, payload, reach>>

-----------------------------------------------------------------------------
(* STATE_COLLECTING *)

CollectByte ==
  /\ sscp_state = "COLLECTING" /\ length < Max /\ collect > 1
  /\ Iterate(1, window)
  /\ length' = length + 1
  /\ collect' = collect - 1
  /\ reach' = Higher(length)
  /\ eaten' = eaten + 1
  /\ UNCHANGED <<sscp_state, sscp_processing, separator, width, payload, oob, paid>>

\* The last byte of a number: its digits replace its bytes in the buffer, and
\* the command ends where strlen finds it to: behind the digits, or at a NUL
\* byte among the characters in front of them.
CollectLast(end) ==
  /\ sscp_state = "COLLECTING" /\ length < Max /\ collect = 1
  /\ end \in 0..(length - width) \cup (length + 2 - width)..(length + 1 - width + Digits(width))
  /\ Iterate(1, IF end > Max THEN 0 ELSE window)
  /\ length' = end
  /\ collect' = 0
  /\ reach' = Higher(IF length > end THEN length ELSE end)
  /\ sscp_state' = IF end > Max THEN "IDLE" ELSE "PARSING"
  /\ separator' = IF end > Max THEN separator ELSE TRUE
  /\ eaten' = eaten + 1
  /\ UNCHANGED <<sscp_processing, width, payload, oob, paid>>

CollectTooLong ==
  /\ sscp_state = "COLLECTING" /\ length >= Max
  /\ Iterate(1, 1)
  /\ sscp_state' = "IDLE"
  /\ UNCHANGED <<sscp_processing, separator, length, collect, width, payload,
                 reach, oob, eaten, paid>>

-----------------------------------------------------------------------------
(* STATE_PAYLOAD *)

\* Mutant of PayloadByte: one byte too many is taken.
PayloadByteLate ==
  /\ sscp_state = "PAYLOAD"
  /\ Iterate(1, 0)
  /\ captured' = captured + 1
  /\ remaining' = remaining - 1
  /\ paid' = paid + 1
  /\ sscp_state' = IF remaining = 0 THEN "IDLE" ELSE "PAYLOAD"
  /\ \/ UNCHANGED sscp_processing
     \/ remaining = 0 /\ sscp_processing' = FALSE
  /\ UNCHANGED <<separator, length, collect, width, asked, reach, oob, eaten>>

\* The callback behind the last byte answers the command or leaves that to a
\* later callback.  A payload that was to have no bytes has passed its end, and
\* goes on until a break.
PayloadByte ==
  /\ sscp_state = "PAYLOAD"
  /\ Iterate(1, 0)
  /\ captured' = captured + 1
  /\ remaining' = remaining - 1
  /\ paid' = paid + 1
  /\ sscp_state' = IF remaining = 1 THEN "IDLE" ELSE "PAYLOAD"
  /\ \/ UNCHANGED sscp_processing
     \/ remaining = 1 /\ sscp_processing' = FALSE
  /\ UNCHANGED <<separator, length, collect, width, asked, reach, oob, eaten>>

-----------------------------------------------------------------------------
(* Between two chunks. *)

\* A reply from a callback, or an event: sendToMCU ends the processing.
Answer ==
  /\ ~filtering
  /\ sscp_processing' = FALSE
  /\ UNCHANGED <<sscp_enable, sscp_state, separator, length, collect, width,
                 payload, filtering, len, left, window, history>>

\* A break on the UART: sscp_reset, and SSCP is switched on.
Break ==
  /\ ~filtering
  /\ sscp_enable' = TRUE
  /\ sscp_state' = "IDLE"
  /\ sscp_processing' = FALSE
  /\ separator' = FALSE
  /\ length' = 0
  /\ remaining' = 0 /\ asked' = 0 /\ captured' = 0
  /\ UNCHANGED <<collect, width, filtering, len, left, window, history>>

\* A load of the Propeller starts, or a setting is changed, perhaps by a command
\* in the chunk: the filter looks at the switch only when it is called.
SetEnable(on) ==
  /\ sscp_enable' = on
  /\ UNCHANGED <<sscp_state, sscp_processing, separator, length, collect, width,
                 payload, filtering, len, left, window, history>>

Loop ==
  \/ IdleStart
  \/ \E b \in Bytes : IdleOther(b)
  \/ EndCommand
  \/ \E b \in Bytes : IntToken(b)
  \/ \E k \in NameLens : NameToken(k)
  \/ \E k \in NameLens : NameTooLong(k)
  \/ \E b \in Bytes : Char(b)
  \/ \E b \in Bytes : CharTooLong(b)
  \/ \E b \in Bytes : NoRoomEnd(b)
  \/ \E b, c \in Bytes : NoRoomInt(b, c)
  \/ \E b \in Bytes : NoRoomName(b)
  \/ \E b \in Bytes : NoRoomChar(b)
  \/ CollectByte
  \/ \E end \in 0..(Max + Slack) : CollectLast(end)
  \/ CollectTooLong
  \/ PayloadByte

Next ==
  \/ \E n \in 1..ChunkMax : Recv(n)
  \/ EndChunk
  \/ Loop
  \/ Answer
  \/ Break
  \/ \E on \in BOOLEAN : SetEnable(on)

Spec == Init /\ [][Next]_vars

-----------------------------------------------------------------------------
(* Properties. *)

TypeOK ==
  /\ sscp_enable \in BOOLEAN
  /\ sscp_state \in States
  /\ sscp_processing \in BOOLEAN
  /\ separator \in BOOLEAN
  /\ length \in Nat
  /\ collect \in 0..4
  /\ width \in {0, 1, 2, 4}
  /\ remaining \in Int /\ captured \in Nat /\ asked \in Nat
  /\ filtering \in BOOLEAN
  /\ len \in Nat /\ left \in Int /\ window \in Nat
  /\ reach \in Nat /\ sent \in Nat /\ oob \in Nat /\ eaten \in Nat /\ paid \in Nat
  /\ garbled \in BOOLEAN

\* Nothing is written behind sscp_buffer, although a number may take more
\* characters than the bytes it came in (sscp.c:33, "some extra space").
BufferNotOverrun == reach < Max + Slack

\* A command is parsed only while none is being processed.  An event from a
\* callback ends the processing as well (sscp.c:262), so that this does not mean
\* that the command before it has been answered.
CommandsDoNotOverlap == sscp_state \in {"PARSING", "COLLECTING"} => ~sscp_processing

\* A payload takes the bytes that were asked for and no more, so that sscp_payload
\* stays inside the transmit buffer, unless none at all were asked for.
PayloadWithinBuffer ==
  sscp_state = "PAYLOAD" => captured + remaining = asked /\ (asked # 0 => captured < asked)

\* Every byte from the UART goes to exactly one place.
Conserved == sent = oob + window + eaten + paid + left

\* As long as no command ran over the buffer with a token at its end.
ConservedUnlessGarbled == ~garbled => Conserved

\* The strengthening the proofs need: what the buffer holds in each state, and
\* that nothing is left of a chunk between two calls.
BufferInBounds ==
  /\ sscp_state \in {"PARSING", "COLLECTING"} => length <= Max
  /\ sscp_state = "COLLECTING" => collect >= 1 /\ length + collect >= width /\ width # 0
ChunkDone ==
  /\ ~filtering => left = 0 /\ window = 0
  /\ sscp_state # "IDLE" => window = 0
  /\ ~garbled /\ filtering => left = len
IInv ==
  /\ TypeOK
  /\ BufferNotOverrun /\ BufferInBounds
  /\ CommandsDoNotOverlap
  /\ PayloadWithinBuffer
  /\ ChunkDone /\ ConservedUnlessGarbled

\* The filter implements SscpFraming, whatever the chunks.
Mode == IF sscp_state = "IDLE" THEN "text"
        ELSE IF sscp_state = "PAYLOAD" THEN "payload" ELSE "command"
Framing == INSTANCE SscpFraming WITH
  mode <- Mode,
  busy <- sscp_processing,
  text <- oob + (IF sscp_state = "IDLE" THEN window ELSE 0),
  need <- IF sscp_state = "PAYLOAD" /\ remaining > 0 THEN remaining ELSE 0
ImplementsFraming == Framing!Spec
=============================================================================
