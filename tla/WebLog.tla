-------------------------------- MODULE WebLog --------------------------------
(***************************************************************************)
(* The log in memory (esp-link-stuff/log.c) and the page that fetches it    *)
(* piece by piece (html/console.js).  Characters are numbered as they are   *)
(* written, and have a width: 1, 2 with a backslash, 6 as \u000d.           *)
(***************************************************************************)
EXTENDS Integers, Sequences, FiniteSets

CONSTANTS
  BufMax,     \* BUF_MAX
  Widths,     \* of the characters that are written
  HeaderMax,  \* the most the answer has before its text
  BuffLen,    \* the size of buff
  SendRoom,   \* what the headers leave of the send buffer, MAX_SENDBUFF_LEN
  MaxLog      \* a bound: characters written between two starts

\* The header of an answer has room in buff with the end of the answer.  The send buffer is
\* as long as buff, and the headers of the response take at least 6 bytes of it.
ASSUME LogAssumption ==
  /\ BufMax \in Nat \ {0} /\ Widths \subseteq 1..6 /\ HeaderMax \in Nat
  /\ BuffLen \in Nat /\ HeaderMax + 3 <= BuffLen /\ MaxLog \in Nat
  /\ SendRoom \in Nat /\ SendRoom + 6 <= BuffLen

VARIABLES
  log_buf, log_wr, log_rd, log_pos,
  written,    \* history: characters since the start
  textEnd,    \* of the page
  resp,       \* the last answer: [start, len, text, size]
  restarted   \* history: the module has restarted since the page was opened

ring == <<log_buf, log_wr, log_rd, log_pos>>
logVars == <<ring, written, textEnd, resp, restarted>>

NoResp == [start |-> 0, len |-> 0, text |-> <<>>, size |-> 0]

\* logInit
LogInit ==
  /\ log_buf = [i \in 0 .. BufMax - 1 |-> [n |-> 0, width |-> 1]]
  /\ log_wr = 0 /\ log_rd = 0 /\ log_pos = 0
  /\ written = 0 /\ textEnd = 0 /\ resp = NoResp /\ restarted = FALSE

\* Mutant of Eaten: the character goes, its number is not counted.
EatenUncounted(wr) ==
  IF wr = log_rd THEN log_rd' = (log_rd + 1) % BufMax /\ UNCHANGED log_pos
                 ELSE UNCHANGED <<log_rd, log_pos>>

\* The ring is full: the first character goes.
Eaten(wr) ==
  IF wr = log_rd THEN log_rd' = (log_rd + 1) % BufMax /\ log_pos' = log_pos + 1
                 ELSE UNCHANGED <<log_rd, log_pos>>

\* log_write; the timestamps and returns of log_write_char are characters too.
log_write(width) ==
  /\ written < MaxLog
  /\ log_buf' = [log_buf EXCEPT ![log_wr] = [n |-> written, width |-> width]]
  /\ log_wr' = (log_wr + 1) % BufMax
  /\ Eaten(log_wr')
  /\ written' = written + 1
  /\ UNCHANGED <<textEnd, resp, restarted>>

log_len == (log_wr + BufMax - log_rd) % BufMax

\* Where in the ring the page is to go on.
StartAt(n) == IF n < log_pos THEN 0 ELSE IF n >= log_pos + log_len THEN log_len ELSE n - log_pos

\* The characters from there on.
From(start) == [i \in 1 .. log_len - start |-> log_buf[(log_rd + start + i - 1) % BufMax]]

\* The cells of buff the first i of them take, and its length with them.
Cells(s, i) == {c \in (1 .. i) \X (1 .. 6) : c[2] <= s[c[1]].width}
Filled(head, s, i) == head + Cardinality(Cells(s, i))

\* len < 2040, of 2048
Room(size) == size < BuffLen - 8

\* The answer takes k of them.
Taken(head, s, k) ==
  /\ \A i \in 0 .. k - 1 : Room(Filled(head, s, i))
  /\ k = Len(s) \/ ~Room(Filled(head, s, k))

\* ajaxLog, and fetchText on the page: its text goes on behind what the answer announced.
\* httpdSend drops an answer the send buffer has no room for: the body is empty, no JSON,
\* and the page asks again from where it was (retryLoad).
ajaxLog(head) ==
  LET start == StartAt(textEnd)
      s == From(start)
  IN
  /\ \E k \in 0 .. Len(s) :
       /\ Taken(head, s, k)
       /\ LET size == Filled(head, s, k) + 3 IN
          resp' = IF size > SendRoom THEN [NoResp EXCEPT !.size = size]
                  ELSE [start |-> log_pos + start, len |-> log_len - start,
                        text |-> SubSeq(s, 1, k), size |-> size]
  /\ textEnd' = IF resp'.len > 0 THEN resp'.start + resp'.len ELSE textEnd
  /\ UNCHANGED <<ring, written, restarted>>

\* The module restarts; the page goes on.
Restart ==
  /\ log_wr' = 0 /\ log_rd' = 0 /\ log_pos' = 0 /\ written' = 0
  /\ resp' = NoResp /\ restarted' = TRUE
  /\ UNCHANGED <<log_buf, textEnd>>

\* The page is loaded again.
Reload == textEnd' = 0 /\ resp' = NoResp /\ restarted' = FALSE /\ UNCHANGED <<ring, written>>

LogNext ==
  \/ \E w \in Widths : log_write(w)
  \/ \E head \in 0 .. HeaderMax : ajaxLog(head)
  \/ Restart \/ Reload

LogSpec == LogInit /\ [][LogNext]_logVars

\* The page gets each character under its own number, and goes on where it stopped, or
\* with the oldest one when what it wants is gone.  Nothing is written behind buff, and an
\* answer that comes is whole: one that buff has no room for, and that is cut, has none in
\* the send buffer.  A page from before a restart is not meant: it waits until the new log
\* is as long as the old one was.
TextInPlace ==
  /\ resp.size <= BuffLen
  /\ \A i \in 1 .. Len(resp.text) : resp.text[i].n = resp.start + i - 1
  /\ Len(resp.text) = resp.len
  /\ ~restarted => textEnd <= written
===============================================================================
