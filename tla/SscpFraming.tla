----------------------------- MODULE SscpFraming -----------------------------
(***************************************************************************)
(* What the SSCP filter promises of the bytes the microcontroller sends:   *)
(* each is text for whoever listens to the serial line, or part of a       *)
(* command, or one of the payload bytes a command asked for.  A command    *)
(* starts only while none is being processed and a payload is exactly as   *)
(* long as was asked, except that a payload of no bytes has no end: all    *)
(* that follows is taken for it until a reset.  How the bytes are cut into *)
(* chunks does not matter.                                                 *)
(***************************************************************************)
EXTENDS Naturals

CONSTANT PayloadLens   \* payload lengths a command may ask for

VARIABLES
  mode,   \* where the next byte goes
  busy,   \* a command is being processed
  text,   \* text bytes so far
  need    \* payload bytes still to come

vars == <<mode, busy, text, need>>

Init ==
  /\ mode = "text"
  /\ busy = FALSE
  /\ text = 0
  /\ need = 0

\* One or, when a chunk is passed on as it is, several bytes of text.
Text ==
  /\ text' \in Nat
  /\ text' > text
  /\ UNCHANGED <<mode, busy, need>>

Begin ==
  /\ mode = "text"
  /\ ~busy
  /\ mode' = "command"
  /\ UNCHANGED <<busy, text, need>>

\* The command is complete and answered at once or later.
Finish ==
  /\ mode = "command"
  /\ ~busy
  /\ busy' \in BOOLEAN
  /\ mode' = "text"
  /\ UNCHANGED <<text, need>>

\* The command is complete and takes a payload.
Ask(n) ==
  /\ mode = "command"
  /\ ~busy
  /\ busy' = TRUE
  /\ need' = n
  /\ mode' = "payload"
  /\ text' = text

\* The command is too long: the byte that did not fit is text.
Abandon(n) ==
  /\ mode = "command"
  /\ mode' = "text"
  /\ text' = text + n
  /\ UNCHANGED <<busy, need>>

Take ==
  /\ mode = "payload"
  /\ need > 0
  /\ need' = need - 1
  /\ mode' = IF need = 1 THEN "text" ELSE "payload"
  /\ \/ UNCHANGED busy
     \/ need = 1 /\ busy' = FALSE
  /\ text' = text

\* A reply or an event went out.
Answer ==
  /\ busy' = FALSE
  /\ UNCHANGED <<mode, text, need>>

Reset ==
  /\ mode' = "text"
  /\ busy' = FALSE
  /\ need' = 0
  /\ text' = text

Next ==
  \/ Text
  \/ Begin
  \/ Finish
  \/ \E n \in PayloadLens : Ask(n)
  \/ \E n \in 0..1 : Abandon(n)
  \/ Take
  \/ Answer
  \/ Reset

Spec == Init /\ [][Next]_vars
=============================================================================
