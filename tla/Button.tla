-------------------------------- MODULE Button --------------------------------
(***************************************************************************)
(* The debouncing of the two buttons (parallax/cgiprop.c,                   *)
(* resetButtonTimerCallback and ctsButtonTimerCallback): a timer samples    *)
(* the pin, a level counts once it has been seen Threshold + 1 times in a   *)
(* row, and presses that follow each other soon enough are counted.         *)
(***************************************************************************)
EXTENDS Integers

CONSTANTS
  Threshold,   \* RESET_BUTTON_THRESHOLD, CTS_BUTTON_THRESHOLD
  PressCount   \* RESET_BUTTON_PRESS_COUNT, CTS_BUTTON_PRESS_COUNT

ASSUME ButtonAssumption == Threshold \in Nat \ {0} /\ PressCount \in Nat \ {0, 1}

Levels == {0, 1}   \* of the pin: a pressed button pulls it down

\* The static variables of the callback; state is resetButtonState or
\* ctsButtonState.  steady is history: for how many samples, up to Threshold + 1,
\* the pin has had the level it has.
Buttons == [previous : Levels, matching : 0..Threshold, state : Levels,
            presses : 0..(PressCount - 1), steady : 0..(Threshold + 1)]

Released == [previous |-> 1, matching |-> 0, state |-> 1, presses |-> 0, steady |-> 0]

\* Mutant of Sampled: the samples that differ from the counted level are counted,
\* not those that equal the one before.
SampledAgainstState(b, level) ==
  [b EXCEPT !.previous = level,
            !.matching = IF level = b.state THEN 0
                         ELSE IF @ < Threshold THEN @ + 1 ELSE @,
            !.steady = IF level # b.previous THEN 1 ELSE IF @ > Threshold THEN @ ELSE @ + 1]

\* One sample.
Sampled(b, level) ==
  [b EXCEPT !.previous = level,
            !.matching = IF level # b.previous THEN 0
                         ELSE IF @ < Threshold THEN @ + 1 ELSE @,
            !.steady = IF level # b.previous THEN 1 ELSE IF @ > Threshold THEN @ ELSE @ + 1]

\* The sample makes the level count, and it is another one than before.
Turned(b, level) ==
  /\ b.matching < Threshold
  /\ Sampled(b, level).matching = Threshold
  /\ level # b.state

Turn(b, level) == [Sampled(b, level) EXCEPT !.state = level]

\* The presses counted with this one; late: the one before is more than
\* BUTTON_PRESS_DELTA ago.
Counted(b, late) == IF b.presses = 0 \/ late THEN 1 ELSE b.presses + 1

\* It is the last one of a series.
Fires(b, late) == Counted(b, late) = PressCount

\* A counted press.
Press(b, late) == [b EXCEPT !.presses = IF Fires(b, late) THEN 0 ELSE Counted(b, late)]
===============================================================================
