-------------------------------- MODULE Buzzer --------------------------------
(***************************************************************************)
(* The piezo sounder: the loop starts a beep, the tick interrupt ends it    *)
(* (Hardware/Buzzer.cpp, SysTick_Handler, beep handling in the main loop).  *)
(*                                                                          *)
(* The interrupt comes between any two accesses of Beep to what they share. *)
(***************************************************************************)
EXTENDS Integers

CONSTANTS
    Lengths,        \* received as the length of a beep, as a signed number
    MaxLength,      \* 20 seconds in the code
    TouchLength,    \* length of the beep of a touch
    Modulus         \* 2 ^ 32 in the code

BuzzerAssumption ==
    /\ Lengths \subseteq Int
    /\ MaxLength \in Nat /\ TouchLength \in Nat /\ Modulus \in Nat
    /\ 0 < TouchLength /\ TouchLength <= MaxLength /\ MaxLength < Modulus

VARIABLES
    beepLength,     \* received and not yet handled
    at,             \* how far the loop is in Beep
    ms,             \* the length Beep was called with
    inBuzzer, beepTicksToGo,
    sounding        \* the PWM channel and its pins are enabled

vars == <<beepLength, at, ms, inBuzzer, beepTicksToGo, sounding>>

Init ==
    /\ beepLength = 0
    /\ at = "loop" /\ ms = 0
    /\ inBuzzer = FALSE /\ beepTicksToGo = 0
    /\ sounding = FALSE

(* "beep_length", with a frequency in the range that is played.             *)
Receive ==
    /\ at = "loop"
    /\ beepLength' \in Lengths
    /\ UNCHANGED <<at, ms, inBuzzer, beepTicksToGo, sounding>>

\* Mutant: only zero is refused.
PlayableNot(length) == length # 0

Playable(length) == length # 0 /\ length > 0

Enter(length) ==
    /\ at' = "in"
    /\ ms' = length % Modulus
    /\ inBuzzer' = TRUE

HandleBeep ==
    /\ at = "loop" /\ beepLength # 0
    /\ beepLength' = 0
    /\ \/ /\ Playable(beepLength)
          /\ Enter(IF beepLength > MaxLength THEN MaxLength ELSE beepLength)
       \/ ~Playable(beepLength) /\ UNCHANGED <<at, ms, inBuzzer>>
    /\ UNCHANGED <<beepTicksToGo, sounding>>

(* TouchBeep, and ErrorBeep, which waits for silence.                       *)
TouchBeep ==
    /\ at = "loop"
    /\ Enter(TouchLength)
    /\ UNCHANGED <<beepLength, beepTicksToGo, sounding>>

(* A beep under way is not cut off.                                         *)
Test ==
    /\ at = "in"
    /\ at' = IF beepTicksToGo = 0 THEN "enable" ELSE "leave"
    /\ UNCHANGED <<beepLength, ms, inBuzzer, beepTicksToGo, sounding>>
Enable ==
    /\ at = "enable"
    /\ at' = "count"
    /\ sounding' = TRUE
    /\ UNCHANGED <<beepLength, ms, inBuzzer, beepTicksToGo>>
Count ==
    /\ at = "count"
    /\ at' = "leave"
    /\ beepTicksToGo' = ms
    /\ UNCHANGED <<beepLength, ms, inBuzzer, sounding>>
Leave ==
    /\ at = "leave"
    /\ at' = "loop"
    /\ inBuzzer' = FALSE
    /\ UNCHANGED <<beepLength, ms, beepTicksToGo, sounding>>

Tick ==
    /\ ~inBuzzer /\ beepTicksToGo # 0
    /\ beepTicksToGo' = beepTicksToGo - 1
    /\ sounding' = (sounding /\ beepTicksToGo # 1)
    /\ UNCHANGED <<beepLength, at, ms, inBuzzer>>

Next ==
    \/ Receive \/ HandleBeep \/ TouchBeep
    \/ Test \/ Enable \/ Count \/ Leave
    \/ Tick
Spec == Init /\ [][Next]_vars

-----------------------------------------------------------------------------
(* Outside Beep the sounder is on exactly while ticks are counted, wherever *)
(* the interrupt comes, so that every beep ends, and none is longer than    *)
(* the limit, whatever length was received.                                 *)
BeepEnds ==
    /\ beepTicksToGo <= MaxLength
    /\ at = "loop" => (sounding <=> beepTicksToGo # 0)

=============================================================================
