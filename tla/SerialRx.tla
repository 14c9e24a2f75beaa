------------------------------ MODULE SerialRx ------------------------------
(***************************************************************************)
(* The receive path of SerialIo.cpp below the JSON parser: the UART        *)
(* interrupt stores characters in a ring buffer, the main loop takes them  *)
(* out in CheckInput.  The interrupt runs between any two accesses of the  *)
(* main loop.                                                              *)
(*                                                                         *)
(* The host sends lines of LineLen characters, the last of which is the    *)
(* newline.  The UART may report an error with a character (it is garbage, *)
(* or the one before it was overrun) or without one.  A character carries  *)
(* its place in the host's output and whether it was reported with an      *)
(* error; the firmware sees neither.                                       *)
(***************************************************************************)
EXTENDS Naturals

CONSTANTS
    BufSize,    \* rxBufsize (8192 in the firmware)
    LineLen,    \* length of a line, newline included
    MaxLine,    \* bound: number of lines the host sends
    MaxErrors   \* bound: number of errors the UART reports

ASSUME RxAssumption ==
    /\ BufSize \in Nat /\ BufSize >= 2
    /\ LineLen \in Nat /\ LineLen >= 2
    /\ MaxLine \in Nat \ {0}
    /\ MaxErrors \in Nat

Slots == 0 .. BufSize - 1

Char == [line : 0 .. MaxLine, pos : 1 .. LineLen, good : BOOLEAN]

IsNewline(c) == c.pos = LineLen

VARIABLES
    rxBuffer,
    nextIn,     \* slot the interrupt writes next
    nextOut,    \* slot the main loop reads next
    inError,    \* dropping characters up to the next newline
    pc,         \* where CheckInput is
    c           \* its local copy of the character

rxVars == <<rxBuffer, nextIn, nextOut, inError>>

VARIABLES
    line, pos,  \* the character the host sends next
    errors      \* errors reported so far

lineVars == <<line, pos, errors>>

VARIABLES       \* history, read by the properties only
    parsed,     \* the character last handed to the parser
    faults,     \* places at which a character was lost or reported bad
    seen,       \* good characters handed to the parser since a newline
    whole       \* lines the parser has been handed whole

ghostVars == <<parsed, faults, seen, whole>>

vars == <<rxBuffer, nextIn, nextOut, inError, pc, c, line, pos, errors,
          parsed, faults, seen, whole>>

TypeOK ==
    /\ rxBuffer \in [Slots -> Char]
    /\ nextIn \in Slots
    /\ nextOut \in Slots
    /\ inError \in BOOLEAN
    /\ pc \in {"test", "fetch", "advance"}
    /\ c \in Char
    /\ line \in 1 .. MaxLine + 1
    /\ pos \in 1 .. LineLen
    /\ errors \in Nat
    /\ parsed \in Char
    /\ faults \subseteq (1 .. MaxLine) \X (1 .. LineLen)
    /\ seen \in Nat
    /\ whole \subseteq 0 .. MaxLine

Newline == [line |-> 0, pos |-> LineLen, good |-> TRUE]

\* The panel may be switched on while the host is sending the first line.
Init ==
    /\ rxBuffer = [i \in Slots |-> Newline]
    /\ nextIn = 0
    /\ nextOut = 0
    /\ inError = FALSE
    /\ pc = "test"
    /\ c = Newline
    /\ line = 1
    /\ pos \in 1 .. LineLen - 1
    /\ errors = 0
    /\ parsed = IF pos = 1 THEN Newline
                ELSE [line |-> 1, pos |-> pos - 1, good |-> TRUE]
    /\ faults = {}
    /\ seen = 0
    /\ whole = {}

-----------------------------------------------------------------------------
(* The interrupt.                                                          *)

\* Mutant: the index wraps one slot too late.
IncTooFar(i) == IF i = BufSize THEN 0 ELSE i + 1

\* (i + 1) % rxBufsize
Inc(i) == IF i = BufSize - 1 THEN 0 ELSE i + 1

\* Mutant: the interrupt fills the last free slot too.
FullNever == FALSE

Full == Inc(nextIn) = nextOut

\* Mutant: a full buffer drops the character but not the rest of the line.
UART_HandlerGap(ch, error) ==
    IF (inError /\ ~IsNewline(ch)) \/ Full
    THEN /\ inError' = (error \/ (inError /\ ~IsNewline(ch)))
         /\ UNCHANGED <<rxBuffer, nextIn>>
    ELSE /\ rxBuffer' = [rxBuffer EXCEPT ![nextIn] = ch]
         /\ nextIn' = Inc(nextIn)
         /\ inError' = error

\* Mutant: while in error the newline is dropped with the rest of the line.
UART_HandlerDeaf(ch, error) ==
    IF inError \/ Full
    THEN /\ inError' = TRUE
         /\ UNCHANGED <<rxBuffer, nextIn>>
    ELSE /\ rxBuffer' = [rxBuffer EXCEPT ![nextIn] = ch]
         /\ nextIn' = Inc(nextIn)
         /\ inError' = error

\* receiveChar, and receiveError after it when the status has an error bit.
UART_Handler(ch, error) ==
    IF (inError /\ ~IsNewline(ch)) \/ Full
    THEN /\ inError' = TRUE
         /\ UNCHANGED <<rxBuffer, nextIn>>
    ELSE /\ rxBuffer' = [rxBuffer EXCEPT ![nextIn] = ch]
         /\ nextIn' = Inc(nextIn)
         /\ inError' = error

\* The place after place <<l, p>>.
After(l, p) == IF p < LineLen THEN <<l, p + 1>> ELSE <<l + 1, 1>>

\* A character is received as it was sent.
ReceiveGood ==
    /\ line <= MaxLine
    /\ UART_Handler([line |-> line, pos |-> pos, good |-> TRUE], FALSE)
    /\ faults' = faults \cup IF Full THEN {<<line, pos>>} ELSE {}
    /\ line' = After(line, pos)[1] /\ pos' = After(line, pos)[2]
    /\ UNCHANGED <<nextOut, pc, c, errors, parsed, seen, whole>>

\* A framing error: some other character arrives, a newline perhaps.
ReceiveGarbage ==
    /\ line <= MaxLine
    /\ errors < MaxErrors
    /\ errors' = errors + 1
    /\ \E p \in {1, LineLen} :
          UART_Handler([line |-> 0, pos |-> p, good |-> FALSE], TRUE)
    /\ faults' = faults \cup {<<line, pos>>}
    /\ line' = After(line, pos)[1] /\ pos' = After(line, pos)[2]
    /\ UNCHANGED <<nextOut, pc, c, parsed, seen, whole>>

\* An overrun: a character is lost and the one after it, at place <<l, p>>, is
\* received.
ReceiveOverrun ==
    /\ errors < MaxErrors
    /\ errors' = errors + 1
    /\ \E l \in 1 .. MaxLine, p \in 1 .. LineLen :
          /\ l = After(line, pos)[1] /\ p = After(line, pos)[2]
          /\ UART_Handler([line |-> l, pos |-> p, good |-> FALSE], TRUE)
          /\ faults' = faults \cup {<<line, pos>>, <<l, p>>}
          /\ line' = After(l, p)[1] /\ pos' = After(l, p)[2]
    /\ UNCHANGED <<nextOut, pc, c, parsed, seen, whole>>

\* An error without a character.
ReceiveError ==
    /\ line <= MaxLine
    /\ errors < MaxErrors
    /\ errors' = errors + 1
    /\ inError' = TRUE
    /\ faults' = faults \cup {<<line, pos>>}
    /\ UNCHANGED <<rxBuffer, nextIn, nextOut, pc, c, line, pos, parsed, seen,
                   whole>>

-----------------------------------------------------------------------------
(* The main loop: CheckInput.                                              *)

\* while (nextIn != nextOut)
Test ==
    /\ pc = "test"
    /\ nextIn # nextOut
    /\ pc' = "fetch"
    /\ UNCHANGED <<rxVars, c, lineVars, ghostVars>>

\* char c = rxBuffer[nextOut]
Fetch ==
    /\ pc = "fetch"
    /\ c' = rxBuffer[nextOut]
    /\ pc' = "advance"
    /\ UNCHANGED <<rxVars, lineVars, ghostVars>>

\* nextOut moves on and the parser gets the character.
Advance ==
    /\ pc = "advance"
    /\ nextOut' = Inc(nextOut)
    /\ pc' = "test"
    /\ parsed' = c
    /\ seen' = IF IsNewline(c) THEN 0 ELSE seen + 1
    /\ whole' = whole \cup
                IF c.good /\ IsNewline(c) /\ seen = LineLen - 1
                THEN {c.line} ELSE {}
    /\ UNCHANGED <<rxBuffer, nextIn, inError, c, lineVars, faults>>

-----------------------------------------------------------------------------

Next ==
    \/ ReceiveGood
    \/ ReceiveGarbage
    \/ ReceiveOverrun
    \/ ReceiveError
    \/ Test
    \/ Fetch
    \/ Advance

Spec == Init /\ [][Next]_vars

-----------------------------------------------------------------------------
(* Properties.                                                             *)

\* Character b may come directly after a: in the same line, or at its end, or
\* as the one character that came with an error, or as a line's first.
Follows(a, b) ==
    \/ IsNewline(b)
    \/ /\ a.good
       /\ \/ ~b.good
          \/ IsNewline(a) /\ b.pos = 1
          \/ ~IsNewline(a) /\ b.line = a.line /\ b.pos = a.pos + 1

\* What the parser is handed between two newlines is the beginning of one
\* line, with at most one wrong character, at its end: characters of two
\* lines are never spliced into one message, whatever is lost or garbled and
\* however full the buffer is ("we wait for the next end-of-line").
NoSplice == [][pc = "advance" /\ pc' = "test" => Follows(parsed, parsed')]_vars

\* The characters a buffer holds from slot out up to slot in, in order.
Count(in, out) == IF in >= out THEN in - out ELSE in + BufSize - out

SlotAt(out, k) ==
    IF out + k <= BufSize THEN out + k - 1 ELSE out + k - 1 - BufSize

Contents(buffer, in, out) ==
    [k \in 1 .. Count(in, out) |-> buffer[SlotAt(out, k)]]

\* The loop is handed exactly what the interrupt stored, in order: the slot it
\* reads is not overwritten, and never read before it is written.
RingIsQueue == INSTANCE CharQueue WITH
    Item     <- Char,
    Capacity <- BufSize - 1,
    queue    <- Contents(rxBuffer, nextIn, nextOut),
    taken    <- parsed

FifoSpec == RingIsQueue!Spec

\* A line is disturbed by a fault in it, or at the newline before it.
Disturbed(l) ==
    \E f \in faults : f[1] = l \/ f = <<l - 1, LineLen>>

\* An error costs no more than the line it happens in, or the next one when it
\* happens at its newline: once the loop has caught up, every line without
\* such a fault has been handed to the parser whole.
Resynchronizes ==
    nextIn = nextOut /\ pc = "test" =>
        \A l \in 2 .. line - 1 : Disturbed(l) \/ l \in whole
=============================================================================
