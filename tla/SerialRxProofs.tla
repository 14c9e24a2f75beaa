--------------------------- MODULE SerialRxProofs ---------------------------
(***************************************************************************)
(* Proofs about SerialRx for a buffer and lines of any length: type        *)
(* correctness, that characters of two lines are never spliced, that an    *)
(* error costs one line at most, and that the ring buffer implements a     *)
(* bounded queue.                                                          *)
(***************************************************************************)
EXTENDS SerialRx, Sequences, SequenceTheorems, TLAPS

-----------------------------------------------------------------------------
(* Type correctness.                                                       *)

\* The newline that stands for an empty past is a character.
LEMMA NewlineType == Newline \in Char
BY RxAssumption DEF Newline, Char

\* The next slot is a slot.
LEMMA IncType == \A i \in Slots : Inc(i) \in Slots
BY RxAssumption DEF Inc, Slots

\* The place after a place within the host's lines.
LEMMA AfterType ==
    ASSUME NEW l \in 1 .. MaxLine, NEW p \in 1 .. LineLen
    PROVE  /\ After(l, p)[1] \in 1 .. MaxLine + 1
           /\ After(l, p)[2] \in 1 .. LineLen
           /\ p < LineLen => After(l, p)[1] = l /\ After(l, p)[2] = p + 1
           /\ p = LineLen => After(l, p)[1] = l + 1 /\ After(l, p)[2] = 1
<1>1. CASE p < LineLen
  BY <1>1, RxAssumption DEF After
<1>2. CASE p = LineLen
  BY <1>2, RxAssumption DEF After
<1> QED
  BY <1>1, <1>2, RxAssumption

\* The interrupt keeps the types of what it writes.
LEMMA HandlerType ==
    ASSUME TypeOK, NEW ch \in Char, NEW error \in BOOLEAN,
           UART_Handler(ch, error)
    PROVE  /\ rxBuffer' \in [Slots -> Char]
           /\ nextIn' \in Slots
           /\ inError' \in BOOLEAN
BY IncType DEF TypeOK, UART_Handler

\* Every step preserves the types.
LEMMA StepType == TypeOK /\ [Next]_vars => TypeOK'
<1> SUFFICES ASSUME TypeOK, [Next]_vars PROVE TypeOK'
  OBVIOUS
<1> USE RxAssumption
<1>0. line \in 1 .. MaxLine + 1 /\ pos \in 1 .. LineLen
  BY DEF TypeOK
<1>1. CASE ReceiveGood
  <2>1. line \in 1 .. MaxLine
    BY <1>0, <1>1 DEF ReceiveGood
  <2>2. line' \in 1 .. MaxLine + 1 /\ pos' \in 1 .. LineLen
    BY <1>0, <1>1, <2>1, AfterType DEF ReceiveGood
  <2>3. [line |-> line, pos |-> pos, good |-> TRUE] \in Char
    BY <1>0, <2>1 DEF Char
  <2>4. /\ rxBuffer' \in [Slots -> Char] /\ nextIn' \in Slots
        /\ inError' \in BOOLEAN
    BY <1>1, <2>3, HandlerType DEF ReceiveGood
  <2>5. faults' \subseteq (1 .. MaxLine) \X (1 .. LineLen)
    BY <1>0, <1>1, <2>1 DEF TypeOK, ReceiveGood
  <2> QED
    BY <1>1, <2>2, <2>4, <2>5 DEF ReceiveGood, TypeOK
<1>2. CASE ReceiveGarbage
  <2>1. line \in 1 .. MaxLine
    BY <1>0, <1>2 DEF ReceiveGarbage
  <2>2. line' \in 1 .. MaxLine + 1 /\ pos' \in 1 .. LineLen
    BY <1>0, <1>2, <2>1, AfterType DEF ReceiveGarbage
  <2>3. PICK p \in {1, LineLen} :
           UART_Handler([line |-> 0, pos |-> p, good |-> FALSE], TRUE)
    BY <1>2 DEF ReceiveGarbage
  <2>4. [line |-> 0, pos |-> p, good |-> FALSE] \in Char
    BY DEF Char
  <2>5. /\ rxBuffer' \in [Slots -> Char] /\ nextIn' \in Slots
        /\ inError' \in BOOLEAN
    BY <2>3, <2>4, HandlerType
  <2>6. faults' \subseteq (1 .. MaxLine) \X (1 .. LineLen)
    BY <1>0, <1>2, <2>1 DEF TypeOK, ReceiveGarbage
  <2> QED
    BY <1>2, <2>2, <2>5, <2>6 DEF ReceiveGarbage, TypeOK
<1>3. CASE ReceiveOverrun
  <2>1. PICK l \in 1 .. MaxLine, p \in 1 .. LineLen :
           /\ l = After(line, pos)[1] /\ p = After(line, pos)[2]
           /\ UART_Handler([line |-> l, pos |-> p, good |-> FALSE], TRUE)
           /\ faults' = faults \cup {<<line, pos>>, <<l, p>>}
           /\ line' = After(l, p)[1] /\ pos' = After(l, p)[2]
    BY <1>3 DEF ReceiveOverrun
  <2>2. line' \in 1 .. MaxLine + 1 /\ pos' \in 1 .. LineLen
    BY <2>1, AfterType
  <2>3. line \in 1 .. MaxLine
    <3>1. l = line \/ l = line + 1
      BY <2>1 DEF After
    <3> QED
      BY <1>0, <3>1
  <2>4. [line |-> l, pos |-> p, good |-> FALSE] \in Char
    BY DEF Char
  <2>5. /\ rxBuffer' \in [Slots -> Char] /\ nextIn' \in Slots
        /\ inError' \in BOOLEAN
    BY <2>1, <2>4, HandlerType
  <2>6. faults' \subseteq (1 .. MaxLine) \X (1 .. LineLen)
    BY <1>0, <2>1, <2>3 DEF TypeOK
  <2> QED
    BY <1>3, <2>2, <2>5, <2>6 DEF ReceiveOverrun, TypeOK
<1>4. CASE ReceiveError
  <2>1. faults' \subseteq (1 .. MaxLine) \X (1 .. LineLen)
    BY <1>4 DEF TypeOK, ReceiveError
  <2> QED
    BY <1>4, <2>1 DEF ReceiveError, TypeOK
<1>5. CASE Test
  BY <1>5 DEF Test, TypeOK, rxVars, lineVars, ghostVars
<1>6. CASE Fetch
  BY <1>6 DEF Fetch, TypeOK, rxVars, lineVars, ghostVars
<1>7. CASE Advance
  <2>1. nextOut' \in Slots
    BY <1>7, IncType DEF Advance, TypeOK
  <2>2. seen' \in Nat
    BY <1>7 DEF Advance, TypeOK
  <2>3. c.line \in 0 .. MaxLine
    BY DEF TypeOK, Char
  <2>4. whole' \subseteq 0 .. MaxLine
    BY <1>7, <2>3 DEF Advance, TypeOK
  <2> QED
    BY <1>7, <2>1, <2>2, <2>4 DEF Advance, TypeOK, lineVars
<1>8. CASE UNCHANGED vars
  BY <1>8 DEF vars, TypeOK
<1> QED
  BY <1>1, <1>2, <1>3, <1>4, <1>5, <1>6, <1>7, <1>8 DEF Next

\* The initial state is well typed.
LEMMA InitType == Init => TypeOK
<1> SUFFICES ASSUME Init PROVE TypeOK
  OBVIOUS
<1>1. parsed \in Char
  BY NewlineType, RxAssumption DEF Init, Char
<1>2. 0 \in Slots
  BY RxAssumption DEF Slots
<1>3. rxBuffer \in [Slots -> Char] /\ c \in Char
  BY NewlineType DEF Init
<1>4. line \in 1 .. MaxLine + 1 /\ pos \in 1 .. LineLen
  BY RxAssumption DEF Init
<1> QED
  BY <1>1, <1>2, <1>3, <1>4 DEF Init, TypeOK

\* Both indices of the receive buffer stay within it, whatever arrives.
THEOREM TypeCorrect == Spec => []TypeOK
BY InitType, StepType, PTL DEF Spec

-----------------------------------------------------------------------------
(* No splice.                                                              *)

\* How far slot i is from the one the loop reads next, and whether it holds a
\* character.
Dist(i) == IF i >= nextOut THEN i - nextOut ELSE i + BufSize - nextOut

Occupied(i) == Dist(i) < Dist(nextIn)

\* The loop only reads a slot that holds a character, and has read it.
Reading ==
    /\ pc \in {"fetch", "advance"} => nextIn # nextOut
    /\ pc = "advance" => c = rxBuffer[nextOut]

\* The characters in the buffer follow one another, and the one handed over.
Chained ==
    /\ nextIn # nextOut => Follows(parsed, rxBuffer[nextOut])
    /\ \A i \in Slots : Occupied(i) /\ Inc(i) # nextIn =>
          Follows(rxBuffer[i], rxBuffer[Inc(i)])

\* Character ch is the one the host sent last.
JustSent(ch) ==
    /\ ch.good
    /\ IsNewline(ch) => pos = 1
    /\ ~IsNewline(ch) => line = ch.line /\ pos = ch.pos + 1

\* Unless it is dropping characters, the interrupt stored the last one sent.
Current ==
    ~inError =>
        /\ nextIn = nextOut => JustSent(parsed)
        /\ \A i \in Slots : nextIn # nextOut /\ Inc(i) = nextIn =>
              JustSent(rxBuffer[i])

SpliceInv == TypeOK /\ Reading /\ Chained /\ Current

\* The interrupt stores or drops a character without breaking the chain,
\* provided that the character follows the last one stored: it does when
\* nothing is being dropped or when it is a newline.
LEMMA StoreChained ==
    ASSUME SpliceInv, NEW ch \in Char, NEW error \in BOOLEAN,
           UART_Handler(ch, error), UNCHANGED <<nextOut, pc, c, parsed>>,
           TypeOK',
           \A a \in Char : JustSent(a) => Follows(a, ch)
    PROVE  /\ Reading' /\ Chained'
           /\ ~inError' => /\ nextIn' # nextOut
                           /\ ~error
                           /\ \A i \in Slots : Inc(i) = nextIn' =>
                                 rxBuffer'[i] = ch
<1> USE RxAssumption
<1>1. /\ rxBuffer \in [Slots -> Char]
      /\ nextIn \in Slots /\ nextOut \in Slots /\ parsed \in Char
  BY DEF SpliceInv, TypeOK
<1>2. CASE (inError /\ ~IsNewline(ch)) \/ Full
  <2>1. inError' = TRUE /\ UNCHANGED <<rxBuffer, nextIn>>
    BY <1>2 DEF UART_Handler
  <2> QED
    BY <2>1 DEF SpliceInv, Reading, Chained, Occupied, Dist
<1>3. CASE ~ ((inError /\ ~IsNewline(ch)) \/ Full)
  <2>1. /\ rxBuffer' = [rxBuffer EXCEPT ![nextIn] = ch]
        /\ nextIn' = Inc(nextIn)
        /\ inError' = error
        /\ nextIn' # nextOut
    BY <1>3 DEF UART_Handler, Full
  <2>2. \A a \in Char : (~inError => JustSent(a)) => Follows(a, ch)
    BY <1>3 DEF Follows
  <2>3. \A i \in Slots : rxBuffer'[i] = IF i = nextIn THEN ch ELSE rxBuffer[i]
    BY <1>1, <2>1
  <2>4. \A i \in Slots : /\ Occupied(i)' => i = nextIn \/ Occupied(i)
                         /\ Occupied(i) => i # nextIn
                         /\ Inc(i) \in Slots
                         /\ Inc(i) = nextIn' => i = nextIn
    BY <1>1, <2>1 DEF Occupied, Dist, Inc, Slots
  <2>5. Reading'
    <3>1. pc = "advance" => nextIn # nextOut
      BY DEF SpliceInv, Reading
    <3> QED
      BY <1>1, <2>1, <2>3, <3>1 DEF SpliceInv, Reading
  <2>6. Follows(parsed, rxBuffer'[nextOut])
    <3>1. CASE nextIn = nextOut
      <4>1. ~inError => JustSent(parsed)
        BY <3>1 DEF SpliceInv, Current
      <4> QED
        BY <1>1, <2>2, <2>3, <3>1, <4>1
    <3>2. CASE nextIn # nextOut
      BY <1>1, <2>3, <3>2 DEF SpliceInv, Chained
    <3> QED
      BY <3>1, <3>2
  <2>7. ASSUME NEW i \in Slots, Occupied(i)', Inc(i) # nextIn'
        PROVE  Follows(rxBuffer'[i], rxBuffer'[Inc(i)])
    <3>1. i # nextIn /\ Occupied(i) /\ Inc(i) \in Slots /\ nextIn # nextOut
      <4>1. i # nextIn
        BY <2>1, <2>7
      <4>2. Occupied(i)
        BY <2>4, <2>7, <4>1
      <4> QED
        BY <1>1, <2>4, <4>1, <4>2 DEF Occupied, Dist, Slots
    <3>2. CASE Inc(i) = nextIn
      <4>1. ~inError => JustSent(rxBuffer[i])
        BY <3>1, <3>2 DEF SpliceInv, Current
      <4>2. rxBuffer[i] \in Char
        BY <1>1
      <4> QED
        BY <2>2, <2>3, <3>1, <3>2, <4>1, <4>2
    <3>3. CASE Inc(i) # nextIn
      BY <2>3, <3>1, <3>3 DEF SpliceInv, Chained
    <3> QED
      BY <3>2, <3>3
  <2>8. Chained'
    <3>1. \A i \in Slots : Inc(i)' = Inc(i)
      BY DEF Inc
    <3> QED
      BY <2>6, <2>7, <3>1 DEF Chained, Follows, IsNewline
  <2>9. \A i \in Slots : Inc(i) = nextIn' => rxBuffer'[i] = ch
    BY <2>3, <2>4
  <2> QED
    BY <2>1, <2>5, <2>8, <2>9
<1> QED
  BY <1>2, <1>3

\* The initial state: the buffer is empty, and the past is the character
\* before the first one to come.
LEMMA InitSplice == Init => SpliceInv
<1> SUFFICES ASSUME Init PROVE SpliceInv
  OBVIOUS
<1>1. TypeOK /\ Reading /\ Chained
  <2>1. \A i \in Slots : ~Occupied(i)
    BY RxAssumption DEF Init, Occupied, Dist, Slots
  <2> QED
    BY <2>1, InitType DEF Init, Reading, Chained
<1>2. JustSent(parsed)
  BY RxAssumption DEF Init, JustSent, IsNewline, Newline
<1> QED
  BY <1>1, <1>2 DEF Init, Current, SpliceInv

\* The steps of the interrupt.
LEMMA InterruptSplice ==
    ASSUME SpliceInv, TypeOK',
           ReceiveGood \/ ReceiveGarbage \/ ReceiveOverrun \/ ReceiveError
    PROVE  SpliceInv' /\ UNCHANGED <<pc, parsed>>
<1> USE RxAssumption
<1>1. TypeOK /\ line \in 1 .. MaxLine + 1 /\ pos \in 1 .. LineLen
  BY DEF SpliceInv, TypeOK
<1>2. ASSUME NEW ch \in Char, UART_Handler(ch, TRUE), ~ch.good,
             UNCHANGED <<nextOut, pc, c, parsed>>
      PROVE  SpliceInv'
  <2>1. \A a \in Char : JustSent(a) => Follows(a, ch)
    BY <1>2 DEF JustSent, Follows
  <2>2. Reading' /\ Chained' /\ inError'
    BY <1>2, <2>1, StoreChained
  <2> QED
    BY <2>2 DEF SpliceInv, Current
<1>3. CASE ReceiveGood
  <2>1. line \in 1 .. MaxLine
    BY <1>1, <1>3 DEF ReceiveGood
  <2>2. PICK ch \in Char :
           /\ ch.good /\ ch.line = line /\ ch.pos = pos
           /\ UART_Handler(ch, FALSE)
    <3>1. [line |-> line, pos |-> pos, good |-> TRUE] \in Char
      BY <1>1, <2>1 DEF Char
    <3> QED
      BY <1>3, <3>1 DEF ReceiveGood
  <2>6. /\ line' = After(line, pos)[1] /\ pos' = After(line, pos)[2]
        /\ UNCHANGED <<nextOut, pc, c, parsed>>
    BY <1>3 DEF ReceiveGood
  <2>3. \A a \in Char : JustSent(a) => Follows(a, ch)
    BY <2>2 DEF JustSent, Follows, IsNewline
  <2>4. /\ Reading' /\ Chained'
        /\ ~inError' => /\ nextIn' # nextOut
                        /\ \A i \in Slots : Inc(i) = nextIn' =>
                              rxBuffer'[i] = ch
    BY <2>2, <2>3, <2>6, StoreChained
  <2>5. JustSent(ch)'
    <3>1. pos < LineLen => line' = line /\ pos' = pos + 1
      BY <1>1, <2>1, <2>6, AfterType
    <3>2. pos = LineLen => pos' = 1
      BY <1>1, <2>1, <2>6, AfterType
    <3>3. pos < LineLen \/ pos = LineLen
      BY <1>1
    <3>4. /\ ch.good
          /\ ch.pos = LineLen => pos' = 1
          /\ ch.pos # LineLen => line' = ch.line /\ pos' = ch.pos + 1
      BY <2>2, <3>1, <3>2, <3>3
    <3> QED
      BY <3>4 DEF JustSent, IsNewline
  <2> QED
    BY <2>4, <2>5, <2>6 DEF SpliceInv, Current
<1>4. CASE ReceiveGarbage
  <2>1. PICK p \in {1, LineLen} :
           UART_Handler([line |-> 0, pos |-> p, good |-> FALSE], TRUE)
    BY <1>4 DEF ReceiveGarbage
  <2>2. [line |-> 0, pos |-> p, good |-> FALSE] \in Char
    BY DEF Char
  <2> QED
    BY <1>2, <1>4, <2>1, <2>2 DEF ReceiveGarbage
<1>5. CASE ReceiveOverrun
  <2>1. PICK l \in 1 .. MaxLine, p \in 1 .. LineLen :
           UART_Handler([line |-> l, pos |-> p, good |-> FALSE], TRUE)
    BY <1>5 DEF ReceiveOverrun
  <2>2. [line |-> l, pos |-> p, good |-> FALSE] \in Char
    BY DEF Char
  <2> QED
    BY <1>2, <1>5, <2>1, <2>2 DEF ReceiveOverrun
<1>6. CASE ReceiveError
  BY <1>6 DEF ReceiveError, SpliceInv, Reading, Chained, Current, Occupied,
              Dist
<1> QED
  BY <1>2, <1>3, <1>4, <1>5, <1>6
  DEF ReceiveGood, ReceiveGarbage, ReceiveOverrun, ReceiveError

\* The steps of the loop; the character it hands over follows the one before.
LEMMA LoopSplice ==
    ASSUME SpliceInv, TypeOK', Test \/ Fetch \/ Advance
    PROVE  SpliceInv' /\ (Advance => Follows(parsed, parsed'))
<1> USE RxAssumption
<1>1. nextIn \in Slots /\ nextOut \in Slots
  BY DEF SpliceInv, TypeOK
<1>2. CASE Test \/ Fetch
  <2>1. UNCHANGED <<rxBuffer, nextIn, nextOut, inError, line, pos, parsed>>
    BY <1>2 DEF Test, Fetch, rxVars, lineVars, ghostVars
  <2>2. Reading'
    BY <1>2, <2>1 DEF SpliceInv, Reading, Test, Fetch
  <2>3. Chained' /\ Current'
    BY <2>1 DEF SpliceInv, Chained, Current, JustSent, Occupied, Dist
  <2>4. ~Advance
    BY <1>2 DEF Test, Fetch, Advance
  <2> QED
    BY <2>2, <2>3, <2>4 DEF SpliceInv
<1>3. CASE Advance
  <2>1. /\ nextOut' = Inc(nextOut) /\ pc' = "test" /\ parsed' = rxBuffer[nextOut]
        /\ nextIn # nextOut
        /\ UNCHANGED <<rxBuffer, nextIn, inError, line, pos>>
    BY <1>3 DEF Advance, SpliceInv, Reading, lineVars
  <2>2. \A i \in Slots : Occupied(i)' => Occupied(i)
    BY <1>1, <2>1 DEF Occupied, Dist, Inc, Slots
  <2>3. Occupied(nextOut)
    BY <1>1, <2>1 DEF Occupied, Dist, Slots
  <2>4. Chained'
    BY <1>1, <2>1, <2>2, <2>3 DEF SpliceInv, Chained
  <2>5. Current'
    BY <1>1, <2>1 DEF SpliceInv, Current, JustSent
  <2>6. Follows(parsed, parsed')
    BY <2>1 DEF SpliceInv, Chained
  <2> QED
    BY <2>1, <2>4, <2>5, <2>6 DEF SpliceInv, Reading
<1> QED
  BY <1>2, <1>3

\* Every step keeps the invariant, and hands over what follows.
LEMMA SpliceStep ==
    SpliceInv /\ [Next]_vars =>
        /\ SpliceInv'
        /\ [pc = "advance" /\ pc' = "test" => Follows(parsed, parsed')]_vars
<1> SUFFICES ASSUME SpliceInv, [Next]_vars
             PROVE  /\ SpliceInv'
                    /\ pc = "advance" /\ pc' = "test" =>
                          Follows(parsed, parsed')
  OBVIOUS
<1>1. TypeOK'
  BY StepType DEF SpliceInv
<1>2. CASE ReceiveGood \/ ReceiveGarbage \/ ReceiveOverrun \/ ReceiveError
  BY <1>1, <1>2, InterruptSplice
<1>3. CASE Test \/ Fetch
  BY <1>1, <1>3, LoopSplice DEF Test, Fetch
<1>4. CASE Advance
  BY <1>1, <1>4, LoopSplice
<1>5. CASE UNCHANGED vars
  BY <1>5 DEF vars, SpliceInv, TypeOK, Reading, Chained, Current, JustSent,
              Occupied, Dist
<1> QED
  BY <1>2, <1>3, <1>4, <1>5 DEF Next

\* What the parser is handed never mixes characters of two lines, and nothing
\* follows a bad character but a newline: for a buffer of any size, lines of
\* any length, and any number of errors.
THEOREM Unspliced == Spec => NoSplice
BY InitSplice, SpliceStep, PTL DEF Spec, NoSplice

-----------------------------------------------------------------------------
(* The ring buffer is a queue.                                             *)

\* What the abstract specification sees as the queue is a sequence.
LEMMA ContentsIsSeq ==
    ASSUME NEW buffer \in [Slots -> Char], NEW in \in Slots, NEW out \in Slots
    PROVE  /\ Count(in, out) \in 0 .. BufSize - 1
           /\ \A k \in 1 .. Count(in, out) : SlotAt(out, k) \in Slots
           /\ Contents(buffer, in, out) \in Seq(Char)
           /\ Len(Contents(buffer, in, out)) = Count(in, out)
           /\ \A k \in 1 .. Count(in, out) :
                 Contents(buffer, in, out)[k] = buffer[SlotAt(out, k)]
<1> USE RxAssumption
<1> DEFINE s == Contents(buffer, in, out)
<1>1. Count(in, out) \in 0 .. BufSize - 1
  BY DEF Count, Slots
<1>2. \A k \in 1 .. Count(in, out) : SlotAt(out, k) \in Slots
  BY DEF Count, SlotAt, Slots
<1>3. /\ s \in [1 .. Count(in, out) -> Char]
      /\ \A k \in 1 .. Count(in, out) : s[k] = buffer[SlotAt(out, k)]
  BY <1>2 DEF Contents
<1> HIDE DEF s
<1>4. s \in Seq(Char)
  BY <1>1, <1>3, SeqDef
<1>5. Len(s) = Count(in, out)
  BY <1>1, <1>3, <1>4, LenProperties
<1> QED
  BY <1>1, <1>2, <1>3, <1>4, <1>5 DEF s

\* Writing the slot at the end of a buffer that is not full appends to it.
LEMMA StoreAppends ==
    ASSUME NEW buffer \in [Slots -> Char], NEW in \in Slots, NEW out \in Slots,
           NEW ch \in Char, Inc(in) # out
    PROVE  /\ Len(Contents(buffer, in, out)) < BufSize - 1
           /\ Contents([buffer EXCEPT ![in] = ch], Inc(in), out) =
                 Append(Contents(buffer, in, out), ch)
<1> USE RxAssumption
<1> DEFINE s == Contents(buffer, in, out)
           b == [buffer EXCEPT ![in] = ch]
           t == Contents(b, Inc(in), out)
           n == Count(in, out)
<1>1. /\ b \in [Slots -> Char] /\ Inc(in) \in Slots /\ b[in] = ch
      /\ \A i \in Slots : i # in => b[i] = buffer[i]
  BY IncType
<1> HIDE DEF b
<1>2. /\ n \in Nat /\ s \in Seq(Char) /\ Len(s) = n
      /\ \A k \in 1 .. n : s[k] = buffer[SlotAt(out, k)]
      /\ \A k \in 1 .. n : SlotAt(out, k) \in Slots
  BY ContentsIsSeq
<1>3. /\ t \in Seq(Char) /\ Len(t) = Count(Inc(in), out)
      /\ \A k \in 1 .. Count(Inc(in), out) : t[k] = b[SlotAt(out, k)]
  BY <1>1, ContentsIsSeq
<1>4. Count(Inc(in), out) = n + 1 /\ n + 1 < BufSize
  BY DEF Count, Inc, Slots
<1>5. /\ \A k \in 1 .. n : SlotAt(out, k) # in
      /\ SlotAt(out, n + 1) = in
  BY <1>4 DEF Count, SlotAt, Slots
<1> HIDE DEF s, t, n
<1>6. /\ Append(s, ch) \in Seq(Char) /\ Len(Append(s, ch)) = n + 1
      /\ \A k \in 1 .. n : Append(s, ch)[k] = s[k]
      /\ Append(s, ch)[n + 1] = ch
  BY <1>2, AppendProperties
<1>7. \A k \in 1 .. n + 1 : t[k] = Append(s, ch)[k]
  <2> SUFFICES ASSUME NEW k \in 1 .. n + 1 PROVE t[k] = Append(s, ch)[k]
    OBVIOUS
  <2>1. t[k] = b[SlotAt(out, k)]
    BY <1>3, <1>4
  <2>2. CASE k = n + 1
    BY <1>1, <1>5, <1>6, <2>1, <2>2
  <2>3. CASE k \in 1 .. n
    BY <1>1, <1>2, <1>5, <1>6, <2>1, <2>3
  <2> QED
    BY <1>2, <2>2, <2>3
<1>8. t = Append(s, ch)
  BY <1>3, <1>4, <1>6, <1>7, SeqEqual
<1>9. Len(s) < BufSize - 1
  BY <1>2, <1>4
<1> QED
  BY <1>8, <1>9 DEF s, t, b

\* Moving on from the first slot of a buffer that is not empty takes its first
\* character.
LEMMA AdvanceTakes ==
    ASSUME NEW buffer \in [Slots -> Char], NEW in \in Slots, NEW out \in Slots,
           in # out
    PROVE  /\ Contents(buffer, in, out) # <<>>
           /\ Head(Contents(buffer, in, out)) = buffer[out]
           /\ Contents(buffer, in, Inc(out)) = Tail(Contents(buffer, in, out))
<1> USE RxAssumption
<1> DEFINE s == Contents(buffer, in, out)
           t == Contents(buffer, in, Inc(out))
           n == Count(in, out)
<1>1. /\ n \in Nat /\ s \in Seq(Char) /\ Len(s) = n
      /\ \A k \in 1 .. n : s[k] = buffer[SlotAt(out, k)]
  BY ContentsIsSeq
<1>2. Inc(out) \in Slots
  BY IncType
<1>3. /\ t \in Seq(Char) /\ Len(t) = Count(in, Inc(out))
      /\ \A k \in 1 .. Count(in, Inc(out)) :
            t[k] = buffer[SlotAt(Inc(out), k)]
  BY <1>2, ContentsIsSeq
<1>4. Count(in, Inc(out)) = n - 1 /\ n >= 1
  BY DEF Count, Inc, Slots
<1>5. /\ SlotAt(out, 1) = out
      /\ \A k \in 1 .. n - 1 : SlotAt(Inc(out), k) = SlotAt(out, k + 1)
  BY DEF Count, SlotAt, Inc, Slots
<1> HIDE DEF s, t, n
<1>6. s # <<>> /\ Head(s) = s[1]
  BY <1>1, <1>4
<1>7. /\ Tail(s) \in Seq(Char) /\ Len(Tail(s)) = n - 1
      /\ \A k \in 1 .. n - 1 : Tail(s)[k] = s[k + 1]
  BY <1>1, <1>6, HeadTailProperties
<1>8. \A k \in 1 .. n - 1 : t[k] = Tail(s)[k]
  BY <1>1, <1>3, <1>4, <1>5, <1>7
<1>9. t = Tail(s)
  BY <1>3, <1>4, <1>7, <1>8, SeqEqual
<1> QED
  BY <1>1, <1>4, <1>5, <1>6, <1>9 DEF s, t

\* Every step of the receive path is a step of the queue or leaves it alone:
\* the interrupt puts a character in or drops it, the loop takes the one that
\* has waited longest.
THEOREM RingImplementsQueue == Spec => FifoSpec
<1>1. Init => RingIsQueue!Init
  <2> SUFFICES ASSUME Init PROVE RingIsQueue!Init
    OBVIOUS
  <2>1. TypeOK
    BY InitType
  <2>2. /\ Contents(rxBuffer, nextIn, nextOut) \in Seq(Char)
        /\ Len(Contents(rxBuffer, nextIn, nextOut)) = Count(nextIn, nextOut)
    BY <2>1, ContentsIsSeq DEF TypeOK
  <2>3. Count(nextIn, nextOut) = 0
    BY DEF Init, Count
  <2>4. Contents(rxBuffer, nextIn, nextOut) = <<>>
    BY <2>2, <2>3
  <2> QED
    BY <2>1, <2>4 DEF RingIsQueue!Init, TypeOK
<1>2. SpliceInv /\ [Next]_vars => [RingIsQueue!Next]_(RingIsQueue!vars)
  <2> SUFFICES ASSUME SpliceInv, Next
               PROVE  RingIsQueue!Next \/ UNCHANGED RingIsQueue!vars
    BY DEF vars, RingIsQueue!vars, Contents, SlotAt, Count
  <2>1. /\ rxBuffer \in [Slots -> Char]
        /\ nextIn \in Slots /\ nextOut \in Slots
    BY DEF SpliceInv, TypeOK
  <2>2. ASSUME NEW ch \in Char, NEW error \in BOOLEAN,
               UART_Handler(ch, error), UNCHANGED <<nextOut, parsed>>
        PROVE  RingIsQueue!Next \/ UNCHANGED RingIsQueue!vars
    <3>1. CASE UNCHANGED <<rxBuffer, nextIn>>
      BY <2>2, <3>1 DEF RingIsQueue!vars
    <3>2. CASE /\ rxBuffer' = [rxBuffer EXCEPT ![nextIn] = ch]
               /\ nextIn' = Inc(nextIn)
               /\ Inc(nextIn) # nextOut
      <4>1. /\ Len(Contents(rxBuffer, nextIn, nextOut)) < BufSize - 1
            /\ Contents([rxBuffer EXCEPT ![nextIn] = ch], Inc(nextIn),
                        nextOut) =
                  Append(Contents(rxBuffer, nextIn, nextOut), ch)
        BY <2>1, <3>2, StoreAppends
      <4>2. Contents(rxBuffer', nextIn', nextOut') =
               Append(Contents(rxBuffer, nextIn, nextOut), ch)
        BY <2>2, <3>2, <4>1
      <4> QED
        BY <2>2, <4>1, <4>2 DEF RingIsQueue!Next, RingIsQueue!Put
    <3> QED
      BY <2>2, <3>1, <3>2 DEF UART_Handler, Full
  <2>3. CASE ReceiveGood
    <3>1. [line |-> line, pos |-> pos, good |-> TRUE] \in Char
      BY <2>3 DEF ReceiveGood, SpliceInv, TypeOK, Char
    <3> QED
      BY <2>2, <2>3, <3>1 DEF ReceiveGood
  <2>4. CASE ReceiveGarbage
    <3>1. \A p \in {1, LineLen} :
             [line |-> 0, pos |-> p, good |-> FALSE] \in Char
      BY RxAssumption DEF Char
    <3> QED
      BY <2>2, <2>4, <3>1 DEF ReceiveGarbage
  <2>5. CASE ReceiveOverrun
    <3>1. \A l \in 1 .. MaxLine, p \in 1 .. LineLen :
             [line |-> l, pos |-> p, good |-> FALSE] \in Char
      BY DEF Char
    <3> QED
      BY <2>2, <2>5, <3>1 DEF ReceiveOverrun
  <2>6. CASE ReceiveError \/ Test \/ Fetch
    BY <2>6 DEF ReceiveError, Test, Fetch, rxVars, ghostVars,
                RingIsQueue!vars
  <2>7. CASE Advance
    <3>1. /\ nextIn # nextOut
          /\ parsed' = rxBuffer[nextOut]
          /\ nextOut' = Inc(nextOut)
          /\ UNCHANGED <<rxBuffer, nextIn>>
      BY <2>7 DEF Advance, SpliceInv, Reading
    <3>2. /\ Contents(rxBuffer, nextIn, nextOut) # <<>>
          /\ Head(Contents(rxBuffer, nextIn, nextOut)) = rxBuffer[nextOut]
          /\ Contents(rxBuffer, nextIn, Inc(nextOut)) =
                Tail(Contents(rxBuffer, nextIn, nextOut))
      BY <2>1, <3>1, AdvanceTakes
    <3>3. Contents(rxBuffer', nextIn', nextOut') =
             Tail(Contents(rxBuffer, nextIn, nextOut))
      BY <3>1, <3>2
    <3> QED
      BY <3>1, <3>2, <3>3 DEF RingIsQueue!Next, RingIsQueue!Take
  <2> QED
    BY <2>3, <2>4, <2>5, <2>6, <2>7 DEF Next
<1>3. SpliceInv /\ [Next]_vars => SpliceInv'
  BY SpliceStep
<1> QED
  BY <1>1, <1>2, <1>3, InitSplice, PTL DEF Spec, FifoSpec, RingIsQueue!Spec

-----------------------------------------------------------------------------
(* The receiver resynchronizes.                                            *)

\* What SerialRx!Disturbed says of the faults recorded so far.
DisturbedBy(places, l) ==
    \E f \in places : f[1] = l \/ f = <<l - 1, LineLen>>

\* Character b, if it is the newline of a line without a fault, comes after
\* the rest of that line.
Ends(a, b) ==
    b.good /\ IsNewline(b) /\ b.line > 1 /\ ~DisturbedBy(faults, b.line) =>
        a.good /\ a.line = b.line /\ a.pos = LineLen - 1

\* The newlines in the buffer come after their lines.
LinesWhole ==
    /\ nextIn # nextOut => Ends(parsed, rxBuffer[nextOut])
    /\ \A i \in Slots : Occupied(i) /\ Inc(i) # nextIn =>
          Ends(rxBuffer[i], rxBuffer[Inc(i)])

\* What is counted is the part of the line that has been handed over.
SeenSoFar ==
    IF IsNewline(parsed) THEN seen = 0
    ELSE parsed.good /\ parsed.line > 1 => seen = parsed.pos

\* The newline of line l is in the buffer.
Waiting(l) ==
    \E i \in Slots :
        /\ Occupied(i)
        /\ rxBuffer[i].good /\ rxBuffer[i].line = l /\ IsNewline(rxBuffer[i])

\* Every line without a fault has been handed over or is about to be.
AllThere ==
    \A l \in Nat : 1 < l /\ l < line =>
        DisturbedBy(faults, l) \/ l \in whole \/ Waiting(l)

\* Characters are dropped only in a line with a fault.
Awake == line > 1 /\ inError => DisturbedBy(faults, line)

ResyncInv == SpliceInv /\ LinesWhole /\ SeenSoFar /\ AllThere /\ Awake

\* What disturbs a line does so for ever.
LEMMA DisturbedForEver ==
    ASSUME faults \subseteq faults'
    PROVE  \A l : DisturbedBy(faults, l) => DisturbedBy(faults', l)
BY DEF DisturbedBy

\* A character stored or dropped by the interrupt leaves what is in the buffer
\* where it is; the newline of a line without a fault finds the rest of its
\* line before it.
LEMMA StoreWhole ==
    ASSUME ResyncInv, TypeOK', NEW ch \in Char, NEW error \in BOOLEAN,
           UART_Handler(ch, error),
           UNCHANGED <<nextOut, parsed, seen>>, faults \subseteq faults',
           ch.good => ch.line = line /\ ch.pos = pos
    PROVE  /\ LinesWhole' /\ SeenSoFar'
           /\ \A l : Waiting(l) => Waiting(l)'
           /\ \/ inError' /\ (Full \/ (inError /\ ~IsNewline(ch)))
              \/ /\ inError' = error
                 /\ ~Full
                 /\ ch.good /\ IsNewline(ch) => Waiting(ch.line)'
<1> USE RxAssumption
<1>1. /\ rxBuffer \in [Slots -> Char]
      /\ nextIn \in Slots /\ nextOut \in Slots /\ parsed \in Char
  BY DEF ResyncInv, SpliceInv, TypeOK
<1>2. \A l : DisturbedBy(faults, l) => DisturbedBy(faults', l)
  BY DisturbedForEver
<1>3. SeenSoFar'
  BY DEF ResyncInv, SeenSoFar, IsNewline
<1>4. \A a, b \in Char : Ends(a, b) => Ends(a, b)'
  BY <1>2 DEF Ends, IsNewline
<1>5. CASE (inError /\ ~IsNewline(ch)) \/ Full
  <2>1. inError' = TRUE /\ UNCHANGED <<rxBuffer, nextIn>>
    BY <1>5 DEF UART_Handler
  <2>2. \A i \in Slots : Inc(i) \in Slots /\ Inc(i)' = Inc(i)
    BY IncType DEF Inc
  <2>3. LinesWhole'
    <3>1. nextIn # nextOut => Ends(parsed, rxBuffer[nextOut])'
      BY <1>1, <1>4, <2>1 DEF ResyncInv, LinesWhole, Ends, IsNewline
    <3>2. ASSUME NEW i \in Slots, Occupied(i), Inc(i) # nextIn
          PROVE  Ends(rxBuffer[i], rxBuffer[Inc(i)])'
      <4>1. Ends(rxBuffer[i], rxBuffer[Inc(i)])
        BY <3>2 DEF ResyncInv, LinesWhole
      <4>2. rxBuffer[i] \in Char /\ rxBuffer[Inc(i)] \in Char
        BY <1>1, <2>2
      <4> QED
        BY <1>2, <2>1, <2>2, <4>1, <4>2 DEF Ends, IsNewline
    <3>3. \A i \in Slots : Occupied(i)' = Occupied(i)
      BY <2>1 DEF Occupied, Dist
    <3> QED
      BY <2>1, <2>2, <3>1, <3>2, <3>3 DEF LinesWhole
  <2>4. \A l : Waiting(l) => Waiting(l)'
    BY <2>1 DEF Waiting, Occupied, Dist, IsNewline
  <2> QED
    BY <1>3, <1>5, <2>1, <2>3, <2>4
<1>6. CASE ~ ((inError /\ ~IsNewline(ch)) \/ Full)
  <2>1. /\ rxBuffer' = [rxBuffer EXCEPT ![nextIn] = ch]
        /\ nextIn' = Inc(nextIn)
        /\ inError' = error
        /\ ~Full
        /\ nextIn' # nextOut
    BY <1>6 DEF UART_Handler, Full
  <2>2. \A i \in Slots : rxBuffer'[i] = IF i = nextIn THEN ch ELSE rxBuffer[i]
    BY <1>1, <2>1
  <2>3. \A i \in Slots : /\ Occupied(i)' => i = nextIn \/ Occupied(i)
                         /\ Occupied(i) => i # nextIn /\ Occupied(i)'
                         /\ Inc(i) \in Slots
                         /\ Inc(i) = nextIn' => i = nextIn
                         /\ Inc(i)' = Inc(i)
    BY <1>1, <2>1 DEF Occupied, Dist, Inc, Slots
  <2>4. \A i \in Slots : i = nextIn => Occupied(i)'
    BY <1>1, <2>1 DEF Occupied, Dist, Inc, Slots
  <2>5. ASSUME NEW a \in Char, ~inError => JustSent(a)
        PROVE  Ends(a, ch)'
    <3> SUFFICES ASSUME ch.good, IsNewline(ch), ch.line > 1,
                        ~DisturbedBy(faults', ch.line)
                 PROVE  a.good /\ a.line = ch.line /\ a.pos = LineLen - 1
      BY DEF Ends, IsNewline
    <3>1. ch.line = line /\ pos = LineLen
      BY DEF IsNewline
    <3>2. ~DisturbedBy(faults, line)
      BY <1>2, <3>1
    <3>3. JustSent(a)
      BY <2>5, <3>1, <3>2 DEF ResyncInv, Awake
    <3>4. a.pos \in 1 .. LineLen
      BY DEF Char
    <3> QED
      BY <3>1, <3>3, <3>4 DEF JustSent
  <2>6. Ends(parsed, rxBuffer[nextOut])'
    <3>1. CASE nextIn = nextOut
      <4>1. ~inError => JustSent(parsed)
        BY <3>1 DEF ResyncInv, SpliceInv, Current
      <4>2. parsed' = parsed /\ rxBuffer'[nextOut'] = ch
        BY <1>1, <2>2, <3>1
      <4> QED
        BY <1>1, <2>5, <4>1, <4>2 DEF Ends, IsNewline
    <3>2. CASE nextIn # nextOut
      <4>1. Ends(parsed, rxBuffer[nextOut])
        BY <3>2 DEF ResyncInv, LinesWhole
      <4>2. parsed' = parsed /\ rxBuffer'[nextOut'] = rxBuffer[nextOut]
        BY <1>1, <2>2, <3>2
      <4> QED
        BY <1>2, <4>1, <4>2 DEF Ends, IsNewline
    <3> QED
      BY <3>1, <3>2
  <2>7. ASSUME NEW i \in Slots, Occupied(i)', Inc(i) # nextIn'
        PROVE  Ends(rxBuffer[i], rxBuffer[Inc(i)])'
    <3>1. i # nextIn /\ Occupied(i) /\ Inc(i) \in Slots /\ nextIn # nextOut
      <4>1. i # nextIn
        BY <2>1, <2>7
      <4>2. Occupied(i)
        BY <2>3, <2>7, <4>1
      <4> QED
        BY <1>1, <2>3, <4>1, <4>2 DEF Occupied, Dist, Slots
    <3>2. CASE Inc(i) = nextIn
      <4>1. ~inError => JustSent(rxBuffer[i])
        BY <3>1, <3>2 DEF ResyncInv, SpliceInv, Current
      <4>2. PICK a \in Char : a = rxBuffer[i]
        BY <1>1
      <4>3. Ends(a, ch)'
        BY <2>5, <4>1, <4>2
      <4>4. rxBuffer'[i] = a /\ rxBuffer'[Inc(i)] = ch
        BY <2>2, <3>1, <3>2, <4>2
      <4> QED
        BY <2>3, <4>3, <4>4 DEF Ends, IsNewline
    <3>3. CASE Inc(i) # nextIn
      <4>1. Ends(rxBuffer[i], rxBuffer[Inc(i)])
        BY <3>1, <3>3 DEF ResyncInv, LinesWhole
      <4>2. rxBuffer'[i] = rxBuffer[i] /\ rxBuffer'[Inc(i)] = rxBuffer[Inc(i)]
        BY <2>2, <3>1, <3>3
      <4> QED
        BY <1>2, <2>3, <4>1, <4>2 DEF Ends, IsNewline
    <3> QED
      BY <3>2, <3>3
  <2>8. LinesWhole'
    BY <2>3, <2>6, <2>7 DEF LinesWhole
  <2>9. \A l : Waiting(l) => Waiting(l)'
    BY <2>2, <2>3 DEF Waiting, IsNewline
  <2>10. ch.good /\ IsNewline(ch) => Waiting(ch.line)'
    <3>1. PICK i \in Slots : i = nextIn
      BY <1>1
    <3>2. Occupied(i)' /\ rxBuffer'[i] = ch
      BY <2>2, <2>4, <3>1
    <3> QED
      BY <3>2 DEF Waiting, IsNewline
  <2> QED
    BY <1>3, <2>1, <2>8, <2>9, <2>10
<1> QED
  BY <1>5, <1>6

\* A fault disturbs the line it is in and, at the newline, the one after it.
LEMMA FaultDisturbs ==
    ASSUME TypeOK, NEW l \in Nat, NEW p \in Nat, <<l, p>> \in faults'
    PROVE  DisturbedBy(faults', l) /\ (p = LineLen => DisturbedBy(faults', l + 1))
<1>1. <<l, p>>[1] = l /\ (p = LineLen => <<l, p>> = <<(l + 1) - 1, LineLen>>)
  OBVIOUS
<1> QED
  BY <1>1 DEF DisturbedBy

\* Nothing has been lost while nothing has been sent.
LEMMA InitResync == Init => ResyncInv
<1> SUFFICES ASSUME Init PROVE ResyncInv
  OBVIOUS
<1>1. SpliceInv
  BY InitSplice
<1>2. \A i \in Slots : ~Occupied(i)
  BY RxAssumption DEF Init, Occupied, Dist, Slots
<1>3. LinesWhole
  BY <1>2 DEF Init, LinesWhole
<1>4. SeenSoFar
  BY RxAssumption DEF Init, SeenSoFar, IsNewline, Newline
<1>5. AllThere /\ Awake
  BY DEF Init, AllThere, Awake
<1> QED
  BY <1>1, <1>3, <1>4, <1>5 DEF ResyncInv

\* The interrupt drops characters only where it records a fault.
LEMMA InterruptResync ==
    ASSUME ResyncInv, SpliceInv', TypeOK',
           ReceiveGood \/ ReceiveGarbage \/ ReceiveOverrun \/ ReceiveError
    PROVE  ResyncInv'
<1> USE RxAssumption
<1>1. /\ TypeOK /\ line \in 1 .. MaxLine + 1 /\ pos \in 1 .. LineLen
      /\ line' \in 1 .. MaxLine + 1
      /\ faults \subseteq faults' /\ UNCHANGED <<nextOut, parsed, seen, whole>>
  BY DEF ResyncInv, SpliceInv, TypeOK, ReceiveGood, ReceiveGarbage,
     ReceiveOverrun, ReceiveError
<1>2. \A l : DisturbedBy(faults, l) => DisturbedBy(faults', l)
  BY <1>1, DisturbedForEver
<1>3. ASSUME NEW ch \in Char, UART_Handler(ch, TRUE), ~ch.good,
             <<line, pos>> \in faults',
             DisturbedBy(faults', line'), line' \in {line, line + 1}
      PROVE  ResyncInv'
  <2>1. LinesWhole' /\ SeenSoFar' /\ \A l : Waiting(l) => Waiting(l)'
    BY <1>1, <1>3, StoreWhole
  <2>2. DisturbedBy(faults', line)
    BY <1>1, <1>3, FaultDisturbs
  <2>3. AllThere'
    <3> SUFFICES ASSUME NEW l \in Nat, 1 < l, l < line'
                 PROVE  DisturbedBy(faults', l) \/ l \in whole' \/ Waiting(l)'
      BY DEF AllThere
    <3>1. l = line \/ l < line
      BY <1>1, <1>3
    <3> QED
      BY <1>1, <1>2, <2>1, <2>2, <3>1 DEF ResyncInv, AllThere
  <2>4. Awake'
    BY <1>3 DEF Awake
  <2> QED
    BY <2>1, <2>3, <2>4 DEF ResyncInv
<1>4. CASE ReceiveGood
  <2>1. line \in 1 .. MaxLine
    BY <1>1, <1>4 DEF ReceiveGood
  <2>2. PICK ch \in Char :
           /\ ch.good /\ ch.line = line /\ ch.pos = pos
           /\ UART_Handler(ch, FALSE)
    <3>1. [line |-> line, pos |-> pos, good |-> TRUE] \in Char
      BY <1>1, <2>1 DEF Char
    <3> QED
      BY <1>4, <3>1 DEF ReceiveGood
  <2>3. /\ LinesWhole' /\ SeenSoFar'
        /\ \A l : Waiting(l) => Waiting(l)'
        /\ \/ inError' /\ (Full \/ (inError /\ ~IsNewline(ch)))
           \/ /\ inError' = FALSE
              /\ ~Full
              /\ ch.good /\ IsNewline(ch) => Waiting(ch.line)'
    BY <1>1, <2>2, StoreWhole
  <2>4. \/ pos < LineLen /\ line' = line
        \/ pos = LineLen /\ line' = line + 1
    BY <1>1, <1>4, <2>1, AfterType DEF ReceiveGood
  <2>5. Full => /\ DisturbedBy(faults', line)
                /\ DisturbedBy(faults', line')
    <3> SUFFICES ASSUME Full PROVE DisturbedBy(faults', line) /\ DisturbedBy(faults', line')
      OBVIOUS
    <3>1. <<line, pos>> \in faults'
      BY <1>4 DEF ReceiveGood
    <3>2. PICK l \in Nat : l = line
      BY <1>1
    <3>3. DisturbedBy(faults', l) /\ (pos = LineLen => DisturbedBy(faults', l + 1))
      BY <1>1, <3>1, <3>2, FaultDisturbs
    <3>4. \A m : m = l \/ (pos = LineLen /\ m = l + 1) => DisturbedBy(faults', m)
      BY <3>3
    <3> QED
      BY <2>4, <3>2, <3>4 DEF DisturbedBy
  <2>6. AllThere'
    <3> SUFFICES ASSUME NEW l \in Nat, 1 < l, l < line'
                 PROVE  DisturbedBy(faults', l) \/ l \in whole' \/ Waiting(l)'
      BY DEF AllThere
    <3>1. CASE l < line
      BY <1>1, <1>2, <2>3, <3>1 DEF ResyncInv, AllThere
    <3>2. CASE ~(l < line)
      <4>1. l = line /\ pos = LineLen
        BY <1>1, <2>4, <3>2
      <4>2. ch.good /\ IsNewline(ch) /\ ch.line = l
        BY <2>2, <4>1 DEF IsNewline
      <4>3. Full => DisturbedBy(faults', l)
        BY <2>5, <4>1 DEF DisturbedBy
      <4> QED
        BY <2>3, <4>2, <4>3
    <3> QED
      BY <3>1, <3>2
  <2>7. Awake'
    <3> SUFFICES ASSUME line' > 1, inError' PROVE DisturbedBy(faults', line')
      BY DEF Awake, DisturbedBy
    <3>1. CASE Full
      BY <2>5, <3>1
    <3>2. CASE ~Full
      <4>1. inError /\ pos # LineLen
        BY <2>2, <2>3, <3>2 DEF IsNewline
      <4>2. line' = line
        BY <2>4, <4>1
      <4>3. DisturbedBy(faults, line)
        BY <4>1, <4>2 DEF ResyncInv, Awake
      <4> QED
        BY <1>1, <4>2, <4>3 DEF DisturbedBy
    <3> QED
      BY <3>1, <3>2
  <2> QED
    BY <2>3, <2>6, <2>7 DEF ResyncInv
<1>5. CASE ReceiveGarbage
  <2>1. line \in 1 .. MaxLine
    BY <1>1, <1>5 DEF ReceiveGarbage
  <2>2. PICK p \in {1, LineLen} :
           UART_Handler([line |-> 0, pos |-> p, good |-> FALSE], TRUE)
    BY <1>5 DEF ReceiveGarbage
  <2>3. [line |-> 0, pos |-> p, good |-> FALSE] \in Char
    BY DEF Char
  <2>4. \/ pos < LineLen /\ line' = line
        \/ pos = LineLen /\ line' = line + 1
    BY <1>1, <1>5, <2>1, AfterType DEF ReceiveGarbage
  <2>5. <<line, pos>> \in faults'
    BY <1>5 DEF ReceiveGarbage
  <2>6. DisturbedBy(faults', line')
    <3>1. PICK l \in Nat : l = line
      BY <1>1
    <3>2. DisturbedBy(faults', l) /\ (pos = LineLen => DisturbedBy(faults', l + 1))
      BY <1>1, <2>5, <3>1, FaultDisturbs
    <3> QED
      BY <2>4, <3>1, <3>2 DEF DisturbedBy
  <2> QED
    BY <1>3, <2>2, <2>3, <2>4, <2>5, <2>6
<1>6. CASE ReceiveOverrun
  <2>1. PICK l \in 1 .. MaxLine, p \in 1 .. LineLen :
           /\ l = After(line, pos)[1] /\ p = After(line, pos)[2]
           /\ UART_Handler([line |-> l, pos |-> p, good |-> FALSE], TRUE)
           /\ faults' = faults \cup {<<line, pos>>, <<l, p>>}
           /\ line' = After(l, p)[1] /\ pos' = After(l, p)[2]
    BY <1>6 DEF ReceiveOverrun
  <2>2. [line |-> l, pos |-> p, good |-> FALSE] \in Char
    BY DEF Char
  <2>3. line \in 1 .. MaxLine
    <3>1. l = line \/ l = line + 1
      BY <2>1 DEF After
    <3> QED
      BY <1>1, <3>1
  <2>4. /\ pos < LineLen => l = line /\ p = pos + 1
        /\ pos = LineLen => l = line + 1 /\ p = 1
    BY <1>1, <2>1, <2>3, AfterType
  <2>5. \/ p < LineLen /\ line' = l
        \/ p = LineLen /\ line' = l + 1
    <3>1. /\ p < LineLen => After(l, p)[1] = l
          /\ p = LineLen => After(l, p)[1] = l + 1
      BY AfterType
    <3>2. p < LineLen \/ p = LineLen
      OBVIOUS
    <3> QED
      BY <2>1, <3>1, <3>2
  <2>6. line' \in {line, line + 1}
    BY <1>1, <2>4, <2>5
  <2>7. DisturbedBy(faults', line')
    <3>1. DisturbedBy(faults', l) /\ (p = LineLen => DisturbedBy(faults', l + 1))
      <4>1. l \in Nat /\ p \in Nat /\ <<l, p>> \in faults'
        BY <2>1
      <4> QED
        BY <1>1, <4>1, FaultDisturbs
    <3> QED
      BY <2>5, <3>1 DEF DisturbedBy
  <2> QED
    BY <1>3, <2>1, <2>2, <2>6, <2>7
<1>7. CASE ReceiveError
  <2>1. UNCHANGED <<rxBuffer, nextIn, nextOut, parsed, seen, whole, line, pos>>
    BY <1>7 DEF ReceiveError
  <2>2. \A a, b : Ends(a, b) => Ends(a, b)'
    BY <1>2 DEF Ends, IsNewline
  <2>3. LinesWhole'
    BY <1>2, <2>1 DEF ResyncInv, LinesWhole, Ends, IsNewline, Occupied, Dist, Inc
  <2>4. SeenSoFar'
    BY <2>1 DEF ResyncInv, SeenSoFar, IsNewline
  <2>5. AllThere'
    BY <1>2, <2>1 DEF ResyncInv, AllThere, Waiting, Occupied, Dist, IsNewline
  <2>6. DisturbedBy(faults', line')
    <3>1. <<line, pos>> \in faults'
      BY <1>7 DEF ReceiveError
    <3>2. PICK l \in Nat : l = line
      BY <1>1
    <3>3. DisturbedBy(faults', l)
      BY <1>1, <3>1, <3>2, FaultDisturbs
    <3> QED
      BY <2>1, <3>2, <3>3 DEF DisturbedBy
  <2> QED
    BY <2>3, <2>4, <2>5, <2>6 DEF ResyncInv, Awake
<1> QED
  BY <1>4, <1>5, <1>6, <1>7

\* The loop hands over what is in the buffer, and counts it.
LEMMA LoopResync ==
    ASSUME ResyncInv, SpliceInv', TypeOK', Test \/ Fetch \/ Advance
    PROVE  ResyncInv'
<1> USE RxAssumption
<1>1. /\ TypeOK /\ nextIn \in Slots /\ nextOut \in Slots
      /\ rxBuffer \in [Slots -> Char] /\ parsed \in Char
  BY DEF ResyncInv, SpliceInv, TypeOK
<1>2. CASE Test \/ Fetch
  BY <1>2 DEF Test, Fetch, rxVars, lineVars, ghostVars, ResyncInv, LinesWhole,
     Ends, IsNewline, Occupied, Dist, Inc, SeenSoFar, AllThere, Waiting, Awake
<1>3. CASE Advance
  <2>1. /\ nextOut' = Inc(nextOut) /\ parsed' = c /\ c = rxBuffer[nextOut]
        /\ nextIn # nextOut
        /\ seen' = IF IsNewline(c) THEN 0 ELSE seen + 1
        /\ whole' = whole \cup
                    IF c.good /\ IsNewline(c) /\ seen = LineLen - 1
                    THEN {c.line} ELSE {}
        /\ UNCHANGED <<rxBuffer, nextIn, inError, line, faults>>
    BY <1>3 DEF Advance, ResyncInv, SpliceInv, Reading, lineVars
  <2>2. \A i \in Slots : /\ Occupied(i)' => Occupied(i)
                         /\ Occupied(i) => i = nextOut \/ Occupied(i)'
    BY <1>1, <2>1 DEF Occupied, Dist, Inc, Slots
  <2>3. Occupied(nextOut)
    BY <1>1, <2>1 DEF Occupied, Dist, Slots
  <2>4. LinesWhole'
    <3>1. nextIn # Inc(nextOut) => Ends(c, rxBuffer[Inc(nextOut)])
      BY <1>1, <2>1, <2>3 DEF ResyncInv, LinesWhole
    <3>2. ASSUME NEW i \in Slots, Occupied(i)', Inc(i) # nextIn
          PROVE  Ends(rxBuffer[i], rxBuffer[Inc(i)])
      BY <2>2, <3>2 DEF ResyncInv, LinesWhole
    <3> QED
      BY <2>1, <3>1, <3>2 DEF LinesWhole, Ends, IsNewline, Inc
  <2>5. c \in Char /\ Follows(parsed, c) /\ Ends(parsed, c)
    BY <1>1, <2>1 DEF ResyncInv, SpliceInv, Chained, LinesWhole
  <2>6. IsNewline(parsed) => seen = 0
    BY DEF ResyncInv, SeenSoFar
  <2>7. ~IsNewline(parsed) /\ parsed.good /\ parsed.line > 1 => seen = parsed.pos
    BY DEF ResyncInv, SeenSoFar
  <2>8. /\ c.pos \in Nat /\ c.line \in Nat
        /\ parsed.pos \in Nat /\ parsed.line \in Nat /\ seen \in Nat
    BY <1>1, <2>5 DEF Char, TypeOK
  <2>9. SeenSoFar'
    <3>1. CASE IsNewline(c)
      BY <2>1, <3>1 DEF SeenSoFar, IsNewline
    <3>2. CASE ~IsNewline(c)
      <4>1. c.good /\ c.line > 1 => seen + 1 = c.pos
        BY <2>5, <2>6, <2>7, <2>8, <3>2 DEF Follows
      <4> QED
        BY <2>1, <3>2, <4>1 DEF SeenSoFar, IsNewline
    <3> QED
      BY <3>1, <3>2
  <2>10. ASSUME NEW l \in Nat, 1 < l, l < line
         PROVE  DisturbedBy(faults, l) \/ l \in whole' \/ Waiting(l)'
    <3>1. CASE ~DisturbedBy(faults, l) /\ c.good /\ c.line = l /\ IsNewline(c)
      <4>1. parsed.good /\ parsed.line = l /\ parsed.pos = LineLen - 1
        BY <2>5, <2>10, <3>1 DEF Ends
      <4>2. ~IsNewline(parsed)
        BY <4>1 DEF IsNewline
      <4>3. seen = LineLen - 1
        BY <2>7, <2>10, <4>1, <4>2
      <4> QED
        BY <2>1, <3>1, <4>3
    <3>2. CASE Waiting(l) /\ ~(c.good /\ c.line = l /\ IsNewline(c))
      <4>1. PICK i \in Slots :
               /\ Occupied(i)
               /\ rxBuffer[i].good /\ rxBuffer[i].line = l
               /\ IsNewline(rxBuffer[i])
        BY <3>2 DEF Waiting
      <4>2. Occupied(i)'
        BY <2>1, <2>2, <3>2, <4>1
      <4> QED
        BY <2>1, <4>1, <4>2 DEF Waiting, IsNewline
    <3>3. DisturbedBy(faults, l) \/ l \in whole \/ Waiting(l)
      BY <2>10 DEF ResyncInv, AllThere
    <3>4. whole \subseteq whole'
      BY <2>1
    <3> QED
      BY <3>1, <3>2, <3>3, <3>4
  <2>11. AllThere'
    BY <2>1, <2>10 DEF AllThere
  <2>12. Awake'
    BY <2>1 DEF ResyncInv, Awake
  <2> QED
    BY <2>4, <2>9, <2>11, <2>12 DEF ResyncInv
<1> QED
  BY <1>2, <1>3

\* Every step keeps the invariant.
LEMMA ResyncStep == ResyncInv /\ [Next]_vars => ResyncInv'
<1> SUFFICES ASSUME ResyncInv, [Next]_vars PROVE ResyncInv'
  OBVIOUS
<1>1. TypeOK' /\ SpliceInv'
  BY StepType, SpliceStep DEF ResyncInv, SpliceInv
<1>2. CASE ReceiveGood \/ ReceiveGarbage \/ ReceiveOverrun \/ ReceiveError
  BY <1>1, <1>2, InterruptResync
<1>3. CASE Test \/ Fetch \/ Advance
  BY <1>1, <1>3, LoopResync
<1>4. CASE UNCHANGED vars
  BY <1>1, <1>4 DEF vars, ResyncInv, LinesWhole, Ends, IsNewline, Occupied,
     Dist, Inc, SeenSoFar, AllThere, Waiting, Awake
<1> QED
  BY <1>2, <1>3, <1>4 DEF Next

\* An error costs the line it happens in, or the next one when it happens at
\* its newline, and no more: whatever the UART reports and however long the
\* main loop is away, every other line reaches the parser whole.  For a buffer
\* of any size, lines of any length and any number of errors.
THEOREM Recovers == Spec => []Resynchronizes
<1>1. ResyncInv => Resynchronizes
  <2> SUFFICES ASSUME ResyncInv, nextIn = nextOut,
                      NEW l \in 2 .. line - 1, ~Disturbed(l)
               PROVE  l \in whole
    BY DEF Resynchronizes
  <2>1. l \in Nat /\ 1 < l /\ l < line
    BY DEF ResyncInv, SpliceInv, TypeOK
  <2>2. ~DisturbedBy(faults, l)
    BY DEF Disturbed, DisturbedBy
  <2>3. ~Waiting(l)
    BY RxAssumption DEF ResyncInv, SpliceInv, TypeOK, Waiting, Occupied, Dist,
       Slots
  <2> QED
    BY <2>1, <2>2, <2>3 DEF ResyncInv, AllThere
<1> QED
  BY <1>1, InitResync, ResyncStep, PTL DEF Spec
=============================================================================
