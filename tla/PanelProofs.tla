----------------------------- MODULE PanelProofs -----------------------------
(***************************************************************************)
(* Proofs about the small parts of the panel, for every value of their      *)
(* constants: the settings in use are those the panel will start with,      *)
(* every beep ends, the ring of commands holds the last commands sent, the  *)
(* console the last lines that arrived, and a picture is shown whole.  They *)
(* are proved of each part by itself and, at the end, of the panel, with    *)
(* what ObjectModelProofs proves of the lists and columns.                  *)
(***************************************************************************)
EXTENDS Panel, ObjectModelProofs, SequenceTheorems, TLAPS

-----------------------------------------------------------------------------
(* The settings                                                            *)

LEMMA FlashConstants == Defaults \in Values /\ Invalid \notin Values
BY PanelAssumption DEF Flash!SettingsAssumption

Known == Values \cup {Invalid}

(* While a save is under way or the panel is off, what flash memory holds   *)
(* may be anything that was written; the loop knows it again when the save  *)
(* has ended.                                                               *)
FlashTypes ==
    /\ doing \in {"off", "running", "erasing", "writing", "loading"}
    /\ onSetup \in BOOLEAN /\ restarts \in BOOLEAN /\ writeFailed \in BOOLEAN
    /\ nvData \in Known /\ savedNvData \in Known /\ flash \in Known

\* Only a factory reset, which restarts the panel, saves invalid settings.
SaveIsOf ==
    doing \in {"erasing", "writing", "loading"} /\ ~restarts => nvData \in Values
Running == doing = "running" => ~restarts /\ nvData \in Values

\* What has been written is what is in use, unless the write failed.
Written == doing = "loading" => writeFailed \/ flash = nvData

FlashInv ==
    FlashTypes /\ SaveIsOf /\ Running /\ Written /\ Flash!SettingsKept

LEMMA FlashInit == Flash!Init => FlashInv
BY FlashConstants DEF Flash!Init, FlashInv, FlashTypes, Known, SaveIsOf, Running,
   Written, Flash!SettingsKept

\* Every step keeps the invariant.
LEMMA FlashStep == ASSUME FlashInv, [Flash!Next]_(Flash!vars) PROVE FlashInv'
<1> USE FlashConstants
    DEF FlashInv, FlashTypes, Known, SaveIsOf, Running, Written, Flash!SettingsKept
<1>1. CASE Flash!Start
  BY <1>1 DEF Flash!Start
<1>2. CASE Flash!Change
  BY <1>2 DEF Flash!Change
<1>3. CASE Flash!ChangeAndRestart
  BY <1>3 DEF Flash!ChangeAndRestart
<1>4. CASE Flash!ChangePage
  BY <1>4 DEF Flash!ChangePage, Flash!IsSaveNeeded
<1>5. CASE Flash!FactoryReset
  BY <1>5 DEF Flash!FactoryReset
<1>6. CASE Flash!Erase
  BY <1>6 DEF Flash!Erase
<1>7. CASE Flash!Write
  BY <1>7 DEF Flash!Write
<1>8. CASE Flash!Load
  BY <1>8 DEF Flash!Load
<1>9. CASE Flash!PowerFails
  BY <1>9 DEF Flash!PowerFails
<1>10. CASE UNCHANGED Flash!vars
  BY <1>10 DEF Flash!vars
<1> QED
  BY <1>1, <1>2, <1>3, <1>4, <1>5, <1>6, <1>7, <1>8, <1>9, <1>10 DEF Flash!Next

(* Whatever is set, wherever the power fails and whichever writes fail, the *)
(* panel knows what flash memory holds, and off the Setup page it holds the *)
(* settings in use unless the last write failed (SaveSettings, ChangePage). *)
THEOREM Kept == Flash!Spec => []SettingsKept
<1>1. FlashInv => SettingsKept
  BY DEF FlashInv, SettingsKept
<1> QED
  BY <1>1, FlashInit, FlashStep, PTL DEF Flash!Spec

-----------------------------------------------------------------------------
(* The sounder                                                             *)

LEMMA SounderConstants ==
    /\ Lengths \subseteq Int
    /\ MaxLength \in Nat /\ TouchLength \in Nat /\ Modulus \in Nat
    /\ 0 < TouchLength /\ TouchLength <= MaxLength /\ MaxLength < Modulus
BY PanelAssumption DEF Sounder!BuzzerAssumption

SounderTypes ==
    /\ beepLength \in Lengths \cup {0}
    /\ at \in {"loop", "in", "enable", "count", "leave"}
    /\ ms \in 0 .. MaxLength /\ beepTicksToGo \in 0 .. MaxLength
    /\ inBuzzer \in BOOLEAN /\ sounding \in BOOLEAN

\* The interrupt counts nothing down while the loop is in Beep.
KeptAway == inBuzzer <=> at # "loop"

\* Where Beep has found silence, and what it makes of it.
Silent == at \in {"enable", "count"} => beepTicksToGo = 0
Sounds ==
    /\ at = "count" => sounding
    /\ at # "count" => (sounding <=> beepTicksToGo # 0)
Positive == at # "loop" => ms > 0

SounderInv == SounderTypes /\ KeptAway /\ Silent /\ Sounds /\ Positive

LEMMA Modulo == ASSUME NEW x \in Int, NEW n \in Int, 0 <= x, x < n PROVE x % n = x
BY Z3

LEMMA SounderInit == Sounder!Init => SounderInv
<1>1. 0 \in 0 .. MaxLength
  BY SounderConstants
<1> QED
  BY <1>1, Zenon
     DEF Sounder!Init, SounderInv, SounderTypes, KeptAway, Silent, Sounds, Positive

\* What Beep is called with is a length that can be counted.
LEMMA EnterStep ==
    ASSUME SounderInv, at = "loop", NEW length \in 1 .. MaxLength,
           Sounder!Enter(length), beepLength' \in Lengths \cup {0},
           UNCHANGED <<beepTicksToGo, sounding>>
    PROVE  SounderInv'
<1>1. length % Modulus = length
  BY SounderConstants, Modulo
<1> QED
  BY <1>1, SounderConstants
     DEF Sounder!Enter, SounderInv, SounderTypes, KeptAway, Silent, Sounds, Positive

\* Every step keeps the invariant.
LEMMA SounderStep ==
    ASSUME SounderInv, [Sounder!Next]_(Sounder!vars) PROVE SounderInv'
<1> USE SounderConstants
    DEF SounderInv, SounderTypes, KeptAway, Silent, Sounds, Positive
<1>1. CASE Sounder!Receive
  BY <1>1 DEF Sounder!Receive
<1>2. CASE Sounder!HandleBeep
  <2>1. CASE Sounder!Playable(beepLength)
    <3> DEFINE length == IF beepLength > MaxLength THEN MaxLength ELSE beepLength
    <3>1. length \in 1 .. MaxLength
      BY <2>1 DEF Sounder!Playable
    <3>2. Sounder!Enter(length)
      BY <1>2, <2>1 DEF Sounder!HandleBeep
    <3> QED
      BY <1>2, <3>1, <3>2, EnterStep DEF Sounder!HandleBeep
  <2>2. CASE ~Sounder!Playable(beepLength)
    BY <1>2, <2>2 DEF Sounder!HandleBeep
  <2> QED
    BY <2>1, <2>2
<1>3. CASE Sounder!TouchBeep
  <2>1. TouchLength \in 1 .. MaxLength
    OBVIOUS
  <2> QED
    BY <1>3, <2>1, EnterStep DEF Sounder!TouchBeep
<1>4. CASE Sounder!Test
  BY <1>4 DEF Sounder!Test
<1>5. CASE Sounder!Enable
  BY <1>5 DEF Sounder!Enable
<1>6. CASE Sounder!Count
  BY <1>6 DEF Sounder!Count
<1>7. CASE Sounder!Leave
  BY <1>7 DEF Sounder!Leave
<1>8. CASE Sounder!Tick
  BY <1>8 DEF Sounder!Tick
<1>9. CASE UNCHANGED Sounder!vars
  BY <1>9 DEF Sounder!vars
<1> QED
  BY <1>1, <1>2, <1>3, <1>4, <1>5, <1>6, <1>7, <1>8, <1>9 DEF Sounder!Next

(* The sounder is on exactly while ticks are counted, and never for longer  *)
(* than the limit, wherever the tick interrupt comes in Beep and whatever   *)
(* length is received.                                                      *)
THEOREM Ends == Sounder!Spec => []BeepEnds
<1>1. SounderInv => BeepEnds
  BY SounderConstants DEF SounderInv, SounderTypes, Sounds, BeepEnds, Sounder!BeepEnds
<1> QED
  BY <1>1, SounderInit, SounderStep, PTL DEF Sounder!Spec

-----------------------------------------------------------------------------
(* The ring of commands                                                    *)

LEMMA KeyboardConstants ==
    NumBuffers \in Nat /\ NumBuffers >= 2
BY PanelAssumption DEF Keyboard!HistoryAssumption

\* One more than fits begins again.
LEMMA Wrap ==
    ASSUME NEW x \in Int, NEW n \in Int, 0 <= n, n <= x, x < n + n
    PROVE  x % n = x - n
BY Z3

Ring == 0 .. NumBuffers - 1

LEMMA BackInRing ==
    ASSUME NEW b \in Ring, NEW n \in 0 .. NumBuffers - 1
    PROVE  Keyboard!Back(b, n) = IF n <= b THEN b - n ELSE b + NumBuffers - n
<1>1. b \in Int /\ n \in Int /\ NumBuffers \in Int
  BY KeyboardConstants DEF Ring
<1> DEFINE x == b + NumBuffers - n
<1>4. x \in Int /\ Keyboard!Back(b, n) = x % NumBuffers
  BY <1>1 DEF Keyboard!Back
<1>2. CASE n <= b
  <2>1. NumBuffers <= x /\ x < NumBuffers + NumBuffers /\ x - NumBuffers = b - n
    BY <1>1, <1>2, KeyboardConstants DEF Ring
  <2>2. x % NumBuffers = x - NumBuffers
    <3> HIDE DEF x
    <3>1. NumBuffers \in Int /\ 0 <= NumBuffers
      BY KeyboardConstants
    <3> QED
      BY <1>4, <2>1, <3>1, Wrap
  <2> QED
    BY <1>2, <1>4, <2>1, <2>2
<1>3. CASE ~(n <= b)
  <2>1. 0 <= x /\ x < NumBuffers
    BY <1>1, <1>3, KeyboardConstants DEF Ring
  <2>2. x % NumBuffers = x
    <3> HIDE DEF x
    <3> QED
      BY <1>1, <1>4, <2>1, Modulo
  <2> QED
    BY <1>3, <1>4, <2>2
<1> QED
  BY <1>2, <1>3

\* Going back, but not once round, leads to another buffer.
LEMMA BackElsewhere ==
    ASSUME NEW b \in Ring, NEW n \in 1 .. NumBuffers - 1
    PROVE  Keyboard!Back(b, n) \in Ring \ {b}
<1>1. n \in 0 .. NumBuffers - 1
  BY KeyboardConstants
<1>2. Keyboard!Back(b, n) = IF n <= b THEN b - n ELSE b + NumBuffers - n
  BY <1>1, BackInRing
<1> QED
  BY <1>1, <1>2, KeyboardConstants DEF Ring

LEMMA NextInRing ==
    ASSUME NEW b \in Ring
    PROVE  (b + 1) % NumBuffers = IF b = NumBuffers - 1 THEN 0 ELSE b + 1
<1>1. b \in Int /\ NumBuffers \in Int
  BY KeyboardConstants DEF Ring
<1>2. CASE b = NumBuffers - 1
  BY <1>1, <1>2, KeyboardConstants, Wrap
<1>3. CASE b # NumBuffers - 1
  BY <1>1, <1>3, KeyboardConstants, Modulo DEF Ring
<1> QED
  BY <1>2, <1>3

Texts == Seq(Keys)
KeyboardTypes ==
    /\ userCommandBuffers \in [Ring -> Texts]
    /\ currentUserCommandBuffer \in Ring /\ currentHistoryBuffer \in Ring
    /\ sent \in Seq(Texts) /\ Len(sent) <= NumBuffers - 1
    /\ \A n \in 1 .. Len(sent) : sent[n] # <<>>

KeyboardInv == KeyboardTypes /\ Keyboard!HistoryIsOfSent

LEMMA KeyboardInit == Keyboard!Init => KeyboardInv
<1> SUFFICES ASSUME Keyboard!Init PROVE KeyboardInv
  OBVIOUS
<1>1. 0 \in Ring /\ <<>> \in Texts /\ <<>> \in Seq(Texts) /\ Len(<<>>) = 0
  BY KeyboardConstants DEF Ring, Texts
<1>2. userCommandBuffers = [b \in Ring |-> <<>>]
  BY DEF Keyboard!Init, Keyboard!Buffers, Ring
<1>3. KeyboardTypes
  BY <1>1, <1>2, KeyboardConstants DEF Keyboard!Init, KeyboardTypes
<1>4. Keyboard!HistoryIsOfSent
  <2> SUFFICES ASSUME NEW n \in 1 .. NumBuffers - 1
               PROVE  userCommandBuffers[Keyboard!Back(currentUserCommandBuffer, n)] = <<>>
    BY DEF Keyboard!HistoryIsOfSent, Keyboard!Init
  <2>1. Keyboard!Back(currentUserCommandBuffer, n) \in Ring
    BY <1>3, BackElsewhere DEF KeyboardTypes
  <2> QED
    BY <1>2, <2>1
<1> QED
  BY <1>3, <1>4 DEF KeyboardInv

\* The buffers with what was sent are others than the one being edited.
LEMMA EditStep ==
    ASSUME KeyboardInv, NEW text \in Texts, Keyboard!Edit(text),
           UNCHANGED <<currentUserCommandBuffer, sent>>,
           currentHistoryBuffer' \in Ring
    PROVE  KeyboardInv'
<1>1. KeyboardTypes'
  BY DEF KeyboardInv, KeyboardTypes, Keyboard!Edit
<1>2. ASSUME NEW n \in 1 .. NumBuffers - 1
      PROVE  userCommandBuffers'[Keyboard!Back(currentUserCommandBuffer, n)] =
                userCommandBuffers[Keyboard!Back(currentUserCommandBuffer, n)]
  <2>1. Keyboard!Back(currentUserCommandBuffer, n) \in Ring \ {currentUserCommandBuffer}
    BY BackElsewhere DEF KeyboardInv, KeyboardTypes
  <2> QED
    BY <2>1 DEF KeyboardInv, KeyboardTypes, Keyboard!Edit
<1>3. Keyboard!HistoryIsOfSent'
  BY <1>2 DEF KeyboardInv, Keyboard!HistoryIsOfSent, Keyboard!Back
<1> QED
  BY <1>1, <1>3 DEF KeyboardInv

\* A command that was not the last one sent pushes the others back.
LEMMA SendStep ==
    ASSUME KeyboardInv, Keyboard!SendKeyboardCommand PROVE KeyboardInv'
<1> DEFINE cur == currentUserCommandBuffer
           command == userCommandBuffers[cur]
           next == (cur + 1) % NumBuffers
<1>1. /\ cur \in Ring /\ userCommandBuffers \in [Ring -> Texts] /\ command \in Texts
      /\ command # <<>>
      /\ sent \in Seq(Texts) /\ Len(sent) \in Nat /\ Len(sent) <= NumBuffers - 1
      /\ \A n \in 1 .. Len(sent) : sent[n] \in Texts /\ sent[n] # <<>>
      /\ NumBuffers \in Nat /\ NumBuffers >= 2
      /\ <<>> \in Texts
  BY KeyboardConstants, ElementOfSeq
     DEF KeyboardInv, KeyboardTypes, Keyboard!SendKeyboardCommand, Keyboard!command,
         Texts
<1>2. \A n \in 1 .. NumBuffers - 1 :
         userCommandBuffers[Keyboard!Back(cur, n)] =
            IF n <= Len(sent) THEN sent[n] ELSE <<>>
  BY DEF KeyboardInv, Keyboard!HistoryIsOfSent
<1>3. Keyboard!Repeats <=> sent # <<>> /\ Head(sent) = command
  <2>1. userCommandBuffers[Keyboard!Back(cur, 1)] =
           IF 1 <= Len(sent) THEN sent[1] ELSE <<>>
    BY <1>1, <1>2
  <2>2. sent # <<>> <=> 1 <= Len(sent)
    BY <1>1, EmptySeq
  <2>3. sent # <<>> => Head(sent) = sent[1]
    BY <1>1
  <2> QED
    BY <1>1, <2>1, <2>2, <2>3 DEF Keyboard!Repeats, Keyboard!command
<1>4. CASE Keyboard!Repeats
  <2>1. Keyboard!Edit(<<>>) /\ UNCHANGED <<currentUserCommandBuffer, sent>>
        /\ currentHistoryBuffer' = cur
    BY <1>3, <1>4 DEF Keyboard!SendKeyboardCommand, Keyboard!Edit, Keyboard!command
  <2> QED
    BY <1>1, <2>1, EditStep
<1>5. CASE ~Keyboard!Repeats
  <2> DEFINE size == IF Len(sent) < NumBuffers - 1 THEN Len(sent) + 1
                     ELSE NumBuffers - 1
             all == <<command>> \o sent
  <2>1. Keyboard!Min({NumBuffers - 1, Len(sent) + 1}) = size
    BY <1>1 DEF Keyboard!Min
  <2>2. /\ currentUserCommandBuffer' = next /\ currentHistoryBuffer' = next
        /\ userCommandBuffers' = [userCommandBuffers EXCEPT ![next] = <<>>]
        /\ sent' = SubSeq(all, 1, size)
    BY <1>3, <1>5, <2>1 DEF Keyboard!SendKeyboardCommand, Keyboard!command
  <2>3. /\ all \in Seq(Texts) /\ Len(all) = Len(sent) + 1
        /\ all[1] = command
        /\ \A n \in 1 .. Len(sent) : all[n + 1] = sent[n]
    BY <1>1
  <2>4. size \in 1 .. NumBuffers - 1 /\ size <= Len(all)
    BY <1>1, <2>3
  <2>5. /\ sent' \in Seq(Texts) /\ Len(sent') = size
        /\ \A n \in 1 .. size : sent'[n] = all[n]
    BY <2>2, <2>3, <2>4
  <2> HIDE DEF all
  <2>6. \A n \in 1 .. size : sent'[n] = IF n = 1 THEN command ELSE sent[n - 1]
    <3> SUFFICES ASSUME NEW n \in 1 .. size, n # 1 PROVE all[n] = sent[n - 1]
      BY <2>3, <2>4, <2>5
    <3>1. n - 1 \in 1 .. Len(sent) /\ (n - 1) + 1 = n
      BY <1>1, <2>3, <2>4
    <3> QED
      BY <2>3, <3>1
  <2>7. next = IF cur = NumBuffers - 1 THEN 0 ELSE cur + 1
    BY <1>1, NextInRing
  <2>8. next \in Ring
    BY <1>1, <2>7 DEF Ring
  <2>9. KeyboardTypes'
    BY <1>1, <2>2, <2>4, <2>5, <2>6, <2>8 DEF KeyboardTypes
  <2>10. ASSUME NEW n \in 1 .. NumBuffers - 1
         PROVE  userCommandBuffers'[Keyboard!Back(next, n)] =
                   IF n <= Len(sent') THEN sent'[n] ELSE <<>>
    <3> HIDE DEF next, size
    <3>1. /\ Keyboard!Back(cur, n - 1) \in Ring \ {next}
          /\ Keyboard!Back(next, n) = Keyboard!Back(cur, n - 1)
      <4>1. n \in 0 .. NumBuffers - 1 /\ n - 1 \in 0 .. NumBuffers - 1
        BY <1>1
      <4>2. /\ Keyboard!Back(cur, n - 1) =
                   IF n - 1 <= cur THEN cur - (n - 1) ELSE cur + NumBuffers - (n - 1)
            /\ Keyboard!Back(next, n) =
                   IF n <= next THEN next - n ELSE next + NumBuffers - n
        BY <1>1, <2>8, <4>1, BackInRing
      <4> QED
        BY <1>1, <2>7, <2>8, <4>1, <4>2 DEF Ring
    <3>2. userCommandBuffers'[Keyboard!Back(next, n)] =
             userCommandBuffers[Keyboard!Back(cur, n - 1)]
      BY <1>1, <2>2, <3>1
    <3>3. CASE n = 1
      <4>1. Keyboard!Back(cur, n - 1) = cur
        BY <1>1, <3>3, BackInRing DEF Ring
      <4> QED
        BY <2>4, <2>5, <2>6, <3>2, <3>3, <4>1
    <3>4. CASE n # 1
      <4>1. n - 1 \in 1 .. NumBuffers - 1
        BY <1>1, <3>4
      <4>2. userCommandBuffers[Keyboard!Back(cur, n - 1)] =
               IF n - 1 <= Len(sent) THEN sent[n - 1] ELSE <<>>
        BY <1>2, <4>1
      <4>3. n <= size <=> n - 1 <= Len(sent)
        BY <1>1 DEF size
      <4> QED
        BY <1>1, <2>4, <2>5, <2>6, <3>2, <3>4, <4>2, <4>3
    <3> QED
      BY <3>3, <3>4
  <2>11. Keyboard!HistoryIsOfSent'
    BY <2>2, <2>10 DEF Keyboard!HistoryIsOfSent, Keyboard!Back
  <2> QED
    BY <2>9, <2>11 DEF KeyboardInv
<1> QED
  BY <1>4, <1>5

LEMMA KeyboardStep ==
    ASSUME KeyboardInv, [Keyboard!Next]_(Keyboard!vars) PROVE KeyboardInv'
<1> DEFINE command == userCommandBuffers[currentUserCommandBuffer]
<1>0. /\ userCommandBuffers \in [Ring -> Texts] /\ command \in Texts /\ <<>> \in Texts
      /\ currentUserCommandBuffer \in Ring /\ currentHistoryBuffer \in Ring
  BY DEF KeyboardInv, KeyboardTypes, Texts
<1>1. CASE Keyboard!Key
  <2>1. PICK key \in Keys : Keyboard!Edit(Append(command, key))
    BY <1>1 DEF Keyboard!Key, Keyboard!command
  <2>2. Append(command, key) \in Texts
    BY <1>0 DEF Texts
  <2> QED
    BY <1>0, <1>1, <2>1, <2>2, EditStep DEF Keyboard!Key
<1>2. CASE Keyboard!Backspace
  <2>1. Keyboard!Front(command) \in Texts
    BY <1>0, <1>2 DEF Keyboard!Backspace, Keyboard!command, Keyboard!Front, Texts
  <2> QED
    BY <1>0, <1>2, <2>1, EditStep DEF Keyboard!Backspace, Keyboard!command
<1>3. ASSUME NEW b \in Ring, Keyboard!Fetch(b) PROVE KeyboardInv'
  <2>1. (IF b = currentUserCommandBuffer THEN <<>> ELSE userCommandBuffers[b]) \in Texts
    BY <1>0
  <2> QED
    BY <1>3, <2>1, EditStep DEF Keyboard!Fetch
<1>4. CASE Keyboard!Up
  <2>1. Keyboard!Back(currentHistoryBuffer, 1) \in Ring
    BY <1>0, BackElsewhere, KeyboardConstants
  <2> QED
    BY <1>3, <1>4, <2>1 DEF Keyboard!Up
<1>5. CASE Keyboard!Down
  <2>1. (currentHistoryBuffer + 1) % NumBuffers \in Ring
    BY <1>0, NextInRing, KeyboardConstants DEF Ring
  <2> QED
    BY <1>3, <1>5, <2>1 DEF Keyboard!Down
<1>6. CASE Keyboard!SendKeyboardCommand
  BY <1>6, SendStep
<1>7. CASE UNCHANGED Keyboard!vars
  BY <1>7 DEF KeyboardInv, KeyboardTypes, Keyboard!HistoryIsOfSent, Keyboard!Back,
     Keyboard!vars
<1> QED
  BY <1>1, <1>2, <1>4, <1>5, <1>6, <1>7 DEF Keyboard!Next

(* Up finds the commands sent before, in their order and as many as there   *)
(* are buffers, however they were fetched and edited since (ProcessTouch).  *)
THEOREM RingHoldsSent == Keyboard!Spec => []HistoryIsOfSent
<1>1. KeyboardInv => HistoryIsOfSent
  BY DEF KeyboardInv, HistoryIsOfSent
<1> QED
  BY <1>1, KeyboardInit, KeyboardStep, PTL DEF Keyboard!Spec

-----------------------------------------------------------------------------
(* The console                                                             *)

LEMMA ConsoleConstants ==
    /\ NumMessageRows \in Nat \ {0}
    /\ MaxLines \in Nat /\ MaxResponses \in Nat /\ MaxOwn \in Nat
BY PanelAssumption DEF Console!LogAssumption

LogRows == 0 .. NumMessageRows - 1
LogMessage == [id : Nat, lines : Nat]
LogLine == [of : Nat, n : Nat]

ConsoleTypes ==
    /\ {response, answered, newMessage} \subseteq LogMessage
    /\ logAnswer \in {"none", "seq", "resp", "end"}
    /\ {messageSeq, newMessageSeq, arrivedSeq, own} \subseteq Nat
    /\ messages \in [LogRows -> LogLine] /\ messageStartRow \in LogRows
    /\ arrived \in Seq(LogLine) /\ Len(arrived) <= NumMessageRows

(* The panel takes a response to be new by its number.  Number 0 is none,   *)
(* so that the printer has sent one when the panel knows another number.    *)
AnswerInv ==
    /\ messageSeq = arrivedSeq
    /\ response.id = 0 => messageSeq = 0 /\ answered.id = 0
    /\ logAnswer \in {"seq", "resp"} => (answered.id = 0 => messageSeq = 0)
    /\ logAnswer = "resp" => newMessageSeq = answered.id
    /\ logAnswer = "end" =>
          \/ answered = Console!NoMessage /\ newMessageSeq = messageSeq
          \/ /\ newMessageSeq = answered.id /\ newMessage = answered
             /\ answered.id = 0 => messageSeq = 0

ConsoleInv == ConsoleTypes /\ AnswerInv /\ Console!LogIsOfArrived

\* The row that is the n-th from the oldest, and the line it must hold.
RowAt(start, n) == (start + n - 1) % NumMessageRows
LastLine(lines, n) ==
    LET k == n - NumMessageRows + Len(lines)
    IN  IF k >= 1 THEN lines[k] ELSE Console!EmptyRow

LEMMA LogByRow ==
    Console!LogIsOfArrived <=>
        \A n \in 1 .. NumMessageRows :
            messages[RowAt(messageStartRow, n)] = LastLine(arrived, n)
BY DEF Console!LogIsOfArrived, RowAt, LastLine

LEMMA RowIs ==
    ASSUME NEW start \in LogRows, NEW n \in 0 .. NumMessageRows
    PROVE  (start + n) % NumMessageRows =
              IF start + n < NumMessageRows THEN start + n
              ELSE start + n - NumMessageRows
<1> DEFINE x == start + n
<1>1. /\ NumMessageRows \in Int /\ 0 <= NumMessageRows
      /\ x \in Int /\ 0 <= x /\ x < NumMessageRows + NumMessageRows
  BY ConsoleConstants DEF LogRows
<1>2. x % NumMessageRows = IF x < NumMessageRows THEN x ELSE x - NumMessageRows
  <2> HIDE DEF x
  <2>1. x < NumMessageRows => x % NumMessageRows = x
    BY <1>1, Modulo
  <2>2. NumMessageRows <= x => x % NumMessageRows = x - NumMessageRows
    BY <1>1, Wrap
  <2> QED
    BY <1>1, <2>1, <2>2
<1> QED
  BY <1>2, ConsoleConstants DEF LogRows

LEMMA RowAtIs ==
    ASSUME NEW start \in LogRows, NEW n \in 1 .. NumMessageRows
    PROVE  /\ RowAt(start, n) = IF start + n <= NumMessageRows THEN start + n - 1
                                ELSE start + n - 1 - NumMessageRows
           /\ RowAt(start, n) \in LogRows
<1>1. n - 1 \in 0 .. NumMessageRows
  BY ConsoleConstants
<1>2. start + (n - 1) = start + n - 1
  BY DEF LogRows
<1>3. RowAt(start, n) = IF start + (n - 1) < NumMessageRows THEN start + (n - 1)
                        ELSE start + (n - 1) - NumMessageRows
  BY <1>1, <1>2, RowIs DEF RowAt
<1> QED
  BY <1>3, ConsoleConstants DEF LogRows

\* The lines of a message that there is room for.
LEMMA ShownType ==
    ASSUME NEW message \in LogMessage
    PROVE  /\ Console!Shown(message) \in Seq(LogLine)
           /\ Len(Console!Shown(message)) \in 0 .. NumMessageRows
           /\ DOMAIN Console!Shown(message) = 1 .. Len(Console!Shown(message))
<1> DEFINE k == IF message.lines < NumMessageRows THEN message.lines
                ELSE NumMessageRows
<1>1. Console!Min({message.lines, NumMessageRows}) = k
  BY ConsoleConstants DEF Console!Min, LogMessage
<1>2. k \in Nat /\ k <= NumMessageRows
  BY ConsoleConstants DEF LogMessage
<1>3. Console!Shown(message) = [n \in 1 .. k |-> Console!Line(message, n)]
  BY <1>1 DEF Console!Shown
<1> HIDE DEF k
<1>4. \A n \in 1 .. k : Console!Line(message, n) \in LogLine
  BY <1>2 DEF Console!Line, LogMessage, LogLine
<1>5. Console!Shown(message) \in [1 .. k -> LogLine]
  BY <1>3, <1>4
<1> QED
  BY <1>2, <1>3, <1>4, ConsoleConstants

\* Of all lines as many are kept as there are rows.
LEMMA KeepLastIs ==
    ASSUME NEW lines \in Seq(LogLine)
    PROVE  /\ Console!KeepLast(lines) \in Seq(LogLine)
           /\ Len(Console!KeepLast(lines)) <= NumMessageRows
           /\ \A n \in 1 .. NumMessageRows :
                 LastLine(Console!KeepLast(lines), n) = LastLine(lines, n)
<1> DEFINE size == Len(lines)
           first == IF size <= NumMessageRows THEN 1 ELSE size - NumMessageRows + 1
           last == Console!KeepLast(lines)
<1>1. size \in Nat /\ NumMessageRows \in Nat \ {0}
  BY ConsoleConstants
<1>2. Console!Max({1, size - NumMessageRows + 1}) = first
  <2> HIDE DEF size
  <2> QED
    BY <1>1 DEF Console!Max
<1>3. last = SubSeq(lines, first, size)
  BY <1>2 DEF Console!KeepLast
<1>4. first \in 1 .. size + 1
  BY <1>1
<1>5. /\ last \in Seq(LogLine)
      /\ Len(last) = size - first + 1
      /\ \A i \in 1 .. size - first + 1 : last[i] = lines[first + i - 1]
  <2> HIDE DEF first, last
  <2> QED
    BY <1>1, <1>3, <1>4
<1> HIDE DEF last
<1>6. ASSUME NEW n \in 1 .. NumMessageRows
      PROVE  LastLine(last, n) = LastLine(lines, n)
  <2> DEFINE i == n - NumMessageRows + Len(last)
  <2>1. i >= 1 <=> n - NumMessageRows + size >= 1
    BY <1>1, <1>5
  <2>2. CASE i >= 1
    <3>1. i \in 1 .. size - first + 1 /\ first + i - 1 = n - NumMessageRows + size
      BY <1>1, <1>5, <2>2
    <3> QED
      BY <1>5, <2>1, <2>2, <3>1 DEF LastLine
  <2> QED
    BY <2>1, <2>2 DEF LastLine
<1>7. Len(last) <= NumMessageRows
  BY <1>1, <1>5
<1> QED
  BY <1>5, <1>6, <1>7 DEF last

\* A message that is put on the page and to the lines that arrived.
LEMMA AppendStep ==
    ASSUME ConsoleTypes, Console!LogIsOfArrived, NEW message \in LogMessage,
           Console!AppendMessage(message),
           arrived' = Console!KeepLast(arrived \o Console!Shown(message))
    PROVE  /\ messages' \in [LogRows -> LogLine] /\ messageStartRow' \in LogRows
           /\ arrived' \in Seq(LogLine) /\ Len(arrived') <= NumMessageRows
           /\ Console!LogIsOfArrived'
<1> DEFINE lines == Console!Shown(message)
           k == Len(lines)
           all == arrived \o lines
           start == messageStartRow
           R == NumMessageRows
<1>1. /\ R \in Nat \ {0} /\ start \in LogRows
      /\ messages \in [LogRows -> LogLine]
      /\ arrived \in Seq(LogLine) /\ Len(arrived) \in Nat /\ Len(arrived) <= R
  BY ConsoleConstants DEF ConsoleTypes
<1>2. lines \in Seq(LogLine) /\ k \in 0 .. R /\ DOMAIN lines = 1 .. k
  BY ShownType
<1> HIDE DEF lines
<1>3. /\ all \in Seq(LogLine)
      /\ Len(all) = Len(arrived) + k
      /\ \A i \in 1 .. Len(arrived) : all[i] = arrived[i]
      /\ \A i \in 1 .. k : all[Len(arrived) + i] = lines[i]
  BY <1>1, <1>2
<1>4. arrived' = Console!KeepLast(all)
  BY DEF lines
<1> HIDE DEF all
<1>5. /\ arrived' \in Seq(LogLine) /\ Len(arrived') <= R
      /\ \A n \in 1 .. R : LastLine(arrived', n) = LastLine(all, n)
  BY <1>3, <1>4, KeepLastIs
<1>6. /\ messageStartRow' = IF start + k < R THEN start + k ELSE start + k - R
      /\ messageStartRow' \in LogRows
  <2>1. messageStartRow' = (start + k) % R
    BY DEF Console!AppendMessage, lines
  <2>2. (start + k) % R = IF start + k < R THEN start + k ELSE start + k - R
    BY <1>1, <1>2, RowIs
  <2> QED
    BY <1>1, <1>2, <2>1, <2>2 DEF LogRows
<1>7. ASSUME NEW r \in LogRows
      PROVE  LET n == 1 + (IF r >= start THEN r - start ELSE r + R - start)
             IN  messages'[r] = IF n <= k THEN lines[n] ELSE messages[r]
  <2> DEFINE d == r + R - start
             n == 1 + (IF r >= start THEN r - start ELSE r + R - start)
  <2>1. /\ d \in Int /\ 0 <= d /\ d < R + R /\ R \in Int /\ 0 <= R
        /\ IF r >= start THEN R <= d /\ d - R = r - start ELSE d < R
    BY <1>1 DEF LogRows
  <2>2. d % R = IF r >= start THEN r - start ELSE r + R - start
    <3>1. CASE r >= start
      <4>1. d % R = d - R
        <5> HIDE DEF d
        <5> QED
          BY <2>1, <3>1, Wrap
      <4> QED
        BY <2>1, <3>1, <4>1
    <3>2. CASE ~(r >= start)
      <4>1. d % R = d
        <5> HIDE DEF d
        <5> QED
          BY <2>1, <3>2, Modulo
      <4> QED
        BY <3>2, <4>1
    <3> QED
      BY <3>1, <3>2
  <2>3. messages'[r] = IF 1 + (d % R) \in DOMAIN lines THEN lines[1 + (d % R)]
                       ELSE messages[r]
    BY <1>1 DEF Console!AppendMessage, Console!Placed, lines
  <2>4. n \in Nat \ {0}
    BY <1>1 DEF LogRows
  <2>5. n \in DOMAIN lines <=> n <= k
    BY <1>2, <2>4
  <2> QED
    BY <2>2, <2>3, <2>5
<1>8. ASSUME NEW r \in LogRows PROVE messages'[r] \in LogLine
  <2> DEFINE n == 1 + (IF r >= start THEN r - start ELSE r + R - start)
  <2>1. n \in Nat \ {0}
    BY <1>1 DEF LogRows
  <2>2. n <= k => lines[n] \in LogLine
    BY <1>2, <2>1, ElementOfSeq
  <2> QED
    BY <1>1, <1>7, <2>2
<1>9. messages' \in [LogRows -> LogLine]
  <2>1. messages' = [r \in LogRows |-> messages'[r]]
    BY <1>1 DEF Console!AppendMessage, Console!Placed
  <2> QED
    BY <1>8, <2>1
<1>10. ASSUME NEW n \in 1 .. R
       PROVE  messages'[RowAt(messageStartRow', n)] = LastLine(arrived', n)
  <2> DEFINE r == RowAt(messageStartRow', n)
             i == n - R + Len(all)
  <2>1. r \in LogRows
        /\ r = IF messageStartRow' + n <= R THEN messageStartRow' + n - 1
               ELSE messageStartRow' + n - 1 - R
    BY <1>6, RowAtIs
  <2>2. LastLine(arrived', n) = IF i >= 1 THEN all[i] ELSE Console!EmptyRow
    BY <1>5 DEF LastLine
  <2> HIDE DEF r
  <2>3. CASE n + k <= R
    <3>1. /\ n + k \in 1 .. R
          /\ r = IF start + (n + k) <= R THEN start + (n + k) - 1
                 ELSE start + (n + k) - 1 - R
          /\ (IF r >= start THEN r - start ELSE r + R - start) = n + k - 1
      BY <1>1, <1>2, <1>6, <2>1, <2>3 DEF LogRows
    <3>2. r = RowAt(start, n + k)
      BY <1>1, <3>1, RowAtIs
    <3>3. messages'[r] = IF 1 + (n + k - 1) <= k THEN lines[1 + (n + k - 1)]
                         ELSE messages[r]
      BY <1>7, <2>1, <3>1
    <3>4. ~(1 + (n + k - 1) <= k)
      BY <1>2
    <3>5. messages[r] = LastLine(arrived, n + k)
      BY <3>1, <3>2, LogByRow
    <3>6. i = n + k - R + Len(arrived)
      BY <1>1, <1>2, <1>3
    <3>7. i >= 1 => i \in 1 .. Len(arrived)
      BY <1>1, <1>2, <2>3, <3>6
    <3>8. LastLine(arrived, n + k) = IF i >= 1 THEN arrived[i] ELSE Console!EmptyRow
      BY <1>1, <1>2, <3>6 DEF LastLine
    <3>9. messages'[r] = LastLine(arrived', n)
      BY <1>3, <2>2, <3>3, <3>4, <3>5, <3>7, <3>8
    <3> QED
      BY <3>9 DEF r
  <2>4. CASE ~(n + k <= R)
    <3>1. (IF r >= start THEN r - start ELSE r + R - start) = n + k - R - 1
      BY <1>1, <1>2, <1>6, <2>1, <2>4 DEF LogRows
    <3>2. n + k - R \in 1 .. k /\ 1 + (n + k - R - 1) = n + k - R
      BY <1>1, <1>2, <2>4
    <3>3. messages'[r] = lines[n + k - R]
      BY <1>7, <2>1, <3>1, <3>2
    <3>4. i = Len(arrived) + (n + k - R) /\ i >= 1
      BY <1>1, <1>2, <1>3, <3>2
    <3> QED
      BY <1>3, <2>2, <3>2, <3>3, <3>4 DEF r
  <2> QED
    BY <2>3, <2>4
<1>11. Console!LogIsOfArrived'
  BY <1>10 DEF Console!LogIsOfArrived, RowAt, LastLine
<1> QED
  BY <1>5, <1>6, <1>9, <1>11

(* The panel's own messages; those of the printer.                          *)
LEMMA OwnStep ==
    ASSUME ConsoleInv, Console!OwnMessage PROVE ConsoleInv'
<1> DEFINE message == Console!Message(MaxResponses + own + 1, 1)
<1>1. message \in LogMessage
  BY ConsoleConstants DEF ConsoleInv, ConsoleTypes, Console!Message, LogMessage
<1>2. /\ Console!AppendMessage(message)
      /\ arrived' = Console!KeepLast(arrived \o Console!Shown(message))
      /\ own' = own + 1
      /\ UNCHANGED <<response, logAnswer, answered, messageSeq, newMessageSeq,
                     newMessage, arrivedSeq>>
  BY DEF Console!OwnMessage
<1> HIDE DEF message
<1>3. /\ messages' \in [LogRows -> LogLine] /\ messageStartRow' \in LogRows
      /\ arrived' \in Seq(LogLine) /\ Len(arrived') <= NumMessageRows
      /\ Console!LogIsOfArrived'
  BY <1>1, <1>2, AppendStep DEF ConsoleInv
<1> QED
  BY <1>2, <1>3 DEF ConsoleInv, ConsoleTypes, AnswerInv

LEMMA EndStep ==
    ASSUME ConsoleInv, Console!EndReceivedMessage PROVE ConsoleInv'
<1> USE DEF ConsoleInv
<1>1. /\ logAnswer = "end" /\ logAnswer' = "none" /\ answered' = Console!NoMessage
      /\ UNCHANGED <<response, newMessageSeq, own>>
      /\ {response, answered, newMessage, Console!NoMessage} \subseteq LogMessage
      /\ Console!NoMessage.id = 0
  BY DEF Console!EndReceivedMessage, ConsoleTypes, Console!NoMessage, Console!Message,
     LogMessage
<1>2. CASE newMessageSeq = messageSeq
  <2>1. answered.id \in {0, arrivedSeq}
    BY <1>1, <1>2 DEF AnswerInv
  <2>2. UNCHANGED <<messageSeq, newMessage, messages, messageStartRow, arrivedSeq,
                    arrived>>
    BY <1>2, <2>1 DEF Console!EndReceivedMessage
  <2> QED
    BY <1>1, <2>2 DEF ConsoleTypes, AnswerInv, Console!LogIsOfArrived
<1>3. CASE newMessageSeq # messageSeq
  <2>1. /\ newMessage = answered /\ newMessageSeq = answered.id
        /\ answered.id \notin {0, arrivedSeq}
    BY <1>1, <1>3 DEF AnswerInv, ConsoleTypes, LogMessage
  <2>2. /\ messageSeq' = newMessageSeq /\ newMessage' = Console!NoMessage
        /\ arrivedSeq' = answered.id
        /\ Console!AppendMessage(answered)
        /\ arrived' = Console!KeepLast(arrived \o Console!Shown(answered))
    BY <1>3, <2>1 DEF Console!EndReceivedMessage
  <2>3. /\ messages' \in [LogRows -> LogLine] /\ messageStartRow' \in LogRows
        /\ arrived' \in Seq(LogLine) /\ Len(arrived') <= NumMessageRows
        /\ Console!LogIsOfArrived'
    BY <1>1, <2>2, AppendStep
  <2>4. ConsoleTypes'
    BY <1>1, <2>1, <2>2, <2>3 DEF ConsoleTypes, LogMessage
  <2>5. AnswerInv'
    BY <1>1, <2>1, <2>2 DEF AnswerInv
  <2> QED
    BY <2>3, <2>4, <2>5
<1> QED
  BY <1>2, <1>3

LEMMA ConsoleInit == Console!Init => ConsoleInv
<1> SUFFICES ASSUME Console!Init PROVE ConsoleInv
  OBVIOUS
<1>1. /\ Console!NoMessage \in LogMessage /\ Console!NoMessage.id = 0
      /\ Console!EmptyRow \in LogLine
      /\ 0 \in LogRows
  BY ConsoleConstants DEF Console!NoMessage, Console!Message, Console!EmptyRow,
     Console!Line, LogMessage, LogLine, LogRows
<1>2. messages = [r \in LogRows |-> Console!EmptyRow]
  BY DEF Console!Init, LogRows
<1>3. arrived = <<>> /\ <<>> \in Seq(LogLine) /\ Len(<<>>) = 0
  BY DEF Console!Init
<1>4. ConsoleTypes /\ AnswerInv
  BY <1>1, <1>2, <1>3, ConsoleConstants DEF Console!Init, ConsoleTypes, AnswerInv
<1>5. ASSUME NEW n \in 1 .. NumMessageRows
      PROVE  messages[RowAt(messageStartRow, n)] = LastLine(arrived, n)
  <2>1. RowAt(messageStartRow, n) \in LogRows
    BY <1>4, RowAtIs DEF ConsoleTypes
  <2>2. LastLine(arrived, n) = Console!EmptyRow
    BY <1>3, ConsoleConstants DEF LastLine
  <2> QED
    BY <1>2, <2>1, <2>2
<1> QED
  BY <1>4, <1>5, LogByRow DEF ConsoleInv

LEMMA ConsoleStep ==
    ASSUME ConsoleInv, [Console!Next]_(Console!vars) PROVE ConsoleInv'
<1>0. Console!NoMessage \in LogMessage /\ Console!NoMessage.id = 0
  BY DEF Console!NoMessage, Console!Message, LogMessage
<1>1. CASE Console!Respond
  <2>1. PICK lines \in 0 .. MaxLines :
           response' = Console!Message(response.id + 1, lines)
    BY <1>1 DEF Console!Respond
  <2>2. response' \in LogMessage /\ response'.id # 0
    BY <2>1, ConsoleConstants
       DEF ConsoleInv, ConsoleTypes, Console!Message, LogMessage
  <2> QED
    BY <1>1, <2>2 DEF Console!Respond, ConsoleInv, ConsoleTypes, AnswerInv,
       Console!LogIsOfArrived
<1>2. CASE Console!StartReceivedMessage
  BY <1>0, <1>2 DEF Console!StartReceivedMessage, Console!Begin, ConsoleInv, ConsoleTypes,
     AnswerInv, Console!LogIsOfArrived
<1>3. CASE Console!ReceiveSeq
  BY <1>3 DEF Console!ReceiveSeq, ConsoleInv, ConsoleTypes, AnswerInv, LogMessage,
     Console!LogIsOfArrived
<1>4. CASE Console!ReceiveResponse
  BY <1>4 DEF Console!ReceiveResponse, ConsoleInv, ConsoleTypes, AnswerInv,
     Console!LogIsOfArrived
<1>5. CASE Console!EndReceivedMessage
  BY <1>5, EndStep
<1>6. CASE Console!CutShort
  BY <1>0, <1>6 DEF Console!CutShort, ConsoleInv, ConsoleTypes, AnswerInv,
     Console!LogIsOfArrived
<1>7. CASE Console!OwnMessage
  BY <1>7, OwnStep
<1>8. CASE UNCHANGED Console!vars
  BY <1>8 DEF Console!vars, ConsoleInv, ConsoleTypes, AnswerInv, Console!LogIsOfArrived
<1> QED
  BY <1>1, <1>2, <1>3, <1>4, <1>5, <1>6, <1>7, <1>8 DEF Console!Next

(* The Console page shows the last lines that arrived, oldest first: each   *)
(* response once, and none is missed because an answer with it was cut      *)
(* short, for any number of rows and lines (DisplayNewMessage).             *)
THEOREM ConsoleShowsArrived == Console!Spec => []LogIsOfArrived
<1>1. ConsoleInv => LogIsOfArrived
  BY DEF ConsoleInv, LogIsOfArrived
<1> QED
  BY <1>1, ConsoleInit, ConsoleStep, PTL DEF Console!Spec


-----------------------------------------------------------------------------
(* The picture                                                             *)

OtherAnswer == [request |-> Picture!OtherRequest, pos |-> 1]
Between == answer \in {Picture!NoAnswer, OtherAnswer}

\* A picture that was chosen, and how far its transfer is.
Context(f, i, state, next, failed) ==
    [state |-> state, width |-> Images[f][i].width, height |-> Images[f][i].height,
     next |-> next, failed |-> failed]
Chosen(f, i, state, next) == Context(f, i, state, next, FALSE)

\* The first n pieces, and the pieces that are asked for: at least one.
FirstPieces(f, i, n) == [k \in 1 .. n |-> Picture!Piece(f, i, k)]
ToAsk(f, i) == {1} \cup 1 .. Images[f][i].pieces

(* From the drawing of the popup of f on, as long as nothing disturbs it,   *)
(* the details are asked for,                                               *)
Asked(f) ==
    /\ requests = <<Picture!InfoRequest(f)>> /\ Between
    /\ thumbnailCurrent.state = "Init"
    /\ answer = OtherAnswer => thumbnailCurrent = Picture!NoThumbnail
    /\ picture = <<>>

(* received: of the pictures before the p-th field one is chosen, which     *)
(* none is wider and higher than,                                           *)
NoneBigger(f, i, j) ==
    \/ Images[f][j].width <= Images[f][i].width
    \/ Images[f][j].height <= Images[f][i].height
Listing(f, p) ==
    /\ requests = <<>>
    /\ answer = [request |-> Picture!InfoRequest(f), pos |-> p]
    /\ picture = <<>> /\ decoded = <<>>
    /\ p = 1 \/ filenameCurrent = f
    /\ \/ /\ thumbnailCurrent = Picture!NoThumbnail
          /\ \A j \in Picture!Showable(f) : j > p - 2
       \/ \E i \in Picture!Showable(f) :
             /\ i <= p - 2
             /\ thumbnailCurrent = Chosen(f, i, "Header", Picture!Place(i, 1))
             /\ \A j \in Picture!Showable(f) : j <= p - 2 => NoneBigger(f, i, j)

(* and the pieces of that picture are fetched: the n-th is wanted,          *)
(* requested,                                                               *)
Fetched(f, i, n) ==
    /\ filenameCurrent = f
    /\ picture = FirstPieces(f, i, n - 1) /\ decoded = picture
Wanted(f, i, n) ==
    /\ requests = <<>> /\ Between
    /\ thumbnailCurrent = Chosen(f, i, "DataRequest", Picture!Place(i, n))
Requested(f, i, n) ==
    /\ requests = <<Picture!DataRequest(f, Picture!Place(i, n))>> /\ Between
    /\ thumbnailCurrent = Chosen(f, i, "DataWait", Picture!Place(i, n))

(* and received, unless there is none,                                      *)
Arriving(f, i, n, p) ==
    LET place == Picture!Place(i, n)
    IN  IF n \in 1 .. Images[f][i].pieces
        THEN /\ p <= 2 => thumbnailCurrent = Chosen(f, i, "DataWait", place)
             /\ p = 3 => thumbnailCurrent = Chosen(f, i, "Data", place)
             /\ p > 3 => thumbnailCurrent =
                            Chosen(f, i, "Data", Picture!After(f, place))
             /\ p > 2 => thumbnailData = Picture!Piece(f, i, n)
        ELSE /\ p < 5 => thumbnailCurrent = Chosen(f, i, "DataWait", place)
             /\ p = 5 => thumbnailCurrent = Context(f, i, "DataWait", place, TRUE)
Answering(f, i, n, p) ==
    /\ requests = <<>>
    /\ answer = [request |-> Picture!DataRequest(f, Picture!Place(i, n)), pos |-> p]
    /\ Arriving(f, i, n, p)

(* until the picture is shown, or there is none to show.                    *)
Done(f) ==
    /\ requests = <<>> /\ Between
    /\ thumbnailCurrent.state = "Init"
    /\ answer = OtherAnswer => thumbnailCurrent = Picture!NoThumbnail
    /\ IF Picture!Best(f) = {} THEN picture = <<>>
       ELSE \E i \in Picture!Best(f) :
               picture = FirstPieces(f, i, Images[f][i].pieces)

Transfer(f) ==
    \/ Asked(f)
    \/ \E p \in 1 .. Len(Images[f]) + 2 : Listing(f, p)
    \/ \E i \in Picture!Best(f) : \E n \in ToAsk(f, i) :
          /\ Fetched(f, i, n)
          /\ \/ Wanted(f, i, n) \/ Requested(f, i, n)
             \/ \E p \in 1 .. 5 : Answering(f, i, n, p)
    \/ Done(f)

PictureInv ==
    /\ popup \in Files \cup {NoFile}
    /\ popup # NoFile /\ ~disturbed => Transfer(popup)


-----------------------------------------------------------------------------
(* What is known of the pictures, and of the first pieces of one            *)

ImageTypes ==
    [width : Nat, height : Nat, format : STRING, pieces : Nat]

LEMMA PictureConstants ==
    /\ NoFile \notin Files
    /\ FieldWidth \in Nat /\ FieldHeight \in Nat
    /\ \A f \in Files : Images[f] \in Seq(ImageTypes)
BY PanelAssumption DEF Picture!ThumbnailAssumption, ImageTypes

LEMMA ImageIs ==
    ASSUME NEW f \in Files
    PROVE  /\ Len(Images[f]) \in Nat /\ DOMAIN Images[f] = 1 .. Len(Images[f])
           /\ \A i \in DOMAIN Images[f] : Images[f][i] \in ImageTypes
BY PictureConstants

LEMMA ShowableIs ==
    ASSUME NEW f \in Files, NEW i \in Picture!Showable(f)
    PROVE  /\ i \in DOMAIN Images[f] /\ i \in 1 .. Len(Images[f])
           /\ Images[f][i].width \in Nat \ {0} /\ Images[f][i].height \in Nat \ {0}
           /\ Images[f][i].pieces \in Nat
BY ImageIs DEF ImageTypes, Picture!Showable, Picture!FitsBetter, Picture!NoThumbnail

LEMMA BestIs ==
    ASSUME NEW f \in Files, NEW i \in Picture!Best(f) PROVE i \in Picture!Showable(f)
BY DEF Picture!Best

PieceTypes == [file : Files, image : Nat, n : Nat]

LEMMA FirstPiecesIs ==
    ASSUME NEW f \in Files, NEW i \in Nat, NEW n \in Nat
    PROVE  /\ FirstPieces(f, i, n) \in Seq(PieceTypes)
           /\ Len(FirstPieces(f, i, n)) = n
           /\ \A k \in 1 .. n : FirstPieces(f, i, n)[k] = Picture!Piece(f, i, k)
<1>1. \A k \in 1 .. n : Picture!Piece(f, i, k) \in PieceTypes
  BY DEF Picture!Piece, PieceTypes
<1>2. FirstPieces(f, i, n) \in [1 .. n -> PieceTypes]
  BY <1>1 DEF FirstPieces
<1> QED
  BY <1>2 DEF FirstPieces

LEMMA NoPieces ==
    ASSUME NEW f \in Files, NEW i \in Nat PROVE FirstPieces(f, i, 0) = <<>>
<1>1. FirstPieces(f, i, 0) \in Seq(PieceTypes) /\ Len(FirstPieces(f, i, 0)) = 0
  BY FirstPiecesIs
<1> QED
  BY <1>1, EmptySeq

LEMMA OneMorePiece ==
    ASSUME NEW f \in Files, NEW i \in Nat, NEW n \in Nat \ {0}
    PROVE  Append(FirstPieces(f, i, n - 1), Picture!Piece(f, i, n))
              = FirstPieces(f, i, n)
<1> DEFINE s == FirstPieces(f, i, n - 1)
           t == FirstPieces(f, i, n)
           e == Picture!Piece(f, i, n)
<1>1. /\ s \in Seq(PieceTypes) /\ Len(s) = n - 1
      /\ \A k \in 1 .. n - 1 : s[k] = Picture!Piece(f, i, k)
  BY FirstPiecesIs
<1>2. /\ t \in Seq(PieceTypes) /\ Len(t) = n
      /\ \A k \in 1 .. n : t[k] = Picture!Piece(f, i, k)
  BY FirstPiecesIs
<1>3. e \in PieceTypes
  BY DEF Picture!Piece, PieceTypes
<1> HIDE DEF s, t
<1>4. /\ Append(s, e) \in Seq(PieceTypes) /\ Len(Append(s, e)) = n
      /\ \A k \in 1 .. n : Append(s, e)[k] = IF k = n THEN e ELSE s[k]
  BY <1>1, <1>3
<1>5. \A k \in 1 .. n : Append(s, e)[k] = t[k]
  BY <1>1, <1>2, <1>4
<1>6. Append(s, e) = t
  BY <1>2, <1>4, <1>5, SeqEqual
<1> QED
  BY <1>6 DEF s, t

LEMMA FirstPiecesPrefix ==
    ASSUME NEW f \in Files, NEW i \in Nat, NEW n \in Nat, NEW m \in Nat, n <= m
    PROVE  Picture!IsPrefix(FirstPieces(f, i, n), FirstPieces(f, i, m))
<1> DEFINE s == FirstPieces(f, i, n)
           t == FirstPieces(f, i, m)
<1>1. /\ s \in Seq(PieceTypes) /\ Len(s) = n
      /\ \A k \in 1 .. n : s[k] = Picture!Piece(f, i, k)
  BY FirstPiecesIs
<1>2. /\ t \in Seq(PieceTypes) /\ Len(t) = m
      /\ \A k \in 1 .. m : t[k] = Picture!Piece(f, i, k)
  BY FirstPiecesIs
<1> HIDE DEF s, t
<1>3. SubSeq(s, 1, n) = [k \in 1 .. n |-> Picture!Piece(f, i, k)]
  BY <1>1
<1>4. SubSeq(t, 1, n) = [k \in 1 .. n |-> Picture!Piece(f, i, k)]
  BY <1>2
<1>5. Picture!IsPrefix(s, t)
  BY <1>1, <1>2, <1>3, <1>4 DEF Picture!IsPrefix
<1> QED
  BY <1>5 DEF s, t

-----------------------------------------------------------------------------
(* The steps of a transfer                                                 *)

LEMMA BetweenIs ==
    ASSUME Between
    PROVE  /\ answer.request = Picture!OtherRequest
           /\ answer.request.kind = "other" /\ answer.pos \in {0, 1}
           /\ answer = Picture!NoAnswer <=> answer.pos = 0
           /\ answer = OtherAnswer <=> answer.pos = 1
BY DEF Between, OtherAnswer, Picture!NoAnswer, Picture!OtherRequest

LEMMA ChosenIs ==
    ASSUME NEW f \in Files, NEW i, NEW state, NEW next, NEW was, NEW is, NEW s, NEW p,
           was = Chosen(f, i, state, next)
    PROVE  /\ was.state = state /\ was.next = next /\ ~was.failed
           /\ was.width = Images[f][i].width /\ was.height = Images[f][i].height
           /\ is = [was EXCEPT !.state = s] => is = Chosen(f, i, s, next)
           /\ is = [was EXCEPT !.next = p] => is = Chosen(f, i, state, p)
BY DEF Chosen, Context

\* Where a transfer is while no answer is being received.
Waiting(f) ==
    \/ Asked(f)
    \/ \E i \in Picture!Best(f) : \E n \in ToAsk(f, i) :
          Fetched(f, i, n) /\ (Wanted(f, i, n) \/ Requested(f, i, n))
    \/ Done(f)

LEMMA NotBetween ==
    ASSUME NEW f \in Files, Transfer(f)
    PROVE  \/ Between /\ Waiting(f)
           \/ /\ answer.request.kind = "info"
              /\ \E p \in 1 .. Len(Images[f]) + 2 : Listing(f, p)
           \/ /\ answer.request.kind = "data"
              /\ \E i \in Picture!Best(f) : \E n \in ToAsk(f, i) :
                    Fetched(f, i, n) /\ \E p \in 1 .. 5 : Answering(f, i, n, p)
<1>1. ASSUME NEW p, Listing(f, p) PROVE answer.request.kind = "info"
  BY <1>1 DEF Listing, Picture!InfoRequest
<1>2. ASSUME NEW i, NEW n, NEW p, Answering(f, i, n, p)
      PROVE  answer.request.kind = "data"
  BY <1>2 DEF Answering, Picture!DataRequest
<1>3. Asked(f) \/ Done(f) => Between
  BY DEF Asked, Done
<1>4. ASSUME NEW i, NEW n, Wanted(f, i, n) \/ Requested(f, i, n) PROVE Between
  BY <1>4 DEF Wanted, Requested
<1> QED
  BY <1>1, <1>2, <1>3, <1>4, Zenon DEF Transfer, Waiting

LEMMA DrawStep ==
    ASSUME NEW f \in Files, Picture!Draw(f), Picture!Idle PROVE Asked(f)'
<1>1. /\ requests' = Append(<<>>, Picture!InfoRequest(f)) /\ picture' = <<>>
      /\ answer' = Picture!NoAnswer /\ thumbnailCurrent'.state = "Init"
  BY DEF Picture!Draw, Picture!Idle, Picture!panel
<1>2. Append(<<>>, Picture!InfoRequest(f)) = <<Picture!InfoRequest(f)>>
  OBVIOUS
<1>3. Picture!NoAnswer # OtherAnswer
  BY DEF Picture!NoAnswer, OtherAnswer
<1> QED
  BY <1>1, <1>2, <1>3 DEF Asked, Between

LEMMA StartStep ==
    ASSUME NEW f \in Files, Transfer(f), Picture!StartReceivedMessage
    PROVE  Transfer(f)'
<1>1. /\ answer = Picture!NoAnswer /\ Picture!Fresh /\ UNCHANGED picture
      /\ \/ /\ requests # <<>>
            /\ answer' = [request |-> Head(requests), pos |-> 1]
            /\ requests' = Tail(requests)
         \/ answer' = OtherAnswer /\ UNCHANGED requests
  BY DEF Picture!StartReceivedMessage, OtherAnswer
<1>2. Between /\ Waiting(f)
  <2>1. answer.request.kind = "other"
    BY <1>1 DEF Picture!NoAnswer, Picture!OtherRequest
  <2> QED
    BY <2>1, NotBetween
<1>3. \A x : Head(<<x>>) = x /\ Tail(<<x>>) = <<>> /\ <<x>> # <<>>
  OBVIOUS
<1>4. OtherAnswer \in {Picture!NoAnswer, OtherAnswer}
  OBVIOUS
<1>5. CASE Asked(f)
  <2>1. /\ thumbnailCurrent' = Picture!NoThumbnail /\ decoded' = <<>>
        /\ requests = <<Picture!InfoRequest(f)>> /\ picture' = <<>>
        /\ Picture!NoThumbnail.state = "Init"
    BY <1>1, <1>5 DEF Asked, Picture!Fresh, Picture!NoThumbnail
  <2>2. CASE answer' = OtherAnswer /\ UNCHANGED requests
    <3>1. Asked(f)'
      BY <1>4, <2>1, <2>2 DEF Asked, Between
    <3> QED
      BY <3>1 DEF Transfer
  <2>3. CASE answer' = [request |-> Head(requests), pos |-> 1]
             /\ requests' = Tail(requests)
    <3>1. \A j \in Picture!Showable(f) : j > 1 - 2
      BY ShowableIs
    <3>2. requests' = <<>> /\ answer' = [request |-> Picture!InfoRequest(f), pos |-> 1]
      BY <1>3, <2>1, <2>3
    <3>3. Listing(f, 1)'
      BY <2>1, <3>1, <3>2 DEF Listing, Picture!Showable
    <3>4. 1 \in 1 .. Len(Images[f]) + 2
      BY ImageIs
    <3> QED
      BY <3>3, <3>4 DEF Transfer
  <2> QED
    BY <1>1, <2>2, <2>3
<1>6. ASSUME NEW i \in Picture!Best(f), NEW n \in ToAsk(f, i), Fetched(f, i, n),
             Wanted(f, i, n) \/ Requested(f, i, n)
      PROVE  Transfer(f)'
  <2>1. thumbnailCurrent.state # "Init"
    BY <1>6 DEF Wanted, Requested, Chosen, Context
  <2>2. UNCHANGED <<filenameCurrent, thumbnailCurrent, thumbnailData, decoded, picture>>
    BY <1>1, <2>1 DEF Picture!Fresh, Picture!panel
  <2>3. Fetched(f, i, n)'
    BY <1>6, <2>2 DEF Fetched
  <2>4. CASE answer' = OtherAnswer /\ UNCHANGED requests
    <3>1. Wanted(f, i, n)' \/ Requested(f, i, n)'
      BY <1>4, <1>6, <2>2, <2>4 DEF Wanted, Requested, Between
    <3> QED
      BY <2>3, <3>1 DEF Transfer, Picture!Best, Picture!Showable
  <2>5. CASE requests # <<>> /\ answer' = [request |-> Head(requests), pos |-> 1]
             /\ requests' = Tail(requests)
    <3>1. requests = <<Picture!DataRequest(f, Picture!Place(i, n))>>
          /\ thumbnailCurrent = Chosen(f, i, "DataWait", Picture!Place(i, n))
      BY <1>6, <2>5 DEF Wanted, Requested
    <3>2. requests' = <<>>
          /\ answer' = [request |-> Picture!DataRequest(f, Picture!Place(i, n)),
                        pos |-> 1]
      BY <1>3, <2>5, <3>1
    <3>3. thumbnailCurrent' = Chosen(f, i, "DataWait", Picture!Place(i, n))'
      BY <2>2, <3>1 DEF Chosen, Context
    <3>4. Answering(f, i, n, 1)'
      BY <3>2, <3>3 DEF Answering, Arriving, Chosen, Context
    <3>5. 1 \in 1 .. 5
      OBVIOUS
    <3> QED
      BY <2>3, <3>4, <3>5 DEF Transfer, Picture!Best, Picture!Showable
  <2> QED
    BY <1>1, <2>4, <2>5
<1>7. CASE Done(f)
  <2>1. thumbnailCurrent' = Picture!NoThumbnail /\ Picture!NoThumbnail.state = "Init"
    BY <1>1, <1>7 DEF Done, Picture!Fresh, Picture!NoThumbnail
  <2>2. answer' = OtherAnswer /\ UNCHANGED requests
    BY <1>1, <1>7 DEF Done
  <2>3. Done(f)'
    BY <1>1, <1>4, <1>7, <2>1, <2>2 DEF Done, Between, Picture!Best, Picture!Showable
  <2> QED
    BY <2>3 DEF Transfer
<1> QED
  BY <1>2, <1>5, <1>6, <1>7 DEF Waiting

LEMMA FilenameStep ==
    ASSUME NEW f \in Files, Transfer(f), Picture!ReceiveFilename PROVE Transfer(f)'
<1>1. /\ answer.request.kind = "info" /\ answer.pos = 1
      /\ answer' = [answer EXCEPT !.pos = answer.pos + 1]
      /\ filenameCurrent' = answer.request.file
      /\ UNCHANGED <<picture, requests, thumbnailCurrent, decoded>>
  BY DEF Picture!ReceiveFilename, Picture!Receiving, Picture!Consumed, Picture!rest
<1>2. PICK p \in 1 .. Len(Images[f]) + 2 : Listing(f, p)
  BY <1>1, NotBetween, BetweenIs
<1>3. p = 1 /\ answer = [request |-> Picture!InfoRequest(f), pos |-> 1]
  BY <1>1, <1>2 DEF Listing
<1>4. answer' = [request |-> Picture!InfoRequest(f), pos |-> 2] /\ filenameCurrent' = f
  BY <1>1, <1>3 DEF Picture!InfoRequest
<1>5. thumbnailCurrent = Picture!NoThumbnail
  BY <1>2, <1>3, ShowableIs DEF Listing
<1>6. \A j \in Picture!Showable(f) : j > 2 - 2
  BY ShowableIs
<1>7. Listing(f, 2)'
  BY <1>1, <1>2, <1>4, <1>5, <1>6 DEF Listing, Picture!Showable
<1>8. 2 \in 1 .. Len(Images[f]) + 2
  BY ImageIs
<1> QED
  BY <1>7, <1>8 DEF Transfer

LEMMA ThumbnailStep ==
    ASSUME NEW f \in Files, Transfer(f), Picture!ReceiveThumbnail PROVE Transfer(f)'
<1>1. answer.request.kind = "info" /\ UNCHANGED <<picture, requests, filenameCurrent>>
  BY DEF Picture!ReceiveThumbnail, Picture!rest
<1>2. PICK p \in 1 .. Len(Images[f]) + 2 : Listing(f, p)
  BY <1>1, NotBetween, BetweenIs
<1>3. answer = [request |-> Picture!InfoRequest(f), pos |-> p]
  BY <1>2 DEF Listing
<1> DEFINE i == p - 1
           image == Images[f][i]
<1>4. /\ i \in DOMAIN Images[f]
      /\ IF Picture!FitsBetter(image, thumbnailCurrent)
         THEN /\ thumbnailCurrent' =
                   [state |-> "Header", width |-> image.width, height |-> image.height,
                    next |-> Picture!Place(i, 1), failed |-> FALSE]
              /\ decoded' = <<>>
         ELSE UNCHANGED <<thumbnailCurrent, decoded>>
      /\ answer' = [request |-> Picture!InfoRequest(f), pos |-> p + 1]
  BY <1>3 DEF Picture!ReceiveThumbnail, Picture!Consumed, Picture!InfoRequest
<1>5. /\ i \in 1 .. Len(Images[f]) /\ Len(Images[f]) \in Nat
      /\ p + 1 \in 1 .. Len(Images[f]) + 2 /\ p # 1
      /\ (p + 1) - 2 = i /\ p - 2 = i - 1
  BY <1>4, ImageIs DEF ImageTypes
<1>6. image.width \in Nat /\ image.height \in Nat
  BY <1>4, ImageIs DEF ImageTypes
<1>7. \A j \in Picture!Showable(f) :
         /\ j \in 1 .. Len(Images[f])
         /\ Images[f][j].width \in Nat /\ Images[f][j].height \in Nat
  BY ShowableIs
<1>8. image = Images[f][i]
  OBVIOUS
<1> HIDE DEF i, image
<1>9. \/ thumbnailCurrent = Picture!NoThumbnail
         /\ \A j \in Picture!Showable(f) : j > i - 1
      \/ \E k \in Picture!Showable(f) :
            /\ k <= i - 1
            /\ thumbnailCurrent = Chosen(f, k, "Header", Picture!Place(k, 1))
            /\ \A j \in Picture!Showable(f) : j <= i - 1 => NoneBigger(f, k, j)
  BY <1>2, <1>5 DEF Listing
<1>10. CASE Picture!FitsBetter(image, thumbnailCurrent)
  <2>1. i \in Picture!Showable(f)
    <3>1. thumbnailCurrent.width \in Nat /\ thumbnailCurrent.height \in Nat
      BY <1>7, <1>9 DEF Picture!NoThumbnail, Chosen, Context
    <3>2. Picture!FitsBetter(image, Picture!NoThumbnail)
      BY <1>6, <1>10, <3>1 DEF Picture!FitsBetter, Picture!NoThumbnail
    <3> QED
      BY <1>4, <1>8, <3>2 DEF Picture!Showable
  <2>2. thumbnailCurrent' = Chosen(f, i, "Header", Picture!Place(i, 1)) /\ decoded' = <<>>
    BY <1>4, <1>8, <1>10 DEF Chosen, Context
  <2>3. ASSUME NEW j \in Picture!Showable(f), j <= i PROVE NoneBigger(f, i, j)
    <3>1. CASE j = i
      BY <1>6, <1>8, <3>1 DEF NoneBigger
    <3>2. CASE j # i
      <4>1. j <= i - 1
        BY <1>5, <1>7, <2>3, <3>2
      <4>2. PICK k \in Picture!Showable(f) :
               /\ thumbnailCurrent = Chosen(f, k, "Header", Picture!Place(k, 1))
               /\ NoneBigger(f, k, j)
        BY <1>5, <1>7, <1>9, <4>1
      <4>3. Images[f][k].width < image.width /\ Images[f][k].height < image.height
        BY <1>8, <1>10, <4>2 DEF Picture!FitsBetter, Chosen, Context
      <4>4. /\ Images[f][k].width \in Nat /\ Images[f][k].height \in Nat
            /\ Images[f][j].width \in Nat /\ Images[f][j].height \in Nat
        BY <1>7
      <4>5. /\ Images[f][j].width <= Images[f][k].width
                => Images[f][j].width <= image.width
            /\ Images[f][j].height <= Images[f][k].height
                => Images[f][j].height <= image.height
        BY <1>6, <4>3, <4>4
      <4> QED
        BY <1>8, <4>2, <4>5, Zenon DEF NoneBigger
    <3> QED
      BY <3>1, <3>2
  <2>4. /\ requests' = <<>> /\ picture' = <<>> /\ decoded' = <<>>
        /\ filenameCurrent' = f
        /\ answer' = [request |-> Picture!InfoRequest(f), pos |-> p + 1]
        /\ i <= (p + 1) - 2 /\ \A j \in Nat : j <= (p + 1) - 2 => j <= i
    BY <1>1, <1>2, <1>4, <1>5, <2>2 DEF Listing
  <2>5. \A j \in Picture!Showable(f) : j <= (p + 1) - 2 => NoneBigger(f, i, j)
    BY <1>7, <2>3, <2>4
  <2>6. Listing(f, p + 1)'
    BY <2>1, <2>2, <2>4, <2>5 DEF Listing, Picture!Showable, NoneBigger, Chosen, Context
  <2> QED
    BY <1>5, <2>6 DEF Transfer
<1>11. CASE ~Picture!FitsBetter(image, thumbnailCurrent)
  <2>1. UNCHANGED <<thumbnailCurrent, decoded>>
    BY <1>4, <1>11
  <2>2. CASE thumbnailCurrent = Picture!NoThumbnail
             /\ \A j \in Picture!Showable(f) : j > i - 1
    <3>1. i \notin Picture!Showable(f)
      BY <1>8, <1>11, <2>2 DEF Picture!Showable
    <3>2. \A j \in Picture!Showable(f) : j > i
      BY <1>5, <1>7, <2>2, <3>1
    <3>3. Listing(f, p + 1)'
      BY <1>1, <1>2, <1>4, <1>5, <2>1, <2>2, <3>2 DEF Listing, Picture!Showable
    <3> QED
      BY <1>5, <3>3 DEF Transfer
  <2>3. CASE \E k \in Picture!Showable(f) :
                /\ k <= i - 1
                /\ thumbnailCurrent = Chosen(f, k, "Header", Picture!Place(k, 1))
                /\ \A j \in Picture!Showable(f) : j <= i - 1 => NoneBigger(f, k, j)
    <3>1. PICK k \in Picture!Showable(f) :
             /\ k <= i - 1
             /\ thumbnailCurrent = Chosen(f, k, "Header", Picture!Place(k, 1))
             /\ \A j \in Picture!Showable(f) : j <= i - 1 => NoneBigger(f, k, j)
      BY <2>3
    <3>2. ASSUME i \in Picture!Showable(f) PROVE NoneBigger(f, k, i)
      <4>1. ~(/\ Images[f][k].height < image.height
              /\ Images[f][k].width < image.width)
        BY <1>8, <1>11, <3>1, <3>2
           DEF Picture!FitsBetter, Picture!Showable, Chosen, Context
      <4>2. Images[f][k].width \in Nat /\ Images[f][k].height \in Nat
        BY <1>7
      <4> QED
        BY <1>6, <1>8, <4>1, <4>2 DEF NoneBigger
    <3>3. \A j \in Picture!Showable(f) : j <= i => NoneBigger(f, k, j)
      BY <1>5, <1>7, <3>1, <3>2
    <3>4. k <= i
      BY <1>5, <1>7, <3>1
    <3>5. Listing(f, p + 1)'
      BY <1>1, <1>2, <1>4, <1>5, <2>1, <3>1, <3>3, <3>4
         DEF Listing, Picture!Showable, NoneBigger, Chosen, Context
    <3> QED
      BY <1>5, <3>5 DEF Transfer
  <2> QED
    BY <1>9, <2>2, <2>3
<1> QED
  BY <1>10, <1>11

\* The pieces there are of a picture, and where one is.
LEMMA AskedIs ==
    ASSUME NEW f \in Files, NEW i \in Picture!Best(f), NEW n \in ToAsk(f, i)
    PROVE  /\ i \in DOMAIN Images[f] /\ i \in Nat \ {0} /\ n \in Nat \ {0}
           /\ Images[f][i].pieces \in Nat
           /\ n \notin 1 .. Images[f][i].pieces => n = 1 /\ Images[f][i].pieces = 0
           /\ Picture!HasPiece(f, Picture!Place(i, n))
                 <=> n \in 1 .. Images[f][i].pieces
           /\ f # NoFile
<1>1. /\ i \in DOMAIN Images[f] /\ i \in 1 .. Len(Images[f])
      /\ Images[f][i].pieces \in Nat
  BY BestIs, ShowableIs
<1>2. /\ n \in Nat \ {0}
      /\ n \notin 1 .. Images[f][i].pieces => n = 1 /\ Images[f][i].pieces = 0
  BY <1>1 DEF ToAsk
<1>3. f # NoFile
  BY PictureConstants
<1>4. Picture!Place(i, n).image = i /\ Picture!Place(i, n).n = n
  BY DEF Picture!Place
<1>5. Picture!HasPiece(f, Picture!Place(i, n)) <=> n \in 1 .. Images[f][i].pieces
  BY <1>1, <1>3, <1>4 DEF Picture!HasPiece
<1>6. i \in Nat \ {0}
  BY <1>1, ImageIs
<1> QED
  BY <1>1, <1>2, <1>3, <1>5, <1>6

\* An answer with a piece goes on.
LEMMA FieldStep ==
    ASSUME NEW f \in Files, NEW i \in Picture!Best(f), NEW n \in ToAsk(f, i),
           NEW p \in 1 .. 5, NEW q \in 1 .. 5, q = p + 1,
           Fetched(f, i, n), Answering(f, i, n, p), Arriving(f, i, n, q)',
           Picture!Consumed, UNCHANGED <<Picture!rest, filenameCurrent, decoded>>
    PROVE  Transfer(f)'
<1>1. /\ answer' = [request |-> Picture!DataRequest(f, Picture!Place(i, n)), pos |-> q]
      /\ requests' = <<>>
  BY DEF Answering, Picture!Consumed, Picture!rest
<1>2. Fetched(f, i, n)'
  BY DEF Fetched, Picture!rest
<1>3. Answering(f, i, n, q)'
  BY <1>1 DEF Answering, Picture!DataRequest, Picture!Place
<1> QED
  BY <1>2, <1>3 DEF Transfer, Picture!Best, Picture!Showable

LEMMA DataStep ==
    ASSUME NEW f \in Files, Transfer(f),
           \/ Picture!ReceiveDataFilename \/ Picture!ReceiveData
           \/ Picture!ReceiveNext \/ Picture!ReceiveErr
    PROVE  Transfer(f)'
<1>1. /\ answer.request.kind = "data" /\ Picture!Consumed
      /\ UNCHANGED <<Picture!rest, filenameCurrent, decoded>>
  BY DEF Picture!ReceiveDataFilename, Picture!ReceiveData, Picture!ReceiveNext,
     Picture!ReceiveErr, Picture!Receiving
<1>2. PICK i \in Picture!Best(f) : \E n \in ToAsk(f, i) :
         Fetched(f, i, n) /\ \E p \in 1 .. 5 : Answering(f, i, n, p)
  BY <1>1, NotBetween, BetweenIs
<1>3. PICK n \in ToAsk(f, i), p \in 1 .. 5 :
         Fetched(f, i, n) /\ Answering(f, i, n, p)
  BY <1>2
<1>4. answer = [request |-> Picture!DataRequest(f, Picture!Place(i, n)), pos |-> p]
  BY <1>3 DEF Answering
<1>5. /\ answer.request.file = f /\ answer.request.place = Picture!Place(i, n)
      /\ answer.pos = p
  BY <1>4 DEF Picture!DataRequest
<1>6. /\ Picture!HasPiece(f, Picture!Place(i, n)) <=> n \in 1 .. Images[f][i].pieces
      /\ Picture!Place(i, n).image = i /\ Picture!Place(i, n).n = n
  BY AskedIs DEF Picture!Place
<1>7. Arriving(f, i, n, p) /\ filenameCurrent = f
  BY <1>3 DEF Answering, Fetched
<1>8. ASSUME NEW q \in 1 .. 5, q = p + 1, Arriving(f, i, n, q)' PROVE Transfer(f)'
  BY <1>1, <1>3, <1>8, FieldStep
<1>9. CASE Picture!ReceiveDataFilename
  <2>1. p = 1
    BY <1>5, <1>9 DEF Picture!ReceiveDataFilename, Picture!Receiving
  <2>2. thumbnailCurrent = Chosen(f, i, "DataWait", Picture!Place(i, n))
    BY <1>7, <2>1 DEF Arriving
  <2>3. thumbnailCurrent' = [thumbnailCurrent EXCEPT !.failed = @ \/ FALSE]
    BY <1>5, <1>7, <1>9 DEF Picture!ReceiveDataFilename
  <2>4. thumbnailCurrent' = Chosen(f, i, "DataWait", Picture!Place(i, n))
    BY <2>2, <2>3 DEF Chosen, Context
  <2>5. Arriving(f, i, n, 2)'
    BY <2>4 DEF Arriving, Chosen, Context
  <2> QED
    BY <1>8, <2>1, <2>5
<1>10. CASE Picture!ReceiveData
  <2>1. p = 2
    BY <1>5, <1>10 DEF Picture!ReceiveData, Picture!Receiving
  <2>2. thumbnailCurrent = Chosen(f, i, "DataWait", Picture!Place(i, n))
    BY <1>7, <2>1 DEF Arriving
  <2>3. IF n \in 1 .. Images[f][i].pieces
        THEN /\ thumbnailData' = Picture!Piece(f, i, n)
             /\ thumbnailCurrent' = [thumbnailCurrent EXCEPT !.state = "Data"]
        ELSE UNCHANGED thumbnailCurrent
    BY <1>5, <1>6, <1>10 DEF Picture!ReceiveData
  <2>4. IF n \in 1 .. Images[f][i].pieces
        THEN /\ thumbnailData' = Picture!Piece(f, i, n)
             /\ thumbnailCurrent' = Chosen(f, i, "Data", Picture!Place(i, n))
        ELSE thumbnailCurrent' = Chosen(f, i, "DataWait", Picture!Place(i, n))
    BY <2>2, <2>3, ChosenIs
  <2>5. Arriving(f, i, n, 3)'
    BY <2>4 DEF Arriving, Chosen, Context
  <2> QED
    BY <1>8, <2>1, <2>5
<1>11. CASE Picture!ReceiveNext
  <2>1. p = 3
    BY <1>5, <1>11 DEF Picture!ReceiveNext, Picture!Receiving
  <2>2. IF n \in 1 .. Images[f][i].pieces
        THEN /\ thumbnailData = Picture!Piece(f, i, n)
             /\ thumbnailCurrent = Chosen(f, i, "Data", Picture!Place(i, n))
        ELSE thumbnailCurrent = Chosen(f, i, "DataWait", Picture!Place(i, n))
    BY <1>7, <2>1 DEF Arriving
  <2>3. /\ IF n \in 1 .. Images[f][i].pieces
           THEN thumbnailCurrent' = [thumbnailCurrent EXCEPT
                    !.next = Picture!After(f, Picture!Place(i, n))]
           ELSE UNCHANGED thumbnailCurrent
        /\ UNCHANGED thumbnailData
    BY <1>5, <1>6, <1>11 DEF Picture!ReceiveNext
  <2>4. IF n \in 1 .. Images[f][i].pieces
        THEN /\ thumbnailData' = Picture!Piece(f, i, n)
             /\ thumbnailCurrent' =
                    Chosen(f, i, "Data", Picture!After(f, Picture!Place(i, n)))
        ELSE thumbnailCurrent' = Chosen(f, i, "DataWait", Picture!Place(i, n))
    BY <2>2, <2>3, ChosenIs
  <2>5. Arriving(f, i, n, 4)'
    BY <2>4 DEF Arriving, Chosen, Context
  <2> QED
    BY <1>8, <2>1, <2>5
<1>12. CASE Picture!ReceiveErr
  <2>1. p = 4
    BY <1>5, <1>12 DEF Picture!ReceiveErr, Picture!Receiving
  <2>2. UNCHANGED thumbnailData
    BY <1>12 DEF Picture!ReceiveErr
  <2>3. thumbnailCurrent' = [thumbnailCurrent EXCEPT
            !.failed = @ \/ ~(n \in 1 .. Images[f][i].pieces)]
    BY <1>5, <1>6, <1>12 DEF Picture!ReceiveErr
  <2>4. ASSUME n \in 1 .. Images[f][i].pieces PROVE Arriving(f, i, n, 5)'
    <3>1. /\ thumbnailCurrent =
                 Chosen(f, i, "Data", Picture!After(f, Picture!Place(i, n)))
          /\ thumbnailData = Picture!Piece(f, i, n)
      BY <1>7, <2>1, <2>4 DEF Arriving
    <3>2. thumbnailCurrent' = [thumbnailCurrent EXCEPT !.failed = @ \/ FALSE]
      BY <2>3, <2>4
    <3>3. thumbnailCurrent' = Chosen(f, i, "Data", Picture!After(f, Picture!Place(i, n)))
      BY <3>1, <3>2 DEF Chosen, Context
    <3> QED
      BY <2>2, <2>4, <3>1, <3>3 DEF Arriving, Chosen, Context
  <2>5. ASSUME n \notin 1 .. Images[f][i].pieces PROVE Arriving(f, i, n, 5)'
    <3>1. thumbnailCurrent = Chosen(f, i, "DataWait", Picture!Place(i, n))
      BY <1>7, <2>1, <2>5 DEF Arriving
    <3>2. thumbnailCurrent' = [thumbnailCurrent EXCEPT !.failed = @ \/ TRUE]
      BY <2>3, <2>5
    <3>3. thumbnailCurrent' = Context(f, i, "DataWait", Picture!Place(i, n), TRUE)
      BY <3>1, <3>2 DEF Chosen, Context
    <3> QED
      BY <2>5, <3>3 DEF Arriving, Chosen, Context
  <2>6. Arriving(f, i, n, 5)'
    BY <2>4, <2>5
  <2> QED
    BY <1>8, <2>1, <2>6
<1> QED
  BY <1>9, <1>10, <1>11, <1>12

LEMMA RequestStep ==
    ASSUME NEW f \in Files, Transfer(f), Picture!RequestData PROVE Transfer(f)'
<1>1. /\ answer = Picture!NoAnswer /\ thumbnailCurrent.state = "DataRequest"
      /\ requests' = Append(requests, Picture!DataRequest(filenameCurrent,
                                                          thumbnailCurrent.next))
      /\ thumbnailCurrent' = [thumbnailCurrent EXCEPT !.state = "DataWait"]
      /\ UNCHANGED <<answer, picture, filenameCurrent, decoded>>
  BY DEF Picture!RequestData
<1>2. answer.request.kind = "other"
  BY <1>1 DEF Picture!NoAnswer, Picture!OtherRequest
<1>3. Waiting(f)
  BY <1>2, NotBetween
<1>4. PICK i \in Picture!Best(f) : \E n \in ToAsk(f, i) :
         Fetched(f, i, n) /\ Wanted(f, i, n)
  BY <1>1, <1>3 DEF Waiting, Asked, Done, Requested, Chosen, Context
<1>5. PICK n \in ToAsk(f, i) : Fetched(f, i, n) /\ Wanted(f, i, n)
  BY <1>4
<1>6. thumbnailCurrent = Chosen(f, i, "DataRequest", Picture!Place(i, n))
  BY <1>5 DEF Wanted
<1>7. /\ thumbnailCurrent.next = Picture!Place(i, n)
      /\ thumbnailCurrent' = Chosen(f, i, "DataWait", Picture!Place(i, n))
  BY <1>1, <1>6, ChosenIs
<1>8. filenameCurrent = f
  BY <1>5 DEF Fetched
<1>9. requests' = Append(<<>>, Picture!DataRequest(f, Picture!Place(i, n)))
  BY <1>1, <1>5, <1>7, <1>8 DEF Wanted
<1>10. requests' = <<Picture!DataRequest(f, Picture!Place(i, n))>>
  BY <1>9
<1>11. Requested(f, i, n)'
  BY <1>1, <1>5, <1>7, <1>10
     DEF Wanted, Requested, Between, Chosen, Context, Picture!Place
<1>12. Fetched(f, i, n)'
  BY <1>1, <1>5 DEF Fetched
<1> QED
  BY <1>11, <1>12 DEF Transfer, Picture!Best, Picture!Showable
\* A piece that continues the picture is drawn.
LEMMA PieceDrawn ==
    ASSUME NEW f \in Files, NEW i \in Picture!Best(f), NEW n \in Nat \ {0}, NEW next,
           popup = f, decoded = FirstPieces(f, i, n - 1),
           thumbnailData = Picture!Piece(f, i, n),
           thumbnailCurrent = Chosen(f, i, "Data", next)
    PROVE  Picture!DecodeChunk = {[ok |-> TRUE, drawn |-> TRUE]}
<1>1. /\ i \in Nat \ {0} /\ Images[f][i].width \in Nat \ {0} /\ f # NoFile
  BY BestIs, ShowableIs, ImageIs, PictureConstants
<1>2. /\ thumbnailCurrent.width = Images[f][i].width
      /\ thumbnailCurrent.height = Images[f][i].height
  BY DEF Chosen, Context
<1>3. /\ thumbnailData.n = n /\ thumbnailData.file = f /\ thumbnailData.image = i
      /\ thumbnailData = [file |-> f, image |-> i, n |-> n]
  BY DEF Picture!Piece
<1>4. Picture!Continues(thumbnailData)
  <2>1. CASE n = 1
    <3>1. decoded = <<>>
      BY <1>1, <2>1, NoPieces
    <3> QED
      BY <1>3, <2>1, <3>1 DEF Picture!Continues
  <2>2. CASE n # 1
    <3>0. n - 1 \in Nat /\ n - 1 \in 1 .. n - 1 /\ i \in Nat
      BY <1>1, <2>2
    <3>1. /\ decoded \in Seq(PieceTypes) /\ Len(decoded) = n - 1
          /\ decoded[n - 1] = Picture!Piece(f, i, n - 1)
      BY <3>0, FirstPiecesIs
    <3>2. decoded # <<>> /\ Picture!Last(decoded) = Picture!Piece(f, i, n - 1)
      BY <2>2, <3>1 DEF Picture!Last
    <3> DEFINE last == Picture!Last(decoded)
    <3>3. last = [file |-> f, image |-> i, n |-> n - 1]
      BY <3>2 DEF Picture!Piece
    <3> HIDE DEF last
    <3>4. [last EXCEPT !.n = @ + 1] = [file |-> f, image |-> i, n |-> n]
      BY <3>3
    <3> QED
      BY <1>3, <3>2, <3>4 DEF Picture!Continues, last
  <2> QED
    BY <2>1, <2>2
<1>5. Picture!SizeOf(thumbnailData)
         = [width |-> thumbnailCurrent.width, height |-> thumbnailCurrent.height]
  BY <1>2, <1>3 DEF Picture!SizeOf
<1>6. popup # NoFile /\ thumbnailCurrent.width # 0
  BY <1>1, <1>2
<1>7. (popup # NoFile /\ Picture!SizeOf(thumbnailData)
          = [width |-> thumbnailCurrent.width, height |-> thumbnailCurrent.height]) = TRUE
  BY <1>5, <1>6
<1> QED
  BY <1>4, <1>6, <1>7 DEF Picture!DecodeChunk

LEMMA EndOfAnswerStep ==
    ASSUME NEW f \in Files, popup = f, Transfer(f), Picture!EndReceivedMessage
    PROVE  Transfer(f)'
<1>1. /\ answer.pos = 1 + Picture!Length(answer.request)
      /\ answer' = Picture!NoAnswer
      /\ UNCHANGED <<popup, requests, filenameCurrent>>
  BY DEF Picture!EndReceivedMessage
<1>2. Between' /\ answer' # OtherAnswer
  BY <1>1 DEF Between, OtherAnswer, Picture!NoAnswer
<1> DEFINE state == IF thumbnailCurrent.failed THEN "Init" ELSE thumbnailCurrent.state
<1>3. state = "Header" =>
         /\ thumbnailCurrent' = [thumbnailCurrent EXCEPT !.state = "DataRequest"]
         /\ UNCHANGED <<picture, decoded>>
  BY DEF Picture!EndReceivedMessage
<1>4. state = "Data" =>
         \E outcome \in Picture!DecodeChunk :
            /\ thumbnailCurrent' = [thumbnailCurrent EXCEPT !.state =
                   IF ~outcome.ok \/ thumbnailCurrent.next = Picture!EndOfImage
                   THEN "Init" ELSE "DataRequest"]
            /\ picture' = IF outcome.drawn THEN Append(picture, thumbnailData)
                          ELSE picture
            /\ decoded' = Append(decoded, thumbnailData)
  BY DEF Picture!EndReceivedMessage
<1>5. state \notin {"Header", "Data"} =>
         /\ thumbnailCurrent' = [thumbnailCurrent EXCEPT !.state = state]
         /\ UNCHANGED <<picture, decoded>>
  BY DEF Picture!EndReceivedMessage
<1>6. ASSUME Between, Waiting(f) PROVE Transfer(f)'
  <2>1. answer = OtherAnswer
    <3>1. answer.request.kind = "other" /\ answer.pos \in {0, 1}
          /\ (answer = OtherAnswer <=> answer.pos = 1)
      BY <1>6, BetweenIs
    <3>2. Picture!Length(answer.request) = 0
      BY <3>1 DEF Picture!Length
    <3> QED
      BY <1>1, <3>1, <3>2
  <2>2. ASSUME thumbnailCurrent = Picture!NoThumbnail
        PROVE  /\ thumbnailCurrent' = Picture!NoThumbnail
               /\ UNCHANGED <<picture, decoded>>
    <3>1. state = "Init"
      BY <2>2 DEF Picture!NoThumbnail
    <3>2. /\ thumbnailCurrent' = [thumbnailCurrent EXCEPT !.state = "Init"]
          /\ UNCHANGED <<picture, decoded>>
      BY <1>5, <3>1
    <3> QED
      BY <2>2, <3>2 DEF Picture!NoThumbnail
  <2>3. CASE Asked(f)
    <3>1. Asked(f)'
      BY <1>1, <1>2, <2>1, <2>2, <2>3 DEF Asked
    <3> QED
      BY <3>1 DEF Transfer
  <2>4. CASE Done(f)
    <3>1. Done(f)'
      BY <1>1, <1>2, <2>1, <2>2, <2>4 DEF Done, Picture!Best, Picture!Showable
    <3> QED
      BY <3>1 DEF Transfer
  <2>5. ASSUME NEW i \in Picture!Best(f), NEW n \in ToAsk(f, i), Fetched(f, i, n),
               Wanted(f, i, n) \/ Requested(f, i, n)
        PROVE  Transfer(f)'
    <3>1. PICK s \in {"DataRequest", "DataWait"} :
             thumbnailCurrent = Chosen(f, i, s, Picture!Place(i, n))
      BY <2>5 DEF Wanted, Requested
    <3>2. state = s
      BY <3>1, ChosenIs
    <3>3. /\ thumbnailCurrent' = [thumbnailCurrent EXCEPT !.state = s]
          /\ UNCHANGED <<picture, decoded>>
      BY <1>5, <3>1, <3>2
    <3>4. thumbnailCurrent' = thumbnailCurrent
      BY <3>1, <3>3, ChosenIs
    <3>5. Wanted(f, i, n)' \/ Requested(f, i, n)'
      BY <1>1, <1>2, <2>5, <3>4 DEF Wanted, Requested
    <3>6. Fetched(f, i, n)'
      BY <1>1, <2>5, <3>3 DEF Fetched
    <3> QED
      BY <3>5, <3>6 DEF Transfer, Picture!Best, Picture!Showable
  <2> QED
    BY <1>6, <2>3, <2>4, <2>5 DEF Waiting
<1>7. ASSUME NEW p \in 1 .. Len(Images[f]) + 2, Listing(f, p) PROVE Transfer(f)'
  <2>1. answer.pos = p /\ answer.request = Picture!InfoRequest(f)
    BY <1>7 DEF Listing
  <2>2. Len(Images[f]) \in Nat /\ p = Len(Images[f]) + 2 /\ p # 1
        /\ p - 2 = Len(Images[f])
    <3>1. Picture!Length(Picture!InfoRequest(f)) = 1 + Len(Images[f])
      BY DEF Picture!Length, Picture!InfoRequest
    <3>2. Len(Images[f]) \in Nat
      BY ImageIs
    <3> QED
      BY <1>1, <2>1, <3>1, <3>2
  <2>3. /\ requests' = <<>> /\ picture = <<>> /\ decoded = <<>>
        /\ filenameCurrent' = f
    BY <1>1, <1>7, <2>2 DEF Listing
  <2>4. \A j \in Picture!Showable(f) : j \in Nat /\ j <= p - 2 /\ ~(j > p - 2)
    BY <2>2, ShowableIs
  <2>5. CASE thumbnailCurrent = Picture!NoThumbnail
             /\ \A j \in Picture!Showable(f) : j > p - 2
    <3>1. Picture!Best(f) = {}
      BY <2>4, <2>5 DEF Picture!Best
    <3>2. state = "Init"
      BY <2>5 DEF Picture!NoThumbnail
    <3>3. /\ thumbnailCurrent' = [thumbnailCurrent EXCEPT !.state = "Init"]
          /\ UNCHANGED <<picture, decoded>>
      BY <1>5, <3>2
    <3>4. thumbnailCurrent'.state = "Init"
      BY <2>5, <3>3 DEF Picture!NoThumbnail
    <3>5. Done(f)'
      BY <1>2, <2>3, <3>1, <3>3, <3>4 DEF Done, Picture!Best, Picture!Showable
    <3> QED
      BY <3>5 DEF Transfer
  <2>6. CASE \E i \in Picture!Showable(f) :
                /\ thumbnailCurrent = Chosen(f, i, "Header", Picture!Place(i, 1))
                /\ \A j \in Picture!Showable(f) : NoneBigger(f, i, j)
    <3>1. PICK i \in Picture!Showable(f) :
                /\ thumbnailCurrent = Chosen(f, i, "Header", Picture!Place(i, 1))
                /\ \A j \in Picture!Showable(f) : NoneBigger(f, i, j)
      BY <2>6
    <3>2. i \in Picture!Best(f)
      BY <3>1 DEF Picture!Best, NoneBigger
    <3>3. state = "Header"
      BY <3>1, ChosenIs
    <3>4. /\ thumbnailCurrent' = [thumbnailCurrent EXCEPT !.state = "DataRequest"]
          /\ UNCHANGED <<picture, decoded>>
      BY <1>3, <3>3
    <3>5. thumbnailCurrent' = Chosen(f, i, "DataRequest", Picture!Place(i, 1))
      BY <3>1, <3>4, ChosenIs
    <3>6. Wanted(f, i, 1)'
      BY <1>2, <2>3, <3>5 DEF Wanted, Chosen, Context
    <3>7. FirstPieces(f, i, 1 - 1) = <<>>
      <4>1. i \in Nat /\ 1 - 1 = 0
        BY <2>4, <3>1
      <4> QED
        BY <4>1, NoPieces
    <3>8. Fetched(f, i, 1)'
      BY <2>3, <3>4, <3>7 DEF Fetched, FirstPieces, Picture!Piece
    <3>9. 1 \in ToAsk(f, i)
      BY DEF ToAsk
    <3> QED
      BY <3>2, <3>6, <3>8, <3>9 DEF Transfer, Picture!Best, Picture!Showable
  <2> QED
    BY <1>7, <2>4, <2>5, <2>6 DEF Listing
<1>8. ASSUME NEW i \in Picture!Best(f), NEW n \in ToAsk(f, i), Fetched(f, i, n),
             NEW p \in 1 .. 5, Answering(f, i, n, p)
      PROVE  Transfer(f)'
  <2>1. answer.pos = p /\ answer.request = Picture!DataRequest(f, Picture!Place(i, n))
    BY <1>8 DEF Answering
  <2>2. p = 5
    <3>1. Picture!Length(Picture!DataRequest(f, Picture!Place(i, n))) = 4
      BY DEF Picture!Length, Picture!DataRequest
    <3> QED
      BY <1>1, <2>1, <3>1
  <2>3. /\ requests' = <<>> /\ filenameCurrent' = f
        /\ picture = FirstPieces(f, i, n - 1) /\ decoded = FirstPieces(f, i, n - 1)
    BY <1>1, <1>8 DEF Answering, Fetched
  <2>4. /\ i \in Nat \ {0} /\ n \in Nat \ {0} /\ Images[f][i].pieces \in Nat
        /\ n \notin 1 .. Images[f][i].pieces => n = 1 /\ Images[f][i].pieces = 0
    BY AskedIs
  <2>5. CASE n \in 1 .. Images[f][i].pieces
    <3> DEFINE next == Picture!After(f, Picture!Place(i, n))
    <3>1. /\ thumbnailCurrent = Chosen(f, i, "Data", next)
          /\ thumbnailData = Picture!Piece(f, i, n)
      BY <1>8, <2>2, <2>5 DEF Answering, Arriving
    <3>2. next = IF n = Images[f][i].pieces THEN Picture!EndOfImage
                 ELSE Picture!Place(i, n + 1)
      BY DEF Picture!After, Picture!Place
    <3>3. Picture!Place(i, n + 1) # Picture!EndOfImage
      BY <2>4 DEF Picture!Place, Picture!EndOfImage
    <3> HIDE DEF next
    <3>4. state = "Data" /\ thumbnailCurrent.next = next
      BY <3>1, ChosenIs
    <3>5. Picture!DecodeChunk = {[ok |-> TRUE, drawn |-> TRUE]}
      BY <2>3, <2>4, <3>1, PieceDrawn
    <3>6. PICK outcome \in Picture!DecodeChunk :
            /\ thumbnailCurrent' = [thumbnailCurrent EXCEPT !.state =
                   IF ~outcome.ok \/ thumbnailCurrent.next = Picture!EndOfImage
                   THEN "Init" ELSE "DataRequest"]
            /\ picture' = IF outcome.drawn THEN Append(picture, thumbnailData)
                          ELSE picture
            /\ decoded' = Append(decoded, thumbnailData)
      BY <1>4, <3>4
    <3>7. outcome.ok /\ outcome.drawn
      BY <3>5
    <3>8. picture' = FirstPieces(f, i, n) /\ decoded' = FirstPieces(f, i, n)
      BY <2>3, <2>4, <3>1, <3>6, <3>7, OneMorePiece
    <3>9. CASE n = Images[f][i].pieces
      <4>1. thumbnailCurrent' = [thumbnailCurrent EXCEPT !.state = "Init"]
        BY <3>2, <3>4, <3>6, <3>9
      <4>2. thumbnailCurrent' = Chosen(f, i, "Init", next)
        BY <3>1, <4>1, ChosenIs
      <4>3. thumbnailCurrent'.state = "Init"
        BY <4>2 DEF Chosen, Context
      <4>4. picture' = FirstPieces(f, i, Images[f][i].pieces)
        BY <3>8, <3>9
      <4>5. Done(f)'
        BY <1>2, <2>3, <4>3, <4>4
           DEF Done, FirstPieces, Picture!Piece, Picture!Best, Picture!Showable
      <4> QED
        BY <4>5 DEF Transfer
    <3>10. CASE n # Images[f][i].pieces
      <4>1. thumbnailCurrent' = [thumbnailCurrent EXCEPT !.state = "DataRequest"]
        BY <3>2, <3>3, <3>4, <3>6, <3>7, <3>10
      <4>2. thumbnailCurrent' = Chosen(f, i, "DataRequest", Picture!Place(i, n + 1))
        BY <3>1, <3>2, <3>10, <4>1, ChosenIs
      <4>3. Wanted(f, i, n + 1)'
        BY <1>2, <2>3, <4>2 DEF Wanted, Chosen, Context, Picture!Place
      <4>4. FirstPieces(f, i, (n + 1) - 1) = FirstPieces(f, i, n)
        <5>1. (n + 1) - 1 = n
          BY <2>4
        <5> QED
          BY <5>1
      <4>5. Fetched(f, i, n + 1)'
        BY <2>3, <3>8, <4>4 DEF Fetched, FirstPieces, Picture!Piece
      <4>6. n + 1 \in ToAsk(f, i)
        BY <2>4, <2>5, <3>10 DEF ToAsk
      <4> QED
        BY <4>3, <4>5, <4>6 DEF Transfer, Picture!Best, Picture!Showable
    <3> QED
      BY <3>9, <3>10
  <2>6. CASE n \notin 1 .. Images[f][i].pieces
    <3>1. thumbnailCurrent = Context(f, i, "DataWait", Picture!Place(i, n), TRUE)
      BY <1>8, <2>2, <2>6 DEF Answering, Arriving
    <3>2. state = "Init"
      BY <3>1 DEF Context
    <3>3. /\ thumbnailCurrent' = [thumbnailCurrent EXCEPT !.state = "Init"]
          /\ UNCHANGED <<picture, decoded>>
      BY <1>5, <3>2
    <3>4. thumbnailCurrent'.state = "Init"
      BY <3>1, <3>3 DEF Context
    <3>5. picture' = FirstPieces(f, i, Images[f][i].pieces)
      <4>1. n - 1 = Images[f][i].pieces
        BY <2>4, <2>6
      <4> QED
        BY <2>3, <3>3, <4>1
    <3>6. Done(f)'
      BY <1>2, <2>3, <3>4, <3>5
         DEF Done, FirstPieces, Picture!Piece, Picture!Best, Picture!Showable
    <3> QED
      BY <3>6 DEF Transfer
  <2> QED
    BY <2>5, <2>6
<1> QED
  BY <1>6, <1>7, <1>8, NotBetween

LEMMA PictureInit == Picture!Init => PictureInv
BY PictureConstants DEF Picture!Init, PictureInv

LEMMA PictureStep ==
    ASSUME PictureInv, [Picture!Next]_(Picture!vars) PROVE PictureInv'
<1>1. ASSUME NEW f \in Files, Picture!Draw(f) PROVE PictureInv'
  <2>1. popup' = f /\ disturbed' = ~Picture!Idle
    BY <1>1 DEF Picture!Draw
  <2>2. ~disturbed' => Asked(f)'
    BY <1>1, <2>1, DrawStep
  <2> QED
    BY <2>1, <2>2 DEF PictureInv, Transfer, Asked, Between
<1>2. CASE Picture!FileSelected
  BY <1>1, <1>2 DEF Picture!FileSelected
<1>3. CASE Picture!Redraw
  BY <1>1, <1>3 DEF Picture!Redraw, PictureInv
<1>4. CASE Picture!ClosePopup
  BY <1>4, PictureConstants DEF Picture!ClosePopup, PictureInv
<1>5. CASE Picture!CutShort
  BY <1>5 DEF Picture!CutShort, PictureInv
<1>6. ASSUME UNCHANGED <<popup, disturbed>>,
             \A f \in Files : popup = f /\ Transfer(f) => Transfer(f)'
      PROVE  PictureInv'
  BY <1>6 DEF PictureInv
<1>7. CASE Picture!StartReceivedMessage
  BY <1>6, <1>7, StartStep DEF Picture!StartReceivedMessage
<1>8. CASE Picture!ReceiveFilename
  BY <1>6, <1>8, FilenameStep DEF Picture!ReceiveFilename, Picture!rest
<1>9. CASE Picture!ReceiveThumbnail
  BY <1>6, <1>9, ThumbnailStep DEF Picture!ReceiveThumbnail, Picture!rest
<1>10. CASE \/ Picture!ReceiveDataFilename \/ Picture!ReceiveData
            \/ Picture!ReceiveNext \/ Picture!ReceiveErr
  <2>1. UNCHANGED <<popup, disturbed>>
    BY <1>10 DEF Picture!ReceiveDataFilename, Picture!ReceiveData,
       Picture!ReceiveNext, Picture!ReceiveErr, Picture!rest
  <2> QED
    BY <1>6, <1>10, <2>1, DataStep
<1>11. CASE Picture!EndReceivedMessage
  BY <1>6, <1>11, EndOfAnswerStep DEF Picture!EndReceivedMessage
<1>12. CASE Picture!RequestData
  BY <1>6, <1>12, RequestStep DEF Picture!RequestData
<1>13. CASE UNCHANGED Picture!vars
  <2> SUFFICES ASSUME NEW f \in Files, Transfer(f) PROVE Transfer(f)'
    BY <1>6, <1>13 DEF Picture!vars
  <2>1. Asked(f) => Asked(f)'
    BY <1>13 DEF Picture!vars, Asked, Between
  <2>2. ASSUME NEW p, Listing(f, p) PROVE Listing(f, p)'
    BY <1>13, <2>2 DEF Picture!vars, Listing, NoneBigger, Chosen, Context,
       Picture!Showable
  <2>3. ASSUME NEW i, NEW n, Fetched(f, i, n) PROVE Fetched(f, i, n)'
    BY <1>13, <2>3 DEF Picture!vars, Fetched
  <2>4. ASSUME NEW i, NEW n, Wanted(f, i, n) \/ Requested(f, i, n)
        PROVE  Wanted(f, i, n)' \/ Requested(f, i, n)'
    BY <1>13, <2>4 DEF Picture!vars, Wanted, Requested, Between, Chosen, Context
  <2>5. ASSUME NEW i, NEW n, NEW p, Answering(f, i, n, p) PROVE Answering(f, i, n, p)'
    BY <1>13, <2>5 DEF Picture!vars, Answering, Arriving, Chosen, Context
  <2>6. Done(f) => Done(f)'
    BY <1>13 DEF Picture!vars, Done, Between, Picture!Best, Picture!Showable
  <2> QED
    BY <2>1, <2>2, <2>3, <2>4, <2>5, <2>6, Zenon
       DEF Transfer, Picture!Best, Picture!Showable
<1> QED
  BY <1>2, <1>3, <1>4, <1>5, <1>7, <1>8, <1>9, <1>10, <1>11, <1>12, <1>13
     DEF Picture!Next

\* What a transfer shows, and that it is under way unless it has shown all.
LEMMA TransferShows ==
    ASSUME NEW f \in Files, Transfer(f)
    PROVE  IF Picture!Best(f) = {} THEN picture = <<>>
           ELSE \E i \in Picture!Best(f) :
                   /\ Picture!IsPrefix(picture, Picture!Pieces(f, i))
                   /\ Picture!Underway \/ picture = Picture!Pieces(f, i)
<1>1. \A i \in Picture!Best(f) :
         /\ i \in Nat /\ Images[f][i].pieces \in Nat
         /\ Picture!Pieces(f, i) = FirstPieces(f, i, Images[f][i].pieces)
  BY BestIs, ShowableIs DEF Picture!Pieces, FirstPieces
<1>2. ASSUME NEW i \in Picture!Best(f), picture = <<>>
      PROVE  Picture!IsPrefix(picture, Picture!Pieces(f, i))
  <2>1. FirstPieces(f, i, 0) = <<>> /\ 0 <= Images[f][i].pieces
    BY <1>1, NoPieces
  <2> QED
    BY <1>1, <1>2, <2>1, FirstPiecesPrefix
<1>3. CASE Asked(f)
  <2>1. picture = <<>> /\ requests # <<>>
    BY <1>3 DEF Asked
  <2> QED
    BY <1>2, <2>1 DEF Picture!Underway
<1>4. ASSUME NEW p, Listing(f, p)
      PROVE  picture = <<>> /\ answer # Picture!NoAnswer
  BY <1>4 DEF Listing, Picture!InfoRequest, Picture!NoAnswer, Picture!OtherRequest
<1>5. CASE \E p \in 1 .. Len(Images[f]) + 2 : Listing(f, p)
  <2>1. picture = <<>> /\ Picture!Underway
    BY <1>4, <1>5 DEF Picture!Underway
  <2> QED
    BY <1>2, <2>1
<1>6. ASSUME NEW i \in Picture!Best(f), NEW n \in ToAsk(f, i), Fetched(f, i, n),
             \/ Wanted(f, i, n) \/ Requested(f, i, n)
             \/ \E p \in 1 .. 5 : Answering(f, i, n, p)
      PROVE  /\ Picture!IsPrefix(picture, Picture!Pieces(f, i))
             /\ Picture!Underway
  <2>1. /\ n - 1 \in Nat /\ n - 1 <= Images[f][i].pieces
    BY AskedIs
  <2>2. Picture!IsPrefix(picture, Picture!Pieces(f, i))
    BY <1>1, <1>6, <2>1, FirstPiecesPrefix DEF Fetched
  <2>3. Wanted(f, i, n) => thumbnailCurrent.state = "DataRequest"
    BY DEF Wanted, Chosen, Context
  <2>4. Requested(f, i, n) => requests # <<>>
    BY DEF Requested
  <2>5. ASSUME NEW p, Answering(f, i, n, p) PROVE answer # Picture!NoAnswer
    BY <2>5 DEF Answering, Picture!DataRequest, Picture!NoAnswer, Picture!OtherRequest
  <2> QED
    BY <1>6, <2>2, <2>3, <2>4, <2>5 DEF Picture!Underway
<1>7. CASE Done(f)
  <2>1. CASE Picture!Best(f) = {}
    BY <1>7, <2>1 DEF Done
  <2>2. CASE Picture!Best(f) # {}
    <3>1. PICK i \in Picture!Best(f) : picture = Picture!Pieces(f, i)
      BY <1>1, <1>7, <2>2 DEF Done
    <3>2. Picture!IsPrefix(picture, Picture!Pieces(f, i))
      BY <1>1, <3>1, FirstPiecesPrefix
    <3> QED
      BY <2>2, <3>1, <3>2
  <2> QED
    BY <2>1, <2>2
<1> QED
  BY <1>3, <1>5, <1>6, <1>7 DEF Transfer

(* The popup shows pieces of one picture of its own file, a best one, in    *)
(* their order and from the first, and all of them unless something is      *)
(* under way that brings the next, for any files with any pictures of any   *)
(* number of pieces, whatever was fetched before, and wherever polls are    *)
(* answered in between (ThumbnailProcessJson, EndReceivedMessage).          *)
THEOREM PictureShown == Picture!Spec => []PictureCompletes
<1>1. PictureInv => PictureCompletes
  <2> SUFFICES ASSUME PictureInv, popup # NoFile, ~disturbed
               PROVE  IF Picture!Best(popup) = {} THEN picture = <<>>
                      ELSE \E i \in Picture!Best(popup) :
                              /\ Picture!IsPrefix(picture, Picture!Pieces(popup, i))
                              /\ Picture!Underway \/ picture = Picture!Pieces(popup, i)
    BY DEF PictureCompletes, Picture!PictureCompletes
  <2> QED
    BY TransferShows DEF PictureInv
<1> QED
  BY <1>1, PictureInit, PictureStep, PTL DEF Picture!Spec

-----------------------------------------------------------------------------
(* The panel                                                               *)

\* In the panel each of the parts behaves as it does by itself.
LEMMA PartsRun ==
    PanelSpec => /\ Spec /\ Picture!Spec /\ Flash!Spec /\ Sounder!Spec
                 /\ Keyboard!Spec /\ Console!Spec
<1>1. PanelInit => /\ Init /\ Picture!Init /\ Flash!Init /\ Sounder!Init
                   /\ Keyboard!Init /\ Console!Init
  BY DEF PanelInit
<1> DEFINE all == <<vars, pictureVars, flashVars, sounderVars, keyboardVars,
                    consoleVars, part>>
<1>2. [PanelNext]_all => [Picture!Next]_(Picture!vars)
  BY DEF PanelNext, OnlyPart, pictureVars, Picture!vars
<1>3. [PanelNext]_all => [Flash!Next]_(Flash!vars)
  BY DEF PanelNext, OnlyPart, flashVars, Flash!vars
<1>4. [PanelNext]_all => [Sounder!Next]_(Sounder!vars)
  BY DEF PanelNext, OnlyPart, sounderVars, Sounder!vars
<1>5. [PanelNext]_all => [Keyboard!Next]_(Keyboard!vars)
  BY DEF PanelNext, OnlyPart, keyboardVars, Keyboard!vars
<1>6. [PanelNext]_all => [Console!Next]_(Console!vars)
  BY DEF PanelNext, OnlyPart, consoleVars, Console!vars
<1>7. [PanelNext]_all => [Next]_vars
  BY DEF PanelNext, OnlyPart
<1> QED
  BY <1>1, <1>2, <1>3, <1>4, <1>5, <1>6, <1>7, PTL
     DEF PanelSpec, Spec, Picture!Spec, Flash!Spec, Sounder!Spec, Keyboard!Spec,
         Console!Spec

(* So the panel has what is proved of its parts: the lists are the host's   *)
(* and nothing in them or in the columns points at what was removed, the    *)
(* page shows the machine, a value is adjusted where it was touched,        *)
(* pictures, settings, beeps, the ring of commands and the console are as   *)
(* the parts promise.                                                       *)
THEOREM PanelHolds ==
    PanelSpec => [](/\ TypeOK /\ ListsAreHosts /\ PointersLive
                    /\ PageShowsMachine /\ AdjustedIsTouched
                    /\ PictureCompletes /\ SettingsKept /\ BeepEnds
                    /\ HistoryIsOfSent /\ LogIsOfArrived)
BY PartsRun, TypeCorrect, SettledLists, NoDanglingSpindle, PageIsMachines,
   TouchedIsAdjusted, PictureShown, Kept, Ends, RingHoldsSent, ConsoleShowsArrived, PTL
=============================================================================
