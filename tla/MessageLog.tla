------------------------------ MODULE MessageLog ------------------------------
(***************************************************************************)
(* The Console page: the last rows of the responses of the printer and of   *)
(* the panel's own messages (UI/MessageLog.cpp, the handlers of PanelDue.cpp *)
(* that call it).                                                           *)
(*                                                                          *)
(* The printer repeats its last response with its number in every answer    *)
(* about its state until the next one; an answer may be cut short.  A line  *)
(* is its message and its place in it.                                      *)
(***************************************************************************)
EXTENDS Integers, FiniteSetsExt, Sequences

CONSTANTS
    NumMessageRows,
    MaxLines,       \* bound: lines a message is split into
    MaxResponses,   \* bound: responses of the printer
    MaxOwn          \* bound: messages of the panel itself

LogAssumption ==
    /\ NumMessageRows \in Nat \ {0}
    /\ {MaxLines, MaxResponses, MaxOwn} \subseteq Nat

VARIABLES
    response,       \* the printer's last: its number and how many lines it has
    answer,         \* how far the answer being received has come
    answered,       \* the response in that answer
    messageSeq, newMessageSeq,
    newMessage,     \* SaveMessage's
    messages, messageStartRow,
    own,            \* how many messages of its own the panel has logged
    arrivedSeq,     \* history: the last response that arrived whole
    arrived         \* history: the last lines of those and of the panel

vars == <<response, answer, answered, messageSeq, newMessageSeq, newMessage,
          messages, messageStartRow, own, arrivedSeq, arrived>>

Message(id, lines) == [id |-> id, lines |-> lines]
NoMessage == Message(0, 0)
Line(message, n) == [of |-> message.id, n |-> n]
EmptyRow == Line(NoMessage, 0)

Init ==
    /\ response = NoMessage /\ answer = "none" /\ answered = NoMessage
    /\ messageSeq = 0 /\ newMessageSeq = 0 /\ newMessage = NoMessage
    /\ messages = [r \in 0 .. NumMessageRows - 1 |-> EmptyRow]
    /\ messageStartRow = 0
    /\ own = 0
    /\ arrivedSeq = 0 /\ arrived = <<>>

(* A response may be empty or blank.                                        *)
Respond ==
    /\ response.id < MaxResponses
    /\ \E lines \in 0 .. MaxLines : response' = Message(response.id + 1, lines)
    /\ UNCHANGED <<answer, answered, messageSeq, newMessageSeq, newMessage,
                   messages, messageStartRow, own, arrivedSeq,
                   arrived>>

-----------------------------------------------------------------------------
(* What is left of a message that has more lines than there are rows.       *)
Shown(message) == [n \in 1 .. Min({message.lines, NumMessageRows}) |-> Line(message, n)]
Placed(rows, start, lines) ==
    [r \in DOMAIN rows |->
        LET n == 1 + ((r + NumMessageRows - start) % NumMessageRows)
        IN  IF n \in DOMAIN lines THEN lines[n] ELSE rows[r]]

(* The first row is the oldest; a message takes the place of the oldest.    *)
AppendMessage(message) ==
    /\ messages' = Placed(messages, messageStartRow, Shown(message))
    /\ messageStartRow' = (messageStartRow + Len(Shown(message))) % NumMessageRows

KeepLast(lines) == SubSeq(lines, Max({1, Len(lines) - NumMessageRows + 1}), Len(lines))

\* Mutant: the number of an answer cut short is kept.
BeginNot == newMessage' = NoMessage /\ UNCHANGED newMessageSeq

Begin ==
    /\ newMessageSeq' = messageSeq
    /\ newMessage' = NoMessage

(* The next answer is one about the printer's state, or another one.        *)
StartReceivedMessage ==
    /\ answer = "none"
    /\ \/ answer' = "seq" /\ answered' = response
       \/ answer' = "end" /\ answered' = NoMessage
    /\ Begin
    /\ UNCHANGED <<response, messageSeq, messages, messageStartRow, own, arrivedSeq,
                   arrived>>

ReceiveSeq ==
    /\ answer = "seq"
    /\ answer' = "resp"
    /\ newMessageSeq' = answered.id
    /\ UNCHANGED <<response, answered, messageSeq, newMessage, messages,
                   messageStartRow, own, arrivedSeq,
                   arrived>>
ReceiveResponse ==
    /\ answer = "resp"
    /\ answer' = "end"
    /\ newMessage' = answered
    /\ UNCHANGED <<response, answered, messageSeq, newMessageSeq, messages,
                   messageStartRow, own, arrivedSeq,
                   arrived>>

(* DisplayNewMessage skips blanks, and a message of nothing else.           *)
EndReceivedMessage ==
    /\ answer = "end"
    /\ answer' = "none" /\ answered' = NoMessage
    /\ IF newMessageSeq # messageSeq
       THEN messageSeq' = newMessageSeq
            /\ AppendMessage(newMessage) /\ newMessage' = NoMessage
       ELSE UNCHANGED <<messageSeq, newMessage, messages, messageStartRow>>
    /\ IF answered.id \notin {0, arrivedSeq}
       THEN arrivedSeq' = answered.id
            /\ arrived' = KeepLast(arrived \o Shown(answered))
       ELSE UNCHANGED <<arrivedSeq, arrived>>
    /\ UNCHANGED <<response, newMessageSeq, own>>

CutShort ==
    /\ answer # "none"
    /\ answer' = "none" /\ answered' = NoMessage
    /\ UNCHANGED <<response, messageSeq, newMessageSeq, newMessage, messages,
                   messageStartRow, own, arrivedSeq,
                   arrived>>

(* Malformed answers, a changed status, a slower poll rate: at any time.    *)
OwnMessage ==
    /\ own < MaxOwn
    /\ own' = own + 1
    /\ LET message == Message(MaxResponses + own + 1, 1)
       IN  /\ AppendMessage(message)
           /\ arrived' = KeepLast(arrived \o Shown(message))
    /\ UNCHANGED <<response, answer, answered, messageSeq, newMessageSeq, newMessage,
                   arrivedSeq>>

Next ==
    \/ Respond
    \/ StartReceivedMessage \/ ReceiveSeq \/ ReceiveResponse \/ EndReceivedMessage
    \/ CutShort \/ OwnMessage
Spec == Init /\ [][Next]_vars

-----------------------------------------------------------------------------
(* The page shows, oldest first, the last lines of the responses whose      *)
(* answer has arrived whole, each once however often it was repeated, and   *)
(* none is missed because an earlier answer with it was cut short.          *)
LogIsOfArrived ==
    [n \in 1 .. NumMessageRows |->
        messages[(messageStartRow + n - 1) % NumMessageRows]] =
    [n \in 1 .. NumMessageRows |->
        LET k == n - NumMessageRows + Len(arrived)
        IN  IF k >= 1 THEN arrived[k] ELSE EmptyRow]

=============================================================================
