----------------------------- MODULE JsonParser -----------------------------
(***************************************************************************)
(* The JSON parser of SerialIo.cpp, one step per character, together with  *)
(* what ProcessReceivedValue of PanelDue.cpp does to the parser's fieldId  *)
(* from inside the callback.                                               *)
(*                                                                         *)
(* The parser has no stack: fieldId is the path to the field, in which     *)
(* "^" stands for an array and ":" for an object.  Here fieldId is a       *)
(* sequence of separators and names; a name is "result", the one the       *)
(* callback rewrites, or "name", any other.  The text of values is left    *)
(* out: a character may or may not fit fieldVal or fieldId.                *)
(***************************************************************************)
EXTENDS Naturals, Sequences, FiniteSets

CONSTANTS
    MaxArrayNesting,    \* arrays inside arrays (6 in the firmware)
    MaxId,              \* parts of a field id, at most 150 in the firmware
    MaxIndex            \* bound: elements of an array

ASSUME JsonAssumption ==
    /\ MaxArrayNesting \in Nat \ {0}
    /\ MaxId \in Nat
    /\ MaxIndex \in Nat \ {0}

\* "a" and "e" are letters, "result" is that word as the name of a field.
Digits == {"0"}
Letters == {"a", "e"}
Chars == Digits \cup Letters \cup
    {"{", "}", "[", "]", ",", ":", "^", "\"", "\\", "-", "+", ".", " ",
     "control", "result"}

JsonState ==
    {"jsBegin", "jsExpectId", "jsId", "jsHadId", "jsVal", "jsStringVal",
     "jsStringEscape", "jsIntVal", "jsNegIntVal", "jsFracVal", "jsEndVal",
     "jsCharsVal", "jsExpValSign", "jsExpValFirstDigit", "jsExpValDigits",
     "jsError"}

Names == {"name", "result"}
Separators == {"^", ":"}

VARIABLES
    state,
    fieldId,
    arrayIndices,
    arrayDepth,
    keyed           \* currentRespSeq # nullptr

VARIABLES           \* history, read by the properties only
    open,           \* the objects and arrays that are open, outermost first
    erased,         \* what the callback erased with "result", "" if nothing
    ended           \* the last character ended a message

vars == <<state, fieldId, arrayIndices, arrayDepth, keyed, open, erased,
          ended>>

Depths == 0 .. MaxArrayNesting - 1

Frame == [kind : {"obj", "arr", "bad"}, count : Nat]

TypeOK ==
    /\ state \in JsonState
    /\ fieldId \in Seq(Names \cup Separators)
    /\ arrayIndices \in [Depths -> Nat]
    /\ arrayDepth \in 0 .. MaxArrayNesting
    /\ keyed \in BOOLEAN
    /\ open \in Seq(Frame)
    /\ erased \in {""} \cup Names \cup Separators
    /\ ended \in BOOLEAN

Init ==
    /\ state = "jsBegin"
    /\ fieldId = <<>>
    /\ arrayIndices = [d \in Depths |-> 0]
    /\ arrayDepth = 0
    /\ keyed = FALSE
    /\ open = <<>>
    /\ erased = ""
    /\ ended = FALSE

-----------------------------------------------------------------------------
(* The field id.                                                           *)

Front(s) == SubSeq(s, 1, Len(s) - 1)

\* Mutant: removes the separator before the name too.
RemoveLastIdTooMuch(id) == IF id = <<>> THEN id ELSE Front(id)

RemoveLastId(id) ==
    IF id # <<>> /\ id[Len(id)] \in Names THEN Front(id) ELSE id

\* Mutant: leaves the separator.
RemoveLastIdCharNot(id) == id

RemoveLastIdChar(id) == IF id # <<>> THEN Front(id) ELSE id

InArray(id) == id # <<>> /\ id[Len(id)] = "^"

\* What ProcessReceivedValue makes of the id: the key takes the place of
\* "result", or "result" and the next character go.
Rewritten(id) ==
    IF id # <<>> /\ id[1] = "result"
    THEN IF keyed THEN <<"name">> \o Tail(id) ELSE SubSeq(id, 3, Len(id))
    ELSE id

Erased(id) ==
    IF Len(id) > 1 /\ id[1] = "result" /\ ~keyed THEN id[2] ELSE erased

\* A top-level value may be the message's key, which may be one of seqs[].
KeyAfter(id) == IF id = <<"name">> THEN BOOLEAN ELSE {keyed}

-----------------------------------------------------------------------------
(* The nesting of the message, kept for the properties until the callback  *)
(* erases the separator of an array, where the comment beside it says that *)
(* it erases a colon (PanelDue.cpp:1162).                                  *)

Derailed == erased = "^"

\* After closing an object or array of the kind.
Closed(kind) ==
    IF Derailed THEN <<>>
    ELSE IF open # <<>> /\ open[Len(open)].kind = kind THEN Front(open)
    ELSE <<[kind |-> "bad", count |-> 0]>>

\* After the end of a value that is, perhaps, an element of an array.
Counted ==
    IF Derailed THEN <<>>
    ELSE IF open # <<>> /\ open[Len(open)].kind = "arr"
    THEN [open EXCEPT ![Len(open)] =
             [kind |-> "arr", count |-> open[Len(open)].count + 1]]
    ELSE open

Opened(kind) ==
    IF Derailed THEN <<>> ELSE Append(open, [kind |-> kind, count |-> 0])

-----------------------------------------------------------------------------

\* Nothing but the state changes.
Goto(s) ==
    /\ state' = s
    /\ ended' = FALSE
    /\ UNCHANGED <<fieldId, arrayIndices, arrayDepth, keyed, open, erased>>

\* The state after a character was appended to a text that may be full.
GotoIfFits(s) == Goto(s) \/ Goto("jsError")

\* fieldId gets a part more, if there is room for it.
Extend(part, s) ==
    \/ /\ Len(fieldId) < MaxId
       /\ state' = s
       /\ fieldId' = Append(fieldId, part)
       /\ ended' = FALSE
       /\ UNCHANGED <<arrayIndices, arrayDepth, keyed, open, erased>>
    \/ Goto("jsError")

\* The end of an object, with the last name gone from the id; keys are the
\* values keyed may have got from the last value in it.
EndObject(id, keys) ==
    /\ open' = Closed("obj")
    /\ UNCHANGED <<arrayIndices, arrayDepth>>
    /\ \/ /\ id = <<>>                          \* EndReceivedMessage
          /\ state' = "jsBegin"
          /\ fieldId' = <<>>
          /\ keyed' = FALSE
          /\ ended' = TRUE
       \/ /\ id # <<>>
          /\ state' = "jsEndVal"
          /\ fieldId' = RemoveLastIdChar(id)
          /\ keyed' \in keys
          /\ ended' = FALSE

EndArray(id) ==
    /\ state' = "jsEndVal"
    /\ fieldId' = IF arrayDepth # 0 THEN RemoveLastIdChar(id) ELSE id
    /\ arrayDepth' = IF arrayDepth # 0 THEN arrayDepth - 1 ELSE 0
    /\ open' = Closed("arr")
    /\ ended' = FALSE

\* Mutant: the index of the innermost array is left alone.
CountElementNot(indices) == indices

\* ++arrayIndices[arrayDepth - 1]
CountElement(indices) == [indices EXCEPT ![arrayDepth - 1] = @ + 1]

\* EndArrayElement and the next index, at most MaxIndex.
EndElement ==
    /\ arrayIndices[arrayDepth - 1] < MaxIndex
    /\ arrayIndices' = CountElement(arrayIndices)

\* The end of a value; id is the field's id after ProcessField, if it is called.
CheckValueCompleted(c, id, keys) ==
    \/ /\ c = ","
       /\ IF InArray(id)
          THEN /\ EndElement
               /\ state' = "jsVal"
               /\ fieldId' = id
          ELSE /\ state' = "jsExpectId"
               /\ fieldId' = RemoveLastId(id)
               /\ UNCHANGED arrayIndices
       /\ keyed' \in keys
       /\ open' = Counted
       /\ ended' = FALSE
       /\ UNCHANGED arrayDepth
    \/ /\ c = "]"
       /\ InArray(fieldId)
       /\ EndElement
       /\ EndArray(id)
       /\ UNCHANGED keyed
    \/ /\ c = "}"
       /\ ~InArray(fieldId)
       /\ EndObject(RemoveLastId(id), keys)

\* A "]" outside an array or a "}" in one.
Mismatched(c) ==
    \/ c = "]" /\ ~InArray(fieldId)
    \/ c = "}" /\ InArray(fieldId)

-----------------------------------------------------------------------------
(* One action per state: the next character is c.                          *)

Newline == Goto("jsBegin")

JsBegin(c) ==
    /\ state = "jsBegin"
    /\ IF c = "{"
       THEN /\ state' = "jsExpectId"            \* StartReceivedMessage
            /\ fieldId' = <<>>
            /\ arrayDepth' = 0
            /\ open' = <<[kind |-> "obj", count |-> 0]>>
            /\ erased' = ""
            /\ ended' = FALSE
            /\ UNCHANGED <<arrayIndices, keyed>>
       ELSE Goto("jsBegin")

JsExpectId(c) ==
    /\ state = "jsExpectId"
    /\ \/ c = " " /\ Goto("jsExpectId")
       \/ c = "\"" /\ Goto("jsId")
       \/ c = "}" /\ EndObject(RemoveLastId(fieldId), {keyed}) /\ UNCHANGED erased
       \/ c \notin {" ", "\"", "}"} /\ Goto("jsError")

\* The host names no field but an outermost one "result...".
JsId(c) ==
    LET inName == fieldId # <<>> /\ fieldId[Len(fieldId)] \in Names
    IN  /\ state = "jsId"
        /\ c = "result" => Len(open) = 1 /\ ~inName
        /\ \/ c = "\"" /\ Goto("jsHadId")
           \/ c = "control" /\ Goto("jsError")
           \/ c \in Separators /\ Goto("jsId")
           \/ /\ c \notin {"\"", "control"} \cup Separators
              /\ IF inName THEN GotoIfFits("jsId")
                 ELSE Extend(IF c = "result" THEN c ELSE "name", "jsId")

JsHadId(c) ==
    /\ state = "jsHadId"
    /\ \/ c = ":" /\ Goto("jsVal")
       \/ c = " " /\ Goto("jsHadId")
       \/ c \notin {":", " "} /\ Goto("jsError")

\* Mutant: one array too many.
CanNestTooDeep == arrayDepth <= MaxArrayNesting

CanNest == arrayDepth < MaxArrayNesting

\* Mutant: goes on where the last array at this depth stopped.
StartIndexNot == arrayIndices

\* arrayIndices[arrayDepth] = 0
StartIndex == [arrayIndices EXCEPT ![arrayDepth] = 0]

StartArray ==
    \/ /\ CanNest
       /\ Len(fieldId) < MaxId
       /\ fieldId' = Append(fieldId, "^")
       /\ arrayIndices' = StartIndex
       /\ arrayDepth' = arrayDepth + 1
       /\ open' = Opened("arr")
       /\ ended' = FALSE
       /\ UNCHANGED <<state, keyed, erased>>
    \/ Goto("jsError")                          \* too deep or no room

StartObject ==
    \/ /\ Len(fieldId) < MaxId
       /\ state' = "jsExpectId"
       /\ fieldId' = Append(fieldId, ":")
       /\ open' = Opened("obj")
       /\ ended' = FALSE
       /\ UNCHANGED <<arrayIndices, arrayDepth, keyed, erased>>
    \/ Goto("jsError")

JsVal(c) ==
    /\ state = "jsVal"
    /\ \/ c = " " /\ Goto("jsVal")
       \/ c = "\"" /\ Goto("jsStringVal")
       \/ c = "[" /\ StartArray
       \/ c = "{" /\ StartObject
       \/ c = "-" /\ Goto("jsNegIntVal")
       \/ c \in Digits /\ Goto("jsIntVal")
       \/ c \in Letters /\ Goto("jsCharsVal")
       \/ /\ c = "]" /\ InArray(fieldId)           \* empty array
          /\ EndArray(fieldId)
          /\ UNCHANGED <<arrayIndices, keyed, erased>>
       \/ /\ c \notin {" ", "\"", "[", "{", "-"} \cup Digits \cup Letters
          /\ ~(c = "]" /\ InArray(fieldId))
          /\ Goto("jsError")

\* The end of the string is ProcessField.
JsStringVal(c) ==
    /\ state = "jsStringVal"
    /\ \/ /\ c = "\""
          /\ state' = "jsEndVal"
          /\ fieldId' = Rewritten(fieldId)
          /\ keyed' \in KeyAfter(fieldId)
          /\ erased' = Erased(fieldId)
          /\ ended' = FALSE
          /\ UNCHANGED <<arrayIndices, arrayDepth, open>>
       \/ c = "\\" /\ Goto("jsStringEscape")
       \/ c = "control" /\ Goto("jsError")
       \/ c \notin {"\"", "\\", "control"} /\ Goto("jsStringVal")

\* Nothing that fits the text fails to be appended to it.
JsStringEscape(c) == state = "jsStringEscape" /\ Goto("jsStringVal")

\* A number or word: the states a character may lead to, unless it ends it.
Following(c) ==
    {s \in JsonState :
        \/ c \in Digits /\ <<state, s>> \in
              {<<"jsNegIntVal", "jsIntVal">>,
               <<"jsIntVal", "jsIntVal">>,
               <<"jsFracVal", "jsFracVal">>,
               <<"jsExpValSign", "jsExpValDigits">>,
               <<"jsExpValFirstDigit", "jsExpValDigits">>,
               <<"jsExpValDigits", "jsExpValDigits">>}
        \/ c = "." /\ state = "jsIntVal" /\ s = "jsFracVal"
        \/ c = "e" /\ state = "jsFracVal" /\ s = "jsExpValSign"
        \/ c \in {"-", "+"} /\ state = "jsExpValSign" /\ s = "jsExpValFirstDigit"
        \/ c \in Letters /\ state = "jsCharsVal" /\ s = "jsCharsVal"}

Complete == {"jsIntVal", "jsFracVal", "jsExpValDigits", "jsCharsVal"}

Partial == {"jsNegIntVal", "jsExpValSign", "jsExpValFirstDigit"}

JsNumberOrWord(c) ==
    /\ state \in Complete \cup Partial
    /\ IF state \in Complete /\ c \in {",", "]", "}"} /\ ~Mismatched(c)
       THEN /\ CheckValueCompleted(c, Rewritten(fieldId), KeyAfter(fieldId))
            /\ erased' = Erased(fieldId)
       ELSE \/ \E s \in Following(c) : Goto(s)
            \/ Goto("jsError")                  \* no room, or unexpected

JsEndVal(c) ==
    /\ state = "jsEndVal"
    /\ IF c \in {",", "]", "}"} /\ ~Mismatched(c)
       THEN CheckValueCompleted(c, fieldId, {keyed}) /\ UNCHANGED erased
       ELSE Goto("jsError")

JsError(c) == state = "jsError" /\ Goto("jsError")

CheckInput(c) ==
    \/ JsBegin(c)
    \/ JsExpectId(c)
    \/ JsId(c)
    \/ JsHadId(c)
    \/ JsVal(c)
    \/ JsStringVal(c)
    \/ JsStringEscape(c)
    \/ JsNumberOrWord(c)
    \/ JsEndVal(c)
    \/ JsError(c)

Next ==
    \/ Newline
    \/ \E c \in Chars : CheckInput(c)

Spec == Init /\ [][Next]_vars

-----------------------------------------------------------------------------
(* Properties.                                                             *)

Reading == state \notin {"jsBegin", "jsError"}

\* How many of some places are among the first i.
UpTo(places, i) == Cardinality(places \cap (1 .. i))

SeparatorsOf(id) == {i \in DOMAIN id : id[i] \in Separators}
ArraysOf(frames) == {i \in DOMAIN frames : frames[i].kind = "arr"}

KindOf(separator) == IF separator = "^" THEN "arr" ELSE "obj"

\* The field id does not tell of the outermost object, nor of the one whose
\* separator the callback erased.
Untold == IF erased = "" THEN 1 ELSE 2

\* The field id is as good as a stack: its separators are the objects and
\* arrays that are open, whatever characters arrive, and so a bracket is taken
\* for the end of what it really ends.
IdIsNesting ==
    Reading /\ ~Derailed =>
        LET seps == SeparatorsOf(fieldId)
        IN  /\ Len(open) = Untold + UpTo(seps, Len(fieldId))
            /\ \A i \in seps :
                  open[Untold + UpTo(seps, i)].kind = KindOf(fieldId[i])

\* The indices the callbacks get are the places of the value in all the arrays
\* it is in.
IndexIsPlace ==
    Reading /\ ~Derailed =>
        LET arrays == ArraysOf(open)
        IN  /\ arrayDepth = UpTo(arrays, Len(open))
            /\ \A j \in arrays :
                  arrayIndices[UpTo(arrays, j) - 1] = open[j].count

\* A message ends when everything that was opened is closed; but the answer to
\* a request without a key, from which the callback has erased an object's
\* separator, ends one brace early.
EndsWithNesting ==
    ended /\ ~Derailed => Len(open) = IF erased = "" THEN 0 ELSE 1

\* Wherever arrayIndices[arrayDepth - 1] is accessed, that is after InArray, it
\* is there ("should always be true").
IndexInBounds == InArray(fieldId) => arrayDepth \in 1 .. MaxArrayNesting
=============================================================================
