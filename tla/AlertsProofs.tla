---------------------------- MODULE AlertsProofs ----------------------------
(***************************************************************************)
(* Proofs about Alerts for any modes and any number of boxes, sweeps and    *)
(* cut messages: type correctness, that a box that waits for an answer is   *)
(* on display and stays, and that a box is put up once.                     *)
(***************************************************************************)
EXTENDS Alerts, SequenceTheorems, TLAPS

-----------------------------------------------------------------------------
(* The stack of popups *)

Distinct(s) == \A i, j \in 1 .. Len(s) : s[i] = s[j] => i = j

\* A popup that is put up is on display once, with all that was there before.
LEMMA SetPopupStack ==
    ASSUME NEW S, NEW s \in Seq(S), NEW p \in S, Distinct(s)
    PROVE  /\ SetPopup(s, p) \in Seq(S)
           /\ Distinct(SetPopup(s, p))
           /\ IsPopupActive(SetPopup(s, p), p)
           /\ \A q : IsPopupActive(s, q) => IsPopupActive(SetPopup(s, p), q)
<1>1. CASE IsPopupActive(s, p)
  BY <1>1 DEF SetPopup
<1>2. CASE ~IsPopupActive(s, p)
  <2>1. SetPopup(s, p) = Append(s, p)
    BY <1>2 DEF SetPopup
  <2>2. /\ Append(s, p) \in Seq(S)
        /\ Len(s) \in Nat
        /\ Len(Append(s, p)) = Len(s) + 1
        /\ \A i \in 1 .. Len(s) : Append(s, p)[i] = s[i]
        /\ Append(s, p)[Len(s) + 1] = p
    BY AppendProperties
  <2>3. Distinct(Append(s, p))
    BY <2>2, <1>2 DEF Distinct, IsPopupActive
  <2> QED
    BY <2>1, <2>2, <2>3 DEF IsPopupActive
<1> QED
  BY <1>1, <1>2

\* The first n elements of a sequence.
LEMMA Front ==
    ASSUME NEW S, NEW s \in Seq(S), NEW n \in Nat, n <= Len(s)
    PROVE  /\ SubSeq(s, 1, n) \in Seq(S)
           /\ Len(SubSeq(s, 1, n)) = n
           /\ \A i \in 1 .. n : SubSeq(s, 1, n)[i] = s[i]
<1>1. \A i \in 1 .. n : s[i] \in S
  BY ElementOfSeq
<1> QED
  BY <1>1, SubSeqProperties

\* Without the popup on top all others are on display as before.
LEMMA ClearPopupStack ==
    ASSUME NEW S, NEW s \in Seq(S), Distinct(s)
    PROVE  /\ ClearPopup(s) \in Seq(S)
           /\ Distinct(ClearPopup(s))
           /\ \A q : IsPopupActive(s, q) /\ ~OnTop(s, q) =>
                        IsPopupActive(ClearPopup(s), q)
<1>1. CASE s = <<>>
  BY <1>1 DEF ClearPopup, IsPopupActive
<1>2. CASE s # <<>>
  <2>1. Len(s) \in Nat \ {0}
    BY <1>2, EmptySeq, LenProperties
  <2>2. \A i \in 1 .. Len(s) : s[i] \in S
    BY ElementOfSeq
  <2>3. /\ SubSeq(s, 1, Len(s) - 1) \in Seq(S)
        /\ Len(SubSeq(s, 1, Len(s) - 1)) = Len(s) - 1
        /\ \A i \in 1 .. Len(s) - 1 : SubSeq(s, 1, Len(s) - 1)[i] = s[i]
    <3>1. Len(s) - 1 \in Nat /\ Len(s) - 1 <= Len(s)
      BY <2>1
    <3> QED
      BY <3>1, Front
  <2>4. ClearPopup(s) = SubSeq(s, 1, Len(s) - 1)
    BY <1>2 DEF ClearPopup
  <2>5. Distinct(ClearPopup(s))
    BY <2>1, <2>3, <2>4 DEF Distinct
  <2>6. ASSUME NEW q, IsPopupActive(s, q), ~OnTop(s, q)
        PROVE  IsPopupActive(ClearPopup(s), q)
    <3>1. PICK i \in 1 .. Len(s) : s[i] = q
      BY <2>6 DEF IsPopupActive
    <3>2. i # Len(s)
      BY <1>2, <2>6, <3>1 DEF OnTop
    <3> QED
      BY <2>1, <2>3, <2>4, <3>1, <3>2 DEF IsPopupActive
  <2> QED
    BY <2>3, <2>4, <2>5, <2>6
<1> QED
  BY <1>1, <1>2

\* The same for a popup that is taken away only if it is on top.
LEMMA ClearThisPopupStack ==
    ASSUME NEW S, NEW s \in Seq(S), NEW p, Distinct(s)
    PROVE  /\ ClearThisPopup(s, p) \in Seq(S)
           /\ Distinct(ClearThisPopup(s, p))
           /\ \A q : IsPopupActive(s, q) /\ q # p =>
                        IsPopupActive(ClearThisPopup(s, p), q)
<1>1. CASE OnTop(s, p)
  <2>1. \A q : q # p => ~OnTop(s, q)
    BY <1>1 DEF OnTop
  <2> QED
    BY <1>1, <2>1, ClearPopupStack DEF ClearThisPopup
<1>2. CASE ~OnTop(s, p)
  BY <1>2 DEF ClearThisPopup
<1> QED
  BY <1>1, <1>2

-----------------------------------------------------------------------------
(* The inductive invariant *)

Windows == {"alert", "keyboard", "screensaver"}

AlertOK ==
    /\ currentAlert \in [mode : Modes \cup {"none"}, seq : 0 .. MaxSeq]
    /\ lastAlertSeq \in 0 .. MaxSeq
    /\ alertMode \in Modes \cup {"none", "close"}
    /\ displayingResponse \in BOOLEAN
    /\ alertTicks \in BOOLEAN
    /\ popup \in [text : 0 .. MaxSeq, layout : Modes \cup {"none", "close"},
                  mode : Modes \cup {"none"}, seq : 0 .. MaxSeq,
                  ok : BOOLEAN, value : BOOLEAN]

ScreenOK ==
    /\ stack \in Seq(Windows)
    /\ Distinct(stack)
    /\ keyboardDataHandler \in {"gcode", "alert"}
    /\ screensaverActive \in BOOLEAN
    /\ pressed \in {"none", "ok", "cancel"}
    /\ idle \in BOOLEAN
    /\ status \in {"busy", "idle"}

HostOK ==
    /\ hostBox \in Box \cup {NoBox}
    /\ hostSeq \in 0 .. MaxSeq
    /\ toHost \in Seq(0 .. MaxSeq)
    /\ fetched \in BOOLEAN

MessageOK ==
    /\ \/ msg = NoMessage
       \/ msg \in [stage : {"null", "box", "end"}, box : Box \cup {NoBox}]
    /\ msg.stage = "box" => msg.box \in Box

RestOK ==
    /\ sweeps \in 0 .. MaxSweeps /\ cuts \in 0 .. MaxCuts
    /\ swept \in BOOLEAN /\ upset \in BOOLEAN

\* A box that waits for an answer does not time out.
NoTimeout == alertMode \in Blocking => alertTicks = FALSE

\* The boxes that are open, on their way or received are not older than the
\* one shown last.
Newer ==
    /\ lastAlertSeq <= hostSeq
    /\ hostBox # NoBox => hostBox.seq = hostSeq
    /\ msg.stage = "box" => msg.box.seq \in lastAlertSeq .. hostSeq
    /\ currentAlert.mode # "none" => currentAlert.seq \in lastAlertSeq .. hostSeq

Inv ==
    /\ AlertOK /\ ScreenOK /\ HostOK /\ MessageOK /\ RestOK
    /\ NoTimeout /\ Newer /\ WaitingBoxIsShown

\* The constants are what the invariant takes them to be.
LEMMA Bounds ==
    /\ MaxSeq \in Nat /\ MaxSweeps \in Nat /\ MaxCuts \in Nat
    /\ Modes \subseteq {"info", "close", "confirm", "input"}
BY AlertAssumption

\* The invariant holds at the start.
LEMMA InitInv == Init => Inv
<1> SUFFICES ASSUME Init PROVE Inv
  OBVIOUS
<1>0. 0 \in 0 .. MaxSeq /\ 0 \in 0 .. MaxSweeps /\ 0 \in 0 .. MaxCuts
  BY Bounds
<1>1. AlertOK
  <2>1. currentAlert \in [mode : Modes \cup {"none"}, seq : 0 .. MaxSeq]
    BY <1>0 DEF Init, NoAlert
  <2>2. popup \in [text : 0 .. MaxSeq, layout : Modes \cup {"none", "close"},
                   mode : Modes \cup {"none"}, seq : 0 .. MaxSeq,
                   ok : BOOLEAN, value : BOOLEAN]
    BY <1>0 DEF Init
  <2> QED
    BY <1>0, <2>1, <2>2 DEF Init, AlertOK
<1>2. stack = <<>> /\ <<>> \in Seq(Windows) /\ Len(<<>>) = 0
  BY DEF Init, NoPopups
<1>3. ScreenOK
  <2>1. Distinct(stack)
    BY <1>2 DEF Distinct
  <2> QED
    BY <1>2, <2>1 DEF Init, ScreenOK
<1>4. HostOK
  <2>1. toHost \in Seq(0 .. MaxSeq)
    BY DEF Init
  <2> QED
    BY <1>0, <2>1 DEF Init, HostOK
<1>5. MessageOK /\ RestOK
  BY <1>0 DEF Init, MessageOK, RestOK, NoMessage
<1>6. NoTimeout /\ Newer /\ WaitingBoxIsShown
  BY DEF Init, NoTimeout, Newer, WaitingBoxIsShown, NoMessage, NoAlert,
         NoBox, Blocking
<1> QED
  BY <1>1, <1>3, <1>4, <1>5, <1>6 DEF Inv

-----------------------------------------------------------------------------
(* Messages *)

\* What the actions that clear an alert have in common.
LEMMA ClearedStep ==
    ASSUME Inv, Cleared, displayingResponse' \in BOOLEAN,
           UNCHANGED <<lastAlertSeq, popup, keyboardDataHandler,
                       screensaverActive, pressed, idle, status>>
    PROVE  /\ AlertOK' /\ ScreenOK'
           /\ swept' \in BOOLEAN
           /\ alertMode' = "none" /\ alertTicks' = FALSE
           /\ currentAlert'.mode = "none"
<1>1. AlertOK'
  BY DEF Inv, AlertOK, Cleared, Reset, NoAlert
<1>2. stack' \in Seq(Windows) /\ Distinct(stack')
  BY ClearThisPopupStack DEF Inv, ScreenOK, Cleared
<1>3. ScreenOK'
  BY <1>2 DEF Inv, ScreenOK
<1> QED
  BY <1>1, <1>3 DEF Cleared, Reset, NoAlert

\* Clearing the alert, or finding none.
LEMMA ClearAlertStep ==
    ASSUME Inv, ClearAlert \/ ClearAlertOrResponse, upset' \in BOOLEAN,
           UNCHANGED <<lastAlertSeq, popup, keyboardDataHandler,
                       screensaverActive, pressed, idle, status>>
    PROVE  /\ AlertOK' /\ ScreenOK'
           /\ swept' \in BOOLEAN
           /\ NoTimeout' /\ WaitingBoxIsShown'
           /\ currentAlert' = currentAlert \/ currentAlert'.mode = "none"
           /\ alertMode' = alertMode \/ alertMode' = "none"
<1>1. CASE Cleared /\ displayingResponse' \in BOOLEAN
  <2>1. /\ AlertOK' /\ ScreenOK'
        /\ swept' \in BOOLEAN
        /\ alertMode' = "none" /\ alertTicks' = FALSE
        /\ currentAlert'.mode = "none"
    BY <1>1, ClearedStep
  <2> QED
    BY <2>1 DEF NoTimeout, WaitingBoxIsShown, Blocking
<1>2. CASE UNCHANGED <<currentAlert, alertMode, displayingResponse, alertTicks,
                       stack, swept>>
  BY <1>2 DEF Inv, AlertOK, ScreenOK, RestOK, NoTimeout, WaitingBoxIsShown
<1> QED
  BY <1>1, <1>2 DEF ClearAlert, ClearAlertOrResponse, Inv, AlertOK


\* Every handler of a message keeps the invariant.
LEMMA ReceiveStep == Inv /\ Receive => Inv'
<1> SUFFICES ASSUME Inv, Receive PROVE Inv'
  OBVIOUS
<1>0. msg.stage \in {"null", "box", "end"} => msg.box \in Box \cup {NoBox}
  BY DEF Inv, MessageOK, NoMessage
<1>1. CASE StartReceivedMessage
  <2> USE <1>1
  <2>1. AlertOK' /\ currentAlert'.mode = "none"
    BY DEF Inv, AlertOK, StartReceivedMessage, Reset, NoAlert
  <2>2. ScreenOK' /\ HostOK' /\ RestOK'
    BY DEF Inv, ScreenOK, HostOK, RestOK, StartReceivedMessage, screenVars,
           hostVars, boundVars, ghostVars
  <2>3. MessageOK'
    BY DEF Inv, HostOK, MessageOK, StartReceivedMessage
  <2>4. NoTimeout' /\ WaitingBoxIsShown'
    BY DEF Inv, NoTimeout, WaitingBoxIsShown, StartReceivedMessage,
           screenVars, ghostVars
  <2>5. Newer'
    BY <2>1 DEF Inv, Newer, HostOK, AlertOK, StartReceivedMessage, hostVars
  <2> QED
    BY <2>1, <2>2, <2>3, <2>4, <2>5 DEF Inv
<1>2. CASE ReceiveNoBox
  <2> USE <1>2
  <2>1. /\ AlertOK' /\ ScreenOK' /\ swept' \in BOOLEAN
        /\ NoTimeout' /\ WaitingBoxIsShown'
        /\ currentAlert' = currentAlert \/ currentAlert'.mode = "none"
    BY ClearAlertStep DEF Inv, RestOK, ReceiveNoBox
  <2>2. HostOK' /\ RestOK'
    BY <2>1 DEF Inv, HostOK, RestOK, ReceiveNoBox, hostVars, boundVars
  <2>3. MessageOK' /\ msg'.stage = "end"
    BY <1>0 DEF Inv, MessageOK, NoMessage, ReceiveNoBox
  <2>4. Newer'
    BY <2>1, <2>3 DEF Inv, Newer, ReceiveNoBox, hostVars
  <2> QED
    BY <2>1, <2>2, <2>3, <2>4 DEF Inv
<1>3. CASE ReceiveBox
  <2> USE <1>3
  <2>1. AlertOK'
    BY DEF Inv, AlertOK, MessageOK, Box, ReceiveBox
  <2>2. ScreenOK' /\ HostOK' /\ RestOK'
    BY DEF Inv, ScreenOK, HostOK, RestOK, ReceiveBox, screenVars,
           hostVars, boundVars, ghostVars
  <2>3. MessageOK' /\ msg'.stage = "end"
    BY <1>0 DEF Inv, MessageOK, NoMessage, ReceiveBox
  <2>4. NoTimeout' /\ WaitingBoxIsShown'
    BY DEF Inv, NoTimeout, WaitingBoxIsShown, ReceiveBox, screenVars, ghostVars
  <2>5. Newer'
    BY <2>3 DEF Inv, Newer, ReceiveBox, hostVars
  <2> QED
    BY <2>1, <2>2, <2>3, <2>4, <2>5 DEF Inv
<1>4. CASE EndReceivedMessage
  <2> USE <1>4
  <2>1. HostOK' /\ MessageOK' /\ msg'.stage = "none"
    BY DEF Inv, HostOK, MessageOK, NoMessage, EndReceivedMessage
  <2>2. CASE IsNew /\ ProcessAlert(currentAlert) /\ swept' = FALSE
             /\ lastAlertSeq' = currentAlert.seq
    <3>1. currentAlert.mode \in Modes
      BY <2>2 DEF Inv, AlertOK, IsNew
    <3>2. AlertOK'
      <4>1. popup' = SetBox(currentAlert)
        BY <2>2 DEF ProcessAlert
      <4>2. popup' \in [text : 0 .. MaxSeq,
                        layout : Modes \cup {"none", "close"},
                        mode : Modes \cup {"none"}, seq : 0 .. MaxSeq,
                        ok : BOOLEAN, value : BOOLEAN]
        BY <3>1, <4>1 DEF Inv, AlertOK, SetBox
      <4>3. alertTicks' \in BOOLEAN
        BY <2>2 DEF ProcessAlert
      <4> QED
        BY <2>2, <3>1, <4>2, <4>3
           DEF Inv, AlertOK, ProcessAlert, EndReceivedMessage
    <3>3. /\ stack' \in Seq(Windows) /\ Distinct(stack')
          /\ IsPopupActive(stack', "alert")
      BY <2>2, SetPopupStack DEF Inv, ScreenOK, ProcessAlert, Windows
    <3>4. ScreenOK' /\ RestOK'
      BY <2>2, <3>3 DEF Inv, ScreenOK, RestOK, ProcessAlert,
                        EndReceivedMessage, boundVars
    <3>5. NoTimeout'
      BY <2>2 DEF ProcessAlert, NoTimeout
    <3>6. WaitingBoxIsShown'
      BY <2>2, <3>3 DEF ProcessAlert, SetBox, WaitingBoxIsShown
    <3>7. Newer'
      BY <2>1, <2>2, <3>1 DEF Inv, Newer, IsNew, HostOK, AlertOK, Box, NoBox,
                              EndReceivedMessage
    <3> QED
      BY <2>1, <3>2, <3>4, <3>5, <3>6, <3>7 DEF Inv
  <2>3. CASE UNCHANGED <<lastAlertSeq, alertMode, displayingResponse,
                         alertTicks, popup, stack, swept>>
    <3>1. AlertOK' /\ ScreenOK' /\ RestOK'
      BY <2>3 DEF Inv, AlertOK, ScreenOK, RestOK, EndReceivedMessage, boundVars
    <3>2. NoTimeout' /\ WaitingBoxIsShown' /\ Newer'
      BY <2>1, <2>3 DEF Inv, NoTimeout, WaitingBoxIsShown, Newer,
                        EndReceivedMessage
    <3> QED
      BY <2>1, <3>1, <3>2 DEF Inv
  <2> QED
    BY <2>2, <2>3 DEF EndReceivedMessage
<1>5. CASE CutMessage
  <2> USE <1>5
  <2>1. AlertOK' /\ ScreenOK' /\ HostOK'
    BY DEF Inv, AlertOK, ScreenOK, HostOK, CutMessage, alertVars, screenVars,
           hostVars
  <2>2. MessageOK' /\ msg'.stage = "none"
    BY DEF MessageOK, NoMessage, CutMessage
  <2>3. RestOK'
    BY Bounds DEF Inv, RestOK, CutMessage, ghostVars
  <2>4. NoTimeout' /\ WaitingBoxIsShown' /\ Newer'
    BY <2>2 DEF Inv, NoTimeout, WaitingBoxIsShown, Newer, CutMessage,
                alertVars, screenVars, hostVars, ghostVars
  <2> QED
    BY <2>1, <2>2, <2>3, <2>4 DEF Inv
<1>6. CASE ReceiveText
  <2> USE <1>6
  <2>1. AlertOK' /\ currentAlert'.mode = "none" /\ alertMode' \notin Blocking
    <3>1. popup' \in [text : 0 .. MaxSeq, layout : Modes \cup {"none", "close"},
                      mode : Modes \cup {"none"}, seq : 0 .. MaxSeq,
                      ok : BOOLEAN, value : BOOLEAN]
      <4>1. 0 \in 0 .. MaxSeq
        BY Bounds
      <4>2. popup' = [popup EXCEPT !.text = 0, !.layout = "close", !.ok = FALSE,
                                   !.value = FALSE]
        BY DEF ReceiveText, SetText
      <4> QED
        BY <4>1, <4>2 DEF Inv, AlertOK
    <3>2. displayingResponse' \in BOOLEAN /\ alertTicks' \in BOOLEAN
      BY DEF ReceiveText
    <3>3. /\ alertMode' \in {"none", "close"}
          /\ currentAlert' = Reset(currentAlert)
          /\ lastAlertSeq' = lastAlertSeq
      BY DEF ReceiveText
    <3> QED
      BY <3>1, <3>2, <3>3 DEF Inv, AlertOK, Reset, NoAlert, Blocking
  <2>2. stack' \in Seq(Windows) /\ Distinct(stack')
    BY SetPopupStack DEF Inv, ScreenOK, ReceiveText, Windows
  <2>3. ScreenOK' /\ HostOK' /\ MessageOK' /\ RestOK'
    BY <2>2 DEF Inv, ScreenOK, HostOK, MessageOK, RestOK, ReceiveText,
                hostVars, boundVars
  <2>4. NoTimeout' /\ WaitingBoxIsShown' /\ Newer'
    BY <2>1 DEF Inv, NoTimeout, WaitingBoxIsShown, Newer, ReceiveText, hostVars
  <2> QED
    BY <2>1, <2>3, <2>4 DEF Inv
<1>7. CASE ReceiveOther
  <2> USE <1>7
  <2>1. AlertOK' /\ currentAlert'.mode = "none"
    BY DEF Inv, AlertOK, ReceiveOther, Reset, NoAlert
  <2>2. ScreenOK' /\ HostOK' /\ MessageOK' /\ RestOK'
    BY DEF Inv, ScreenOK, HostOK, MessageOK, RestOK, ReceiveOther, screenVars,
           hostVars, boundVars, ghostVars
  <2>3. NoTimeout' /\ WaitingBoxIsShown' /\ Newer'
    BY <2>1 DEF Inv, NoTimeout, WaitingBoxIsShown, Newer, ReceiveOther,
                screenVars, hostVars, ghostVars
  <2> QED
    BY <2>1, <2>2, <2>3 DEF Inv
<1>8. CASE ReceiveClear
  <2> USE <1>8
  <2>1. /\ AlertOK' /\ ScreenOK' /\ swept' \in BOOLEAN
        /\ NoTimeout' /\ WaitingBoxIsShown'
        /\ currentAlert' = currentAlert \/ currentAlert'.mode = "none"
    BY ClearAlertStep DEF Inv, RestOK, ReceiveClear
  <2>2. HostOK' /\ MessageOK' /\ RestOK'
    BY <2>1 DEF Inv, HostOK, MessageOK, RestOK, ReceiveClear, hostVars, boundVars
  <2>3. Newer'
    BY <2>1 DEF Inv, Newer, ReceiveClear, hostVars
  <2> QED
    BY <2>1, <2>2, <2>3 DEF Inv
<1> QED
  BY <1>1, <1>2, <1>3, <1>4, <1>5, <1>6, <1>7, <1>8 DEF Receive
-----------------------------------------------------------------------------
(* Touch *)

PopupOK(p) ==
    p \in [text : 0 .. MaxSeq, layout : Modes \cup {"none", "close"},
           mode : Modes \cup {"none"}, seq : 0 .. MaxSeq,
           ok : BOOLEAN, value : BOOLEAN]

\* What is left to show of a touch: what it does to the popups.
LEMMA TouchFrame ==
    ASSUME Inv, UNCHANGED afterTouch, PopupOK(popup'), ScreenOK',
           popup'.text = popup.text, popup'.layout = popup.layout,
           popup'.mode = popup.mode, popup'.seq = popup.seq,
           alertMode \in Blocking /\ IsPopupActive(stack, "alert") =>
               IsPopupActive(stack', "alert"),
           toHost' \in Seq(0 .. MaxSeq)
    PROVE  Inv'
<1>1. AlertOK' /\ HostOK' /\ MessageOK' /\ RestOK'
  BY DEF Inv, AlertOK, HostOK, MessageOK, RestOK, afterTouch, boundVars, PopupOK
<1>2. NoTimeout' /\ Newer'
  BY DEF Inv, NoTimeout, Newer, afterTouch
<1>3. WaitingBoxIsShown'
  BY DEF Inv, WaitingBoxIsShown, afterTouch
<1> QED
  BY <1>1, <1>2, <1>3 DEF Inv

\* A popup that is not the alert's may go.
LEMMA ClearOther ==
    ASSUME Inv, NEW p, p # "alert", OnTop(stack, p)
    PROVE  /\ ClearPopup(stack) \in Seq(Windows) /\ Distinct(ClearPopup(stack))
           /\ IsPopupActive(stack, "alert") =>
                  IsPopupActive(ClearPopup(stack), "alert")
<1>1. ~OnTop(stack, "alert")
  BY DEF OnTop
<1> QED
  BY <1>1, ClearPopupStack DEF Inv, ScreenOK

\* Sequences of one element or none.
LEMMA ShortSeqs ==
    ASSUME NEW S
    PROVE  <<>> \in Seq(S) /\ \A a \in S : <<a>> \in Seq(S)
OBVIOUS

\* Every touch keeps the invariant.
LEMMA TouchStep == Inv /\ Touch => Inv'
<1> SUFFICES ASSUME Inv, Touch PROVE Inv'
  OBVIOUS
<1>0. PopupOK(popup) /\ toHost \in Seq(0 .. MaxSeq)
  BY DEF Inv, AlertOK, HostOK, RestOK, PopupOK
<1>1. ASSUME NEW button \in {"ok", "cancel"}, PressButton(button) PROVE Inv'
  <2>1. ScreenOK'
    BY <1>1 DEF PressButton, afterTouch, Inv, ScreenOK
  <2>2. toHost' \in Seq(0 .. MaxSeq)
    <3>1. Answer(button) \in {<<0>>, <<popup.seq>>, <<>>}
      BY DEF Answer
    <3>2. 0 \in 0 .. MaxSeq /\ popup.seq \in 0 .. MaxSeq
      BY <1>0, Bounds DEF PopupOK
    <3>3. Answer(button) \in Seq(0 .. MaxSeq)
      BY <3>1, <3>2, ShortSeqs
    <3> QED
      BY <1>0, <1>1, <3>3, ConcatProperties DEF PressButton
  <2> QED
    BY <1>0, <1>1, <2>1, <2>2, TouchFrame DEF PressButton
<1>2. CASE PressEdit
  <2>1. /\ stack' \in Seq(Windows) /\ Distinct(stack')
        /\ IsPopupActive(stack, "alert") => IsPopupActive(stack', "alert")
    BY <1>2, SetPopupStack DEF PressEdit, Inv, ScreenOK, Windows
  <2>2. ScreenOK'
    BY <1>2, <2>1 DEF PressEdit, afterTouch, Inv, ScreenOK
  <2> QED
    BY <1>0, <1>2, <2>1, <2>2, TouchFrame DEF PressEdit
<1>3. CASE PressClose
  <2>1. ScreenOK'
    BY <1>3, ClearPopupStack DEF PressClose, afterTouch, Inv, ScreenOK
  <2>2. CASE OnTop(stack, "alert") /\ popup.layout = "close"
    <3>1. alertMode \notin Blocking
      BY <2>2 DEF Inv, WaitingBoxIsShown, Blocking
    <3> QED
      BY <1>0, <1>3, <2>1, <3>1, TouchFrame DEF PressClose
  <2>3. CASE OnTop(stack, "keyboard")
    <3>1. IsPopupActive(stack, "alert") => IsPopupActive(stack', "alert")
      BY <1>3, <2>3, ClearOther DEF PressClose
    <3> QED
      BY <1>0, <1>3, <2>1, <3>1, TouchFrame DEF PressClose
  <2> QED
    BY <1>3, <2>2, <2>3 DEF PressClose
<1>4. CASE ShowKeyboard
  <2>1. /\ stack' \in Seq(Windows) /\ Distinct(stack')
        /\ IsPopupActive(stack, "alert") => IsPopupActive(stack', "alert")
    BY <1>4, SetPopupStack DEF ShowKeyboard, Inv, ScreenOK, Windows
  <2>2. ScreenOK'
    BY <1>4, <2>1 DEF ShowKeyboard, afterTouch, Inv, ScreenOK
  <2> QED
    BY <1>0, <1>4, <2>1, <2>2, TouchFrame DEF ShowKeyboard
<1>5. CASE KeyboardEnter
  <2>1. /\ PopupOK(popup') /\ popup'.text = popup.text
        /\ popup'.layout = popup.layout /\ popup'.mode = popup.mode
        /\ popup'.seq = popup.seq
    <3>1. CASE UpdateData
      BY <1>0, <3>1 DEF UpdateData, PopupOK
    <3>2. CASE UNCHANGED popup
      BY <1>0, <3>2
    <3> QED
      BY <1>5, <3>1, <3>2 DEF KeyboardEnter
  <2>2. stack' = stack \/ stack' = ClearThisPopup(stack, "keyboard")
    BY <1>5 DEF KeyboardEnter
  <2>3. /\ stack' \in Seq(Windows) /\ Distinct(stack')
        /\ IsPopupActive(stack, "alert") => IsPopupActive(stack', "alert")
    BY <2>2, ClearThisPopupStack DEF Inv, ScreenOK
  <2>4. ScreenOK'
    BY <1>5, <2>3 DEF KeyboardEnter, afterTouch, Inv, ScreenOK
  <2> QED
    BY <1>0, <1>5, <2>1, <2>3, <2>4, TouchFrame DEF KeyboardEnter
<1>6. CASE PressOutside
  <2> USE <1>6
  <2>1. AlertOK' /\ HostOK' /\ MessageOK' /\ NoTimeout' /\ Newer'
    BY DEF PressOutside, Inv, AlertOK, HostOK, MessageOK, NoTimeout, Newer,
           alertVars, hostVars
  <2>2. RestOK'
    BY Bounds DEF PressOutside, Inv, RestOK
  <2>3. stack' \in Seq(Windows) /\ Distinct(stack')
    <3>1. CASE stack' = ClearPopup(stack)
      BY <3>1, ClearPopupStack DEF Inv, ScreenOK
    <3>2. CASE stack' = <<>>
      BY <3>2 DEF Distinct
    <3> QED
      BY <3>1, <3>2 DEF PressOutside, NoPopups
  <2>4. ScreenOK'
    BY <2>3 DEF PressOutside, Inv, ScreenOK
  <2>5. WaitingBoxIsShown'
    <3>1. UNCHANGED alertVars /\ swept' = (swept \/ alertMode \in Blocking)
      BY DEF PressOutside
    <3> QED
      BY <3>1 DEF Inv, WaitingBoxIsShown, alertVars
  <2> QED
    BY <2>1, <2>2, <2>4, <2>5 DEF Inv
<1>7. CASE PressElsewhere
  <2>1. ScreenOK'
    BY <1>7 DEF PressElsewhere, afterTouch, Inv, ScreenOK
  <2> QED
    BY <1>0, <1>7, <2>1, TouchFrame DEF PressElsewhere
<1>8. CASE ProcessRelease
  <2> USE <1>8
  <2>1. /\ stack' \in Seq(Windows) /\ Distinct(stack') /\ AlertOK'
        /\ RestOK' /\ NoTimeout' /\ WaitingBoxIsShown'
        /\ currentAlert' = currentAlert \/ currentAlert'.mode = "none"
    <3>1. CASE Cleared /\ displayingResponse' = FALSE
               /\ upset' \in BOOLEAN
      <4>1. stack' \in Seq(Windows) /\ Distinct(stack')
        BY <3>1, ClearThisPopupStack DEF Cleared, Inv, ScreenOK
      <4>2. AlertOK' /\ currentAlert'.mode = "none"
        BY <3>1 DEF Cleared, Inv, AlertOK, Reset, NoAlert, ProcessRelease
      <4>3. RestOK' /\ NoTimeout' /\ WaitingBoxIsShown'
        BY <3>1 DEF Cleared, Inv, RestOK, NoTimeout, WaitingBoxIsShown,
                    Blocking, ProcessRelease, boundVars
      <4> QED
        BY <4>1, <4>2, <4>3
    <3>2. CASE UNCHANGED <<currentAlert, alertMode, displayingResponse,
                           alertTicks, stack, swept, upset>>
      BY <3>2 DEF Inv, ScreenOK, AlertOK, RestOK, NoTimeout, WaitingBoxIsShown,
                  ProcessRelease, boundVars
    <3> QED
      BY <3>1, <3>2 DEF ProcessRelease, ClearAlertOrResponse
  <2>2. ScreenOK' /\ HostOK' /\ MessageOK'
    BY <2>1 DEF ProcessRelease, Inv, ScreenOK, HostOK, MessageOK, hostVars
  <2>3. Newer'
    BY <2>1 DEF ProcessRelease, Inv, Newer, hostVars
  <2> QED
    BY <2>1, <2>2, <2>3 DEF Inv
<1> QED
  BY <1>1, <1>2, <1>3, <1>4, <1>5, <1>6, <1>7, <1>8 DEF Touch
-----------------------------------------------------------------------------
(* The main loop and the printer *)

\* A step that leaves the alerts, the message and the printer alone, and the
\* popup on the stack.
LEMMA LoopFrame ==
    ASSUME Inv, UNCHANGED otherThanScreen, ScreenOK',
           IsPopupActive(stack, "alert") => IsPopupActive(stack', "alert")
    PROVE  Inv'
<1>1. AlertOK' /\ HostOK' /\ MessageOK' /\ RestOK'
  BY DEF Inv, AlertOK, HostOK, MessageOK, RestOK, otherThanScreen, alertVars,
         hostVars, boundVars, ghostVars
<1>2. NoTimeout' /\ Newer' /\ WaitingBoxIsShown'
  BY DEF Inv, NoTimeout, Newer, WaitingBoxIsShown, otherThanScreen, alertVars,
         hostVars, ghostVars
<1> QED
  BY <1>1, <1>2 DEF Inv

\* Every step of the main loop keeps the invariant.
LEMMA LoopStep == Inv /\ Loop => Inv'
<1> SUFFICES ASSUME Inv, Loop PROVE Inv'
  OBVIOUS
<1>1. CASE AlertTimeout
  <2> USE <1>1
  <2>0. upset' \in BOOLEAN
    BY DEF AlertTimeout, ClearAlertOrResponse, Inv, RestOK
  <2>1. /\ AlertOK' /\ ScreenOK' /\ swept' \in BOOLEAN
        /\ NoTimeout' /\ WaitingBoxIsShown'
        /\ currentAlert' = currentAlert \/ currentAlert'.mode = "none"
    BY <2>0, ClearAlertStep DEF AlertTimeout
  <2>2. HostOK' /\ MessageOK' /\ RestOK'
    BY <2>0, <2>1 DEF Inv, HostOK, MessageOK, RestOK, AlertTimeout, hostVars,
                      boundVars
  <2>3. Newer'
    BY <2>1 DEF Inv, Newer, AlertTimeout, hostVars
  <2> QED
    BY <2>1, <2>2, <2>3 DEF Inv
<1>2. CASE TimePasses \/ NoticeAlert
  <2>1. UNCHANGED <<otherThanScreen, stack>> /\ ScreenOK'
    BY <1>2 DEF TimePasses, NoticeAlert, otherThanScreen, Inv, ScreenOK
  <2> QED
    BY <2>1, LoopFrame
<1>3. CASE ActivateScreensaver
  <2>1. /\ stack' \in Seq(Windows) /\ Distinct(stack')
        /\ IsPopupActive(stack, "alert") => IsPopupActive(stack', "alert")
    BY <1>3, SetPopupStack DEF ActivateScreensaver, Inv, ScreenOK, Windows
  <2>2. ScreenOK' /\ UNCHANGED otherThanScreen
    BY <1>3, <2>1 DEF ActivateScreensaver, otherThanScreen, Inv, ScreenOK
  <2> QED
    BY <2>1, <2>2, LoopFrame
<1>4. CASE DeactivateScreensaver
  <2>1. /\ stack' \in Seq(Windows) /\ Distinct(stack')
        /\ IsPopupActive(stack, "alert") => IsPopupActive(stack', "alert")
    BY <1>4, ClearThisPopupStack DEF DeactivateScreensaver, Inv, ScreenOK
  <2>2. ScreenOK' /\ UNCHANGED otherThanScreen
    BY <1>4, <2>1 DEF DeactivateScreensaver, otherThanScreen, Inv, ScreenOK
  <2> QED
    BY <2>1, <2>2, LoopFrame
<1>5. CASE Sweep
  <2> USE <1>5
  <2>1. AlertOK' /\ MessageOK' /\ NoTimeout' /\ Newer'
    BY DEF Sweep, Inv, AlertOK, MessageOK, NoTimeout, Newer, alertVars
  <2>2. HostOK'
    BY DEF Sweep, Inv, HostOK
  <2>3. RestOK'
    BY Bounds DEF Sweep, Inv, RestOK
  <2>4. stack' = <<>> /\ <<>> \in Seq(Windows) /\ Distinct(<<>>)
    BY DEF Sweep, NoPopups, Distinct
  <2>5. ScreenOK'
    BY <2>4 DEF Sweep, Inv, ScreenOK
  <2>6. WaitingBoxIsShown'
    <3>1. UNCHANGED alertVars /\ swept' = (swept \/ alertMode \in Blocking)
      BY DEF Sweep
    <3> QED
      BY <3>1 DEF Inv, WaitingBoxIsShown, alertVars
  <2> QED
    BY <2>1, <2>2, <2>3, <2>5, <2>6 DEF Inv
<1>6. CASE BecomeIdle
  <2> USE <1>6
  <2>1. AlertOK' /\ HostOK' /\ MessageOK' /\ RestOK'
    BY DEF BecomeIdle, Inv, AlertOK, HostOK, MessageOK, RestOK, alertVars,
           hostVars, boundVars, ghostVars
  <2>2. ScreenOK'
    <3>1. idle' = FALSE /\ status' = "idle"
      BY DEF BecomeIdle
    <3>2. UNCHANGED <<stack, keyboardDataHandler, screensaverActive, pressed>>
      BY DEF BecomeIdle
    <3> QED
      BY <3>1, <3>2 DEF Inv, ScreenOK
  <2>3. NoTimeout' /\ Newer' /\ WaitingBoxIsShown'
    BY DEF BecomeIdle, Inv, NoTimeout, Newer, WaitingBoxIsShown, alertVars,
           hostVars, ghostVars
  <2> QED
    BY <2>1, <2>2, <2>3 DEF Inv
<1> QED
  BY <1>1, <1>2, <1>3, <1>4, <1>5, <1>6 DEF Loop

\* A step of the printer leaves the panel alone.
LEMMA HostFrame ==
    ASSUME Inv, UNCHANGED panel, HostOK', Newer'
    PROVE  Inv'
<1>1. AlertOK' /\ ScreenOK' /\ MessageOK' /\ RestOK'
  BY DEF Inv, AlertOK, ScreenOK, MessageOK, RestOK, panel, alertVars,
         screenVars, boundVars, ghostVars
<1>2. NoTimeout' /\ WaitingBoxIsShown'
  BY DEF Inv, NoTimeout, WaitingBoxIsShown, panel, alertVars, screenVars,
         ghostVars
<1> QED
  BY <1>1, <1>2 DEF Inv

\* Every step of the printer keeps the invariant.
LEMMA HostStep == Inv /\ Host => Inv'
<1> SUFFICES ASSUME Inv, Host PROVE Inv'
  OBVIOUS
<1>1. CASE OpenBox
  <2> USE <1>1
  <2>1. hostSeq + 1 \in 1 .. MaxSeq
    BY Bounds DEF OpenBox, Inv, HostOK
  <2>2. /\ hostSeq' = hostSeq + 1 /\ hostBox' \in Box
        /\ hostBox'.seq = hostSeq'
    BY <2>1 DEF OpenBox, Box
  <2>3. HostOK'
    <3>1. toHost' = toHost /\ fetched' = FALSE
      BY DEF OpenBox
    <3>2. hostSeq' \in 0 .. MaxSeq
      BY <2>1, <2>2, Bounds
    <3> QED
      BY <2>2, <3>1, <3>2 DEF Inv, HostOK
  <2>4. /\ currentAlert.mode # "none" => currentAlert.seq \in 0 .. MaxSeq
        /\ msg.stage = "box" => msg.box.seq \in 1 .. MaxSeq
        /\ lastAlertSeq \in 0 .. MaxSeq /\ hostSeq \in 0 .. MaxSeq
    BY DEF Inv, AlertOK, MessageOK, HostOK, Box
  <2>5. Newer'
    BY <2>2, <2>4, Bounds
       DEF OpenBox, Inv, Newer, panel, alertVars
  <2> QED
    BY <2>3, <2>5, HostFrame DEF OpenBox
<1>2. CASE CloseBox
  <2>1. HostOK' /\ Newer'
    BY <1>2 DEF CloseBox, Inv, HostOK, Newer, panel, alertVars
  <2> QED
    BY <1>2, <2>1, HostFrame DEF CloseBox
<1>3. CASE ReceiveAnswer
  <2>1. hostBox' \in {NoBox, hostBox} /\ hostSeq' = hostSeq /\ UNCHANGED panel
    BY <1>3 DEF ReceiveAnswer
  <2>2. Tail(toHost) \in Seq(0 .. MaxSeq)
    BY <1>3, HeadTailProperties DEF ReceiveAnswer, Inv, HostOK
  <2>3. toHost' = Tail(toHost) /\ fetched' \in BOOLEAN
    BY <1>3 DEF ReceiveAnswer
  <2>4. HostOK'
    BY <2>1, <2>2, <2>3 DEF Inv, HostOK
  <2>5. Newer'
    BY <2>1 DEF Inv, Newer, panel, alertVars
  <2> QED
    BY <2>1, <2>4, <2>5, HostFrame
<1> QED
  BY <1>1, <1>2, <1>3 DEF Host

-----------------------------------------------------------------------------
(* The theorems *)

\* The invariant is inductive.
LEMMA NextInv == Inv /\ [Next]_vars => Inv'
<1> SUFFICES ASSUME Inv, [Next]_vars PROVE Inv'
  OBVIOUS
<1>1. CASE Next
  BY <1>1, ReceiveStep, TouchStep, LoopStep, HostStep DEF Next
<1>2. CASE UNCHANGED vars
  BY <1>2 DEF vars, Inv, AlertOK, ScreenOK, HostOK, MessageOK, RestOK,
              NoTimeout, Newer, WaitingBoxIsShown
<1> QED
  BY <1>1, <1>2

\* It holds always.
LEMMA Inductive == Spec => []Inv
BY InitInv, NextInv, PTL DEF Spec

\* Every variable keeps its type, and no window is twice in the list of
\* windows, for any modes and bounds.
THEOREM TypeCorrect == Spec => []TypeOK
<1>1. Inv => TypeOK
  <2> SUFFICES ASSUME Inv PROVE TypeOK
    OBVIOUS
  <2>1. stack \in Seq({"alert", "keyboard", "screensaver"})
    BY DEF Inv, ScreenOK, Windows
  <2>2. \A i, j \in 1 .. Len(stack) : stack[i] = stack[j] => i = j
    BY DEF Inv, ScreenOK, Distinct
  <2>3. {displayingResponse, alertTicks, screensaverActive, idle, swept, upset,
         fetched} \subseteq BOOLEAN
    BY DEF Inv, AlertOK, ScreenOK, HostOK, RestOK
  <2> QED
    BY <2>1, <2>2, <2>3
       DEF TypeOK, Inv, AlertOK, ScreenOK, HostOK, MessageOK, RestOK
<1> QED
  BY <1>1, Inductive, PTL

\* Whatever arrives and is touched, and whatever popups come and go above it,
\* the popup of a box that waits for an answer is on display, unless all
\* popups were taken away, and shows and answers that very box.
THEOREM WaitingShown == Spec => []WaitingBoxIsShown
<1>1. Inv => WaitingBoxIsShown
  BY DEF Inv
<1> QED
  BY <1>1, Inductive, PTL

-----------------------------------------------------------------------------
(* What a step may do *)

\* The steps that change what the alert on display is.
LEMMA ModeChanges ==
    ASSUME Inv, [Next]_vars, alertMode' # alertMode
    PROVE  \/ ReceiveNoBox \/ EndReceivedMessage \/ ReceiveText \/ ReceiveClear
           \/ AlertTimeout \/ ProcessRelease
<1>1. Next
  BY DEF vars
<1>2. ~(StartReceivedMessage \/ ReceiveBox \/ CutMessage \/ ReceiveOther)
  BY DEF StartReceivedMessage, ReceiveBox, CutMessage, ReceiveOther, alertVars
<1>3. ~(\/ \E button \in {"ok", "cancel"} : PressButton(button)
        \/ PressEdit \/ PressClose \/ ShowKeyboard \/ KeyboardEnter
        \/ PressOutside \/ PressElsewhere)
  BY DEF PressButton, PressEdit, PressClose, ShowKeyboard, KeyboardEnter,
         PressOutside, PressElsewhere, afterTouch, alertVars
<1>4. ~(\/ TimePasses \/ NoticeAlert \/ ActivateScreensaver
        \/ DeactivateScreensaver \/ Sweep \/ BecomeIdle)
  BY DEF TimePasses, NoticeAlert, ActivateScreensaver, DeactivateScreensaver,
         Sweep, BecomeIdle, otherThanScreen, alertVars
<1>5. ~Host
  BY DEF Host, OpenBox, CloseBox, ReceiveAnswer, panel, alertVars
<1> QED
  BY <1>1, <1>2, <1>3, <1>4, <1>5 DEF Next, Receive, Touch, Loop

\* A box that waits for an answer goes with a message of the printer or the
\* release of a button only: no response, pushed text, timeout or popup takes
\* it away.
THEOREM StaysUp == Spec => WaitingBoxStays
<1>1. ASSUME Inv, [Next]_vars, alertMode' # alertMode, alertMode \in Blocking
      PROVE  \/ msg' # msg
             \/ pressed # "none" /\ pressed' = "none"
             \/ alertMode' = "none" /\ ~alertTicks /\ popup' = popup
  <2>1. CASE ReceiveNoBox
    <3>1. msg.stage = "null" /\ msg' = [msg EXCEPT !.stage = "end"]
      BY <2>1 DEF ReceiveNoBox
    <3>2. msg'.stage = "end"
      BY <1>1, <3>1 DEF Inv, MessageOK, NoMessage
    <3> QED
      BY <3>1, <3>2
  <2>2. CASE EndReceivedMessage
    BY <2>2 DEF EndReceivedMessage, NoMessage
  <2>3. CASE ReceiveText
    BY <1>1, <2>3 DEF ReceiveText, MayShowText
  <2>4. CASE ReceiveClear
    <3>1. alertMode' = "none"
      BY <1>1, <2>4 DEF ReceiveClear, ClearAlert, Cleared
    <3>2. ~alertTicks
      BY <1>1 DEF Inv, NoTimeout
    <3> QED
      BY <2>4, <3>1, <3>2 DEF ReceiveClear
  <2>5. CASE AlertTimeout
    BY <1>1, <2>5 DEF AlertTimeout, Inv, NoTimeout
  <2>6. CASE ProcessRelease
    BY <2>6 DEF ProcessRelease
  <2> QED
    BY <1>1, <2>1, <2>2, <2>3, <2>4, <2>5, <2>6, ModeChanges
<1>2. Inv /\ [Next]_vars =>
          [alertMode' # alertMode /\ alertMode \in Blocking =>
              \/ msg' # msg
              \/ pressed # "none" /\ pressed' = "none"
              \/ alertMode' = "none" /\ ~alertTicks /\ popup' = popup]_vars
  BY <1>1
<1> QED
  BY <1>2, Inductive, PTL DEF Spec, WaitingBoxStays

\* A box that waits for an answer is put up when its number is higher than
\* that of all boxes put up before, so never a second time.
THEOREM OnlyOnce == Spec => ShownOnce
<1>1. ASSUME Inv, [Next]_vars, alertMode \notin Blocking,
             alertMode' \in Blocking
      PROVE  lastAlertSeq' > lastAlertSeq
  <2>1. alertMode' # alertMode /\ alertMode' # "none" /\ alertMode' # "close"
    BY <1>1 DEF Blocking
  <2>2. EndReceivedMessage
    BY <1>1, <2>1, ModeChanges
       DEF ReceiveNoBox, ReceiveText, ReceiveClear, AlertTimeout,
           ProcessRelease, ClearAlert, ClearAlertOrResponse, Cleared
  <2>3. IsNew /\ lastAlertSeq' = currentAlert.seq
    BY <2>1, <2>2 DEF EndReceivedMessage
  <2>4. /\ currentAlert.seq \in lastAlertSeq .. hostSeq
        /\ currentAlert.seq # lastAlertSeq
    BY <1>1, <2>3 DEF IsNew, Inv, Newer
  <2>5. lastAlertSeq \in 0 .. MaxSeq /\ hostSeq \in 0 .. MaxSeq
    BY <1>1 DEF Inv, AlertOK, HostOK
  <2> QED
    BY <2>3, <2>4, <2>5, Bounds
<1>2. Inv /\ [Next]_vars =>
          [~(alertMode \in Blocking) /\ alertMode' \in Blocking =>
              lastAlertSeq' > lastAlertSeq]_vars
  BY <1>1
<1> QED
  BY <1>2, Inductive, PTL DEF Spec, ShownOnce

=============================================================================
