------------------------------- MODULE Alerts -------------------------------
(***************************************************************************)
(* Message boxes, responses and the screensaver (PanelDue.cpp,              *)
(* UI/UserInterface.cpp and the AlertPopup of UI/Popup.cpp).                *)
(*                                                                          *)
(* The printer has at most one message box open.  Its mode and sequence     *)
(* number come field by field with every answer about the key "state"; the  *)
(* panel puts a new one up at the end of the message and sends M292 when    *)
(* the user presses a button on it, while it is the release of the button   *)
(* that takes the popup away.  The same popup shows responses and pushed    *)
(* messages.  Popups stack: a keyboard or the screensaver may come above.   *)
(*                                                                          *)
(* Modes 2 and 3 are "confirm", the numbers and texts of modes 5 to 7       *)
(* "input", and mode 4, whose buttons work as those of mode 2, is left out. *)
(* A landscape display is assumed: in portrait there are no popups.         *)
(***************************************************************************)
EXTENDS Naturals, Sequences, PopupStack

CONSTANTS
    Modes,      \* modes of the boxes the printer opens
    Screensaver,    \* TRUE if a screensaver timeout is set
    MaxSeq,     \* bound: message boxes the printer opens
    MaxSweeps,  \* bound: times popups are taken away all at once or from
                \* outside
    MaxCuts     \* bound: messages cut short

ASSUME AlertAssumption ==
    /\ Modes \subseteq {"info", "close", "confirm", "input"}
    /\ Screensaver \in BOOLEAN
    /\ {MaxSeq, MaxSweeps, MaxCuts} \subseteq Nat

Blocking == {"confirm", "input"}    \* these wait for an answer
Box == [mode : Modes, seq : 1 .. MaxSeq]
NoBox == [mode |-> "none", seq |-> 0]
NoMessage == [stage |-> "none"]

VARIABLES
    currentAlert,       \* the box being received
    lastAlertSeq,       \* box last put up
    alertMode,          \* mode of the alert on display
    displayingResponse,
    alertTicks,         \* TRUE if the alert or response times out
    popup,              \* contents of the alert popup
    stack,              \* the popups on display
    keyboardDataHandler,
    screensaverActive,
    pressed             \* place that is touched, if it is one of a button of
                        \* the alert popup whose release matters

VARIABLES
    idle,       \* nothing was done for as long as the screensaver waits
    status,     \* printer status, "idle" or another
    hostBox,    \* message box the printer has open
    hostSeq,    \* boxes it has opened
    toHost,     \* M292 on their way: the box's number, or 0 without one
    msg,        \* answer being received
    fetched,    \* the last whole answer about "state" has what is there now
    sweeps, cuts

VARIABLES       \* history, read by the properties only
    swept,      \* all popups were taken away with a box that waits
    upset       \* an alert timed out or was dismissed while a box was received

alertVars == <<currentAlert, lastAlertSeq, alertMode, displayingResponse,
               alertTicks, popup>>
screenVars == <<stack, keyboardDataHandler, screensaverActive, pressed, idle>>
hostVars == <<hostBox, hostSeq, toHost, fetched>>
boundVars == <<sweeps, cuts>>
ghostVars == <<swept, upset>>
vars == <<currentAlert, lastAlertSeq, alertMode, displayingResponse,
          alertTicks, popup, stack, keyboardDataHandler, screensaverActive,
          pressed, idle, status, hostBox, hostSeq, toHost, msg, fetched,
          sweeps, cuts, swept, upset>>

NoAlert(seq) == [mode |-> "none", seq |-> seq]

Init ==
    /\ currentAlert = NoAlert(0)
    /\ lastAlertSeq = 0
    /\ alertMode = "none"
    /\ displayingResponse = FALSE
    /\ alertTicks = FALSE
    /\ popup = [text |-> 0, layout |-> "none", mode |-> "none", seq |-> 0,
                ok |-> FALSE, value |-> FALSE]
    /\ stack = NoPopups
    /\ keyboardDataHandler = "gcode"
    /\ screensaverActive = FALSE
    /\ pressed = "none"
    /\ idle = FALSE
    /\ status = "busy"
    /\ hostBox = NoBox /\ hostSeq = 0 /\ toHost = <<>>
    /\ msg = NoMessage /\ fetched = FALSE
    /\ sweeps = 0 /\ cuts = 0
    /\ swept = FALSE /\ upset = FALSE

-----------------------------------------------------------------------------
(* The alert popup *)

(* Alert::Reset leaves the sequence number alone.                           *)
Reset(alert) == NoAlert(alert.seq)

(* AlertPopup::Set for a text without a box: what it knows of the last box  *)
(* stays.                                                                   *)
SetText == [popup EXCEPT !.text = 0, !.layout = "close", !.ok = FALSE,
                         !.value = FALSE]

\* Mutant: the popup keeps the number of the box before.
SetBoxKeepsSeq(box) ==
    [popup EXCEPT !.text = box.seq, !.layout = box.mode, !.mode = box.mode,
                  !.ok = box.mode \in Blocking, !.value = box.mode = "input"]

(* AlertPopup::Set for a box.                                               *)
SetBox(box) ==
    [text |-> box.seq, layout |-> box.mode, mode |-> box.mode, seq |-> box.seq,
     ok |-> box.mode \in Blocking, value |-> box.mode = "input"]

ProcessAlert(box) ==
    /\ popup' = SetBox(box)
    /\ stack' = SetPopup(stack, "alert")
    /\ alertMode' = box.mode
    /\ displayingResponse' = FALSE
    /\ alertTicks' \in IF box.mode \in Blocking THEN {FALSE} ELSE BOOLEAN

Cleared ==
    /\ alertTicks' = FALSE
    /\ stack' = ClearThisPopup(stack, "alert")
    /\ currentAlert' = Reset(currentAlert)
    /\ alertMode' = "none"
    /\ swept' = FALSE

\* Mutant: only an alert whose popup takes the touches is cleared.
ClearAlertOnTop ==
    \/ /\ alertMode # "none" /\ OnTop(stack, "alert")
       /\ Cleared
       /\ UNCHANGED displayingResponse
    \/ /\ alertMode = "none" \/ ~OnTop(stack, "alert")
       /\ UNCHANGED <<currentAlert, alertMode, displayingResponse, alertTicks,
                      stack, swept>>

ClearAlert ==
    \/ /\ alertMode # "none"
       /\ Cleared
       /\ UNCHANGED displayingResponse
    \/ /\ alertMode = "none"
       /\ UNCHANGED <<currentAlert, alertMode, displayingResponse, alertTicks,
                      stack, swept>>

ClearAlertOrResponse ==
    \/ /\ alertMode # "none" \/ displayingResponse
       /\ Cleared
       /\ displayingResponse' = FALSE
       /\ upset' = (upset \/ msg.stage = "end")
    \/ /\ alertMode = "none" /\ ~displayingResponse
       /\ UNCHANGED <<currentAlert, alertMode, displayingResponse, alertTicks,
                      stack, swept, upset>>

\* Mutant: a pushed message is shown whatever is on display.
MayShowTextAlways == TRUE

(* The alert on display does not require acknowledgement.                   *)
MayShowText == alertMode \notin Blocking

-----------------------------------------------------------------------------
(* Messages *)

(* StartReceivedMessage, of an answer about the key "state".                *)
StartReceivedMessage ==
    /\ msg = NoMessage
    /\ msg' = [stage |-> IF hostBox = NoBox THEN "null" ELSE "box",
               box |-> hostBox]
    /\ currentAlert' = Reset(currentAlert)
    /\ UNCHANGED <<lastAlertSeq, alertMode, displayingResponse, alertTicks,
                   popup, screenVars, status, hostVars, boundVars, ghostVars>>

(* "messageBox": null.                                                      *)
ReceiveNoBox ==
    /\ msg.stage = "null"
    /\ msg' = [msg EXCEPT !.stage = "end"]
    /\ ClearAlert
    /\ UNCHANGED <<lastAlertSeq, popup, keyboardDataHandler, screensaverActive,
                   pressed, idle, status, hostVars, boundVars, upset>>

(* The fields of a box, mode before seq.                                    *)
ReceiveBox ==
    /\ msg.stage = "box"
    /\ msg' = [msg EXCEPT !.stage = "end"]
    /\ currentAlert' = msg.box
    /\ UNCHANGED <<lastAlertSeq, alertMode, displayingResponse, alertTicks,
                   popup, screenVars, status, hostVars, boundVars, ghostVars>>

\* Mutants: the number is not compared, and is remembered as it comes.
IsNewAnyTime == currentAlert.mode # "none"
IsNewHighest ==
    currentAlert.mode # "none" /\ currentAlert.seq > lastAlertSeq + 1

IsNew == currentAlert.mode # "none" /\ currentAlert.seq # lastAlertSeq

(* The printer sends no mode -1, so that ClearAlert is not reached here.    *)
EndReceivedMessage ==
    /\ msg.stage = "end"
    /\ msg' = NoMessage
    /\ fetched' = (msg.box = hostBox)
    /\ \/ /\ IsNew
          /\ ProcessAlert(currentAlert)
          /\ lastAlertSeq' = currentAlert.seq
          /\ swept' = FALSE
       \/ /\ ~IsNew
          /\ UNCHANGED <<lastAlertSeq, alertMode, displayingResponse,
                         alertTicks, popup, stack, swept>>
    /\ UNCHANGED <<currentAlert, keyboardDataHandler, screensaverActive,
                   pressed, idle, status, hostBox, hostSeq, toHost, boundVars,
                   upset>>

(* The parser gives the message up; nothing is reset until the next one.    *)
CutMessage ==
    /\ msg # NoMessage
    /\ cuts < MaxCuts
    /\ cuts' = cuts + 1
    /\ msg' = NoMessage
    /\ UNCHANGED <<alertVars, screenVars, status, hostVars, sweeps, ghostVars>>

(* A whole message that carries a response (NewResponseReceived; errors do  *)
(* not time out) or a pushed "message" (ProcessSimpleAlert).                *)
ReceiveText ==
    /\ msg = NoMessage
    /\ MayShowText
    /\ popup' = SetText
    /\ stack' = SetPopup(stack, "alert")
    /\ \/ /\ alertMode' = "none" /\ displayingResponse' = TRUE
          /\ alertTicks' \in BOOLEAN
       \/ /\ alertMode' = "close" /\ displayingResponse' = FALSE
          /\ alertTicks' = FALSE
    /\ currentAlert' = Reset(currentAlert)
    /\ swept' = FALSE
    /\ UNCHANGED <<lastAlertSeq, keyboardDataHandler, screensaverActive,
                   pressed, idle, status, hostVars, msg, boundVars, upset>>

(* Any other message, or a response that may not be shown.                  *)
ReceiveOther ==
    /\ msg = NoMessage
    /\ currentAlert.mode # "none"
    /\ currentAlert' = Reset(currentAlert)
    /\ UNCHANGED <<lastAlertSeq, alertMode, displayingResponse, alertTicks,
                   popup, screenVars, status, hostVars, msg, boundVars,
                   ghostVars>>

(* A pushed "message" without a text.                                       *)
ReceiveClear ==
    /\ msg = NoMessage
    /\ alertMode # "none"
    /\ ClearAlert
    /\ UNCHANGED <<lastAlertSeq, popup, keyboardDataHandler, screensaverActive,
                   pressed, idle, status, hostVars, msg, boundVars, upset>>

(* Spin: the alert's time is over.                                          *)
AlertTimeout ==
    /\ alertTicks
    /\ ClearAlertOrResponse
    /\ UNCHANGED <<lastAlertSeq, popup, keyboardDataHandler, screensaverActive,
                   pressed, idle, status, hostVars, msg, boundVars>>

-----------------------------------------------------------------------------
(* Touch *)

afterTouch == <<currentAlert, lastAlertSeq, alertMode, displayingResponse,
                alertTicks, screensaverActive, status, hostBox, hostSeq,
                fetched, msg, boundVars, swept, upset>>

(* Buttons of the alert popup that are visible.  An input box may be sent   *)
(* without a Cancel button, which is then not there to be pressed.          *)
Buttons ==
    (IF popup.ok THEN {"ok"} ELSE {})
    \cup (IF popup.layout \in {"confirm", "input"} THEN {"cancel"} ELSE {})

(* ProcessOkButton names the box; the cancel button does not.               *)
Answer(button) ==
    IF button = "cancel" THEN <<0>>
    ELSE IF popup.mode \in Blocking THEN <<popup.seq>> ELSE <<>>

(* evOkAlert and evCloseAlert: the answer goes out when the button is       *)
(* pressed, and again while it is held.                                     *)
PressButton(button) ==
    /\ OnTop(stack, "alert")
    /\ button \in Buttons
    /\ pressed \in {"none", button}
    /\ toHost = <<>>
    /\ toHost' = toHost \o Answer(button)
    /\ pressed' = button
    /\ idle' = FALSE
    /\ UNCHANGED <<afterTouch, popup, stack, keyboardDataHandler>>

(* evEditAlert.                                                             *)
PressEdit ==
    /\ OnTop(stack, "alert")
    /\ popup.value
    /\ pressed = "none"
    /\ stack' = SetPopup(stack, "keyboard")
    /\ keyboardDataHandler' = "alert"
    /\ idle' = FALSE
    /\ UNCHANGED <<afterTouch, pressed, popup, toHost>>

(* evCancel, the cross of the alert popup and of the keyboard.              *)
PressClose ==
    /\ \/ OnTop(stack, "alert") /\ popup.layout = "close"
       \/ OnTop(stack, "keyboard")
    /\ pressed = "none"
    /\ stack' = ClearPopup(stack)
    /\ idle' = FALSE
    /\ UNCHANGED <<afterTouch, pressed, popup, keyboardDataHandler, toHost>>

(* ShowKeyboard, from the page.                                             *)
ShowKeyboard ==
    /\ stack = NoPopups
    /\ pressed = "none"
    /\ stack' = SetPopup(stack, "keyboard")
    /\ keyboardDataHandler' = "gcode"
    /\ idle' = FALSE
    /\ UNCHANGED <<afterTouch, pressed, popup, toHost>>

(* AlertPopup::UpdateData, with a valid value or not.                       *)
UpdateData ==
    \/ /\ popup.mode = "input"
       /\ \E valid \in BOOLEAN :
             popup' = [popup EXCEPT !.value = TRUE, !.ok = valid]
    \/ /\ popup.mode # "input"
       /\ popup' = [popup EXCEPT !.value = TRUE]

(* evSendKeyboardCommand.                                                   *)
KeyboardEnter ==
    /\ OnTop(stack, "keyboard")
    /\ pressed = "none"
    /\ \/ /\ keyboardDataHandler = "alert"
          /\ UpdateData
          /\ stack' = ClearThisPopup(stack, "keyboard")
       \/ /\ keyboardDataHandler = "gcode"
          /\ UNCHANGED <<popup, stack>>
    /\ idle' = FALSE
    /\ UNCHANGED <<afterTouch, pressed, keyboardDataHandler, toHost>>

(* ProcessTouchOutsidePopup, on the Setup page: other buttons of the page    *)
(* take the popup away, its tabs all popups.                                *)
PressOutside ==
    /\ stack # NoPopups
    /\ pressed = "none"
    /\ sweeps < MaxSweeps
    /\ sweeps' = sweeps + 1
    /\ stack' \in {ClearPopup(stack), NoPopups}
    /\ swept' = (swept \/ alertMode \in Blocking)
    /\ idle' = FALSE
    /\ UNCHANGED <<alertVars, keyboardDataHandler, screensaverActive, pressed,
                   status, hostVars, msg, cuts, upset>>

(* A touch of anything else, where an alert may come up later.              *)
PressElsewhere ==
    /\ ~OnTop(stack, "alert")
    /\ pressed = "none"
    /\ pressed' \in {"ok", "cancel", "none"}
    /\ idle' = FALSE
    /\ UNCHANGED <<afterTouch, popup, stack, keyboardDataHandler, toHost>>

(* ProcessRelease, with the button that is at the touched place now.        *)
ProcessRelease ==
    /\ pressed # "none"
    /\ pressed' = "none"
    /\ \/ /\ OnTop(stack, "alert") /\ pressed \in Buttons
          /\ ClearAlertOrResponse
       \/ /\ ~(OnTop(stack, "alert") /\ pressed \in Buttons)
          /\ UNCHANGED <<currentAlert, alertMode, displayingResponse,
                         alertTicks, stack, swept, upset>>
    /\ UNCHANGED <<lastAlertSeq, popup, keyboardDataHandler, screensaverActive,
                   idle, status, hostVars, msg, boundVars>>

-----------------------------------------------------------------------------
(* Screensaver and status *)

otherThanScreen == <<alertVars, keyboardDataHandler, pressed, status, hostVars,
                     msg, boundVars, ghostVars>>

TimePasses ==
    /\ Screensaver
    /\ ~idle
    /\ idle' = TRUE
    /\ UNCHANGED <<otherThanScreen, stack, screensaverActive>>

(* The main loop sees an alert that EndReceivedMessage has not: in the      *)
(* middle of a message, or after one that was cut short.                    *)
NoticeAlert ==
    /\ IsNew
    /\ idle
    /\ idle' = FALSE
    /\ UNCHANGED <<otherThanScreen, stack, screensaverActive>>

ScreensaverDue == idle /\ status = "idle"

(* The return at the start is for the box being received, which is reset    *)
(* with every message.                                                      *)
ActivateScreensaver ==
    /\ ScreensaverDue
    /\ currentAlert.mode # "confirm"
    /\ ~screensaverActive
    /\ screensaverActive' = TRUE
    /\ stack' = SetPopup(stack, "screensaver")
    /\ UNCHANGED <<otherThanScreen, idle>>

(* The popup goes if it has no other above it.                              *)
DeactivateScreensaver ==
    /\ ~ScreensaverDue
    /\ screensaverActive
    /\ IsPopupActive(stack, "screensaver") => OnTop(stack, "screensaver")
    /\ screensaverActive' = FALSE
    /\ stack' = ClearThisPopup(stack, "screensaver")
    /\ UNCHANGED <<otherThanScreen, idle>>

(* ChangeStatus: a new connection, after which all is asked for again, and  *)
(* a new print take all popups away.                                        *)
Sweep ==
    /\ sweeps < MaxSweeps
    /\ sweeps' = sweeps + 1
    /\ status' = "busy"
    /\ stack' = NoPopups
    /\ swept' = (swept \/ alertMode \in Blocking)
    /\ idle' = FALSE
    /\ fetched' \in {fetched, FALSE}
    /\ UNCHANGED <<alertVars, keyboardDataHandler, screensaverActive, pressed,
                   hostBox, hostSeq, toHost, msg, cuts, upset>>

BecomeIdle ==
    /\ status # "idle"
    /\ status' = "idle"
    /\ idle' = FALSE
    /\ UNCHANGED <<alertVars, stack, keyboardDataHandler, screensaverActive,
                   pressed, hostVars, msg, boundVars, ghostVars>>

-----------------------------------------------------------------------------
(* The printer *)

panel == <<alertVars, screenVars, status, msg, boundVars, ghostVars>>

OpenBox ==
    /\ hostBox.mode \notin Blocking
    /\ hostSeq < MaxSeq
    /\ hostSeq' = hostSeq + 1
    /\ hostBox' \in [mode : Modes, seq : {hostSeq + 1}]
    /\ fetched' = FALSE
    /\ UNCHANGED <<panel, toHost>>

(* It timed out, or was answered elsewhere.                                 *)
CloseBox ==
    /\ hostBox # NoBox
    /\ hostBox' = NoBox
    /\ fetched' = FALSE
    /\ UNCHANGED <<panel, hostSeq, toHost>>

ReceiveAnswer ==
    /\ toHost # <<>>
    /\ toHost' = Tail(toHost)
    /\ hostBox' = IF toHost[1] \in {0, hostBox.seq} THEN NoBox ELSE hostBox
    /\ fetched' = (fetched /\ hostBox' = hostBox)
    /\ UNCHANGED <<panel, hostSeq>>

-----------------------------------------------------------------------------
Receive ==
    \/ StartReceivedMessage \/ ReceiveNoBox \/ ReceiveBox
    \/ EndReceivedMessage \/ CutMessage \/ ReceiveText \/ ReceiveOther
    \/ ReceiveClear
Touch ==
    \/ \E button \in {"ok", "cancel"} : PressButton(button)
    \/ PressEdit \/ PressClose \/ ShowKeyboard \/ KeyboardEnter
    \/ PressOutside \/ PressElsewhere \/ ProcessRelease
Loop ==
    \/ AlertTimeout \/ TimePasses \/ NoticeAlert \/ ActivateScreensaver
    \/ DeactivateScreensaver \/ Sweep \/ BecomeIdle
Host == OpenBox \/ CloseBox \/ ReceiveAnswer

Next == Receive \/ Touch \/ Loop \/ Host
Spec == Init /\ [][Next]_vars

(* The key "state" is asked for again when it changed, until a whole answer  *)
(* came (module PollLoop), and what has begun to arrive goes on arriving.   *)
FairSpec ==
    /\ Spec
    /\ WF_vars(StartReceivedMessage /\ ~fetched)
    /\ WF_vars(ReceiveNoBox \/ ReceiveBox \/ EndReceivedMessage)

-----------------------------------------------------------------------------
(* Properties *)

(* Every variable has its type, and no window is twice in the list of       *)
(* windows, which would make it a circle.                                   *)
TypeOK ==
    /\ currentAlert \in [mode : Modes \cup {"none"}, seq : 0 .. MaxSeq]
    /\ lastAlertSeq \in 0 .. MaxSeq
    /\ alertMode \in Modes \cup {"none", "close"}
    /\ {displayingResponse, alertTicks, screensaverActive, idle, swept, upset,
        fetched} \subseteq BOOLEAN
    /\ popup \in [text : 0 .. MaxSeq, layout : Modes \cup {"none", "close"},
                  mode : Modes \cup {"none"}, seq : 0 .. MaxSeq,
                  ok : BOOLEAN, value : BOOLEAN]
    /\ stack \in Seq({"alert", "keyboard", "screensaver"})
    /\ \A i, j \in 1 .. Len(stack) : stack[i] = stack[j] => i = j
    /\ keyboardDataHandler \in {"gcode", "alert"}
    /\ pressed \in {"none", "ok", "cancel"}
    /\ status \in {"busy", "idle"}
    /\ hostBox \in Box \cup {NoBox}
    /\ hostSeq \in 0 .. MaxSeq
    /\ toHost \in Seq(0 .. MaxSeq)
    /\ msg = NoMessage \/ msg \in [stage : {"null", "box", "end"},
                                   box : Box \cup {NoBox}]
    /\ sweeps \in 0 .. MaxSweeps /\ cuts \in 0 .. MaxCuts

(* While a box waits for an answer its popup is there, unless all popups    *)
(* were taken away, with the text and buttons of that very box, and an      *)
(* answer given on it names it.                                             *)
WaitingBoxIsShown ==
    alertMode \in Blocking =>
        /\ swept \/ IsPopupActive(stack, "alert")
        /\ popup.text = lastAlertSeq /\ popup.seq = lastAlertSeq
        /\ popup.layout = alertMode /\ popup.mode = alertMode

(* A box that waits for an answer is taken away, or replaced, by the        *)
(* printer's message and by the user's touch only: no response, pushed      *)
(* text, timeout or popup does it.                                          *)
WaitingBoxStays ==
    [][alertMode' # alertMode /\ alertMode \in Blocking =>
          \/ msg' # msg
          \/ pressed # "none" /\ pressed' = "none"
          \/ alertMode' = "none" /\ ~alertTicks /\ popup' = popup]_vars

(* A box is put up once: not again when messages sent before its answer     *)
(* come after it.                                                           *)
ShownOnce ==
    [][~(alertMode \in Blocking) /\ alertMode' \in Blocking =>
          lastAlertSeq' > lastAlertSeq]_vars

(* A box the printer opens is put up, unless it is closed before; or unless *)
(* an alert on display happens to time out or to be dismissed in the middle *)
(* of the message, which then ends without the box.                         *)
NewBoxIsShown ==
    \A s \in 1 .. MaxSeq :
        hostBox.seq = s /\ lastAlertSeq < s ~>
            lastAlertSeq >= s \/ hostBox.seq # s \/ upset

(* When the printer has no box that waits, the panel does not wait for      *)
(* long, and shows responses again, also after a connection was lost.       *)
ClosedBoxGoes ==
    hostBox = NoBox /\ alertMode \in Blocking ~>
        alertMode \notin Blocking \/ hostBox # NoBox

(* "Message box was not closed on PanelDue if closed e.g. in DWC"           *)
(* (whatsnew.md:290, among the bugs that are fixed): the popup goes with    *)
(* the alert.                                                               *)
ClosedBoxIsGone ==
    [][alertMode' = "none" /\ alertMode \in Blocking =>
          ~IsPopupActive(stack', "alert")]_vars

=============================================================================
