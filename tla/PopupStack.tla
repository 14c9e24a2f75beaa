----------------------------- MODULE PopupStack -----------------------------
(* The windows on top of the page on show (Window and MainWindow in         *)
(* Display.cpp), from the lowest to the one that takes the touches.  The    *)
(* linked list of windows is a sequence without the main window.            *)
EXTENDS Naturals, Sequences

IsPopupActive(stack, popup) == \E i \in 1 .. Len(stack) : stack[i] = popup

\* Mutant: the list is not searched for the popup.
SetPopupAgain(stack, popup) == Append(stack, popup)

(* A popup that is already on display stays where it is, wherever that is.  *)
SetPopup(stack, popup) ==
    IF IsPopupActive(stack, popup) THEN stack ELSE Append(stack, popup)

(* ClearPopup() takes the top popup away, whichever it is.                  *)
ClearPopup(stack) ==
    IF stack = <<>> THEN stack ELSE SubSeq(stack, 1, Len(stack) - 1)

OnTop(stack, popup) == stack # <<>> /\ stack[Len(stack)] = popup

(* ClearPopup(redraw, whichOne) does so only if it is the one meant.        *)
ClearThisPopup(stack, popup) ==
    IF OnTop(stack, popup) THEN ClearPopup(stack) ELSE stack

(* MainWindow::ClearAllPopups.                                              *)
NoPopups == <<>>
=============================================================================
