------------------------------- MODULE History -------------------------------
(***************************************************************************)
(* The commands typed at the panel: a ring of buffers, of which one is      *)
(* being edited and the others hold what was sent before (ProcessTouch in   *)
(* UserInterface.cpp).                                                      *)
(***************************************************************************)
EXTENDS Integers, SequencesExt

CONSTANTS
    Keys,
    MaxLength,      \* of a command, 40 in the code
    NumBuffers      \* 6 in the code

HistoryAssumption ==
    /\ MaxLength \in Nat
    /\ NumBuffers \in Nat /\ NumBuffers >= 2

Commands == SeqOf(Keys, MaxLength)
Buffers == 0 .. NumBuffers - 1

VARIABLES
    userCommandBuffers,
    currentUserCommandBuffer,   \* the one being edited
    currentHistoryBuffer,       \* the one last fetched
    sent            \* history: the last commands sent, without repetitions

vars == <<userCommandBuffers, currentUserCommandBuffer, currentHistoryBuffer, sent>>

Init ==
    /\ userCommandBuffers = [b \in Buffers |-> <<>>]
    /\ currentUserCommandBuffer = 0 /\ currentHistoryBuffer = 0
    /\ sent = <<>>

command == userCommandBuffers[currentUserCommandBuffer]
Edit(text) ==
    userCommandBuffers' = [userCommandBuffers EXCEPT ![currentUserCommandBuffer] = text]

(* A key beyond the length of a buffer is dropped.                          *)
Key ==
    /\ Len(command) < MaxLength
    /\ \E key \in Keys : Edit(Append(command, key))
    /\ UNCHANGED <<currentUserCommandBuffer, currentHistoryBuffer, sent>>
Backspace ==
    /\ command # <<>>
    /\ Edit(Front(command))
    /\ UNCHANGED <<currentUserCommandBuffer, currentHistoryBuffer, sent>>

Back(b, n) == (b + NumBuffers - n) % NumBuffers

(* Up and Down go round the ring; its own buffer stands for a new command.  *)
Fetch(b) ==
    /\ currentHistoryBuffer' = b
    /\ Edit(IF b = currentUserCommandBuffer THEN <<>> ELSE userCommandBuffers[b])
    /\ UNCHANGED <<currentUserCommandBuffer, sent>>
Up == Fetch(Back(currentHistoryBuffer, 1))
Down == Fetch((currentHistoryBuffer + 1) % NumBuffers)

\* Mutant: it is compared with the command last fetched.
RepeatsFetched ==
    command = userCommandBuffers[Back(currentHistoryBuffer, 1)]

Repeats == command = userCommandBuffers[Back(currentUserCommandBuffer, 1)]

SendKeyboardCommand ==
    /\ command # <<>>
    /\ LET next == IF Repeats THEN currentUserCommandBuffer
                   ELSE (currentUserCommandBuffer + 1) % NumBuffers
       IN  /\ currentUserCommandBuffer' = next
           /\ currentHistoryBuffer' = next
           /\ userCommandBuffers' = [userCommandBuffers EXCEPT ![next] = <<>>]
    /\ sent' = IF sent # <<>> /\ Head(sent) = command THEN sent
               ELSE SubSeq(<<command>> \o sent, 1,
                           Min({NumBuffers - 1, Len(sent) + 1}))

Next == Key \/ Backspace \/ Up \/ Down \/ SendKeyboardCommand
Spec == Init /\ [][Next]_vars

-----------------------------------------------------------------------------
(* However commands were fetched and edited, going back n times from a new  *)
(* command finds the n-th last command sent, each once of those sent        *)
(* several times in a row, and none is lost before NumBuffers others were   *)
(* sent ("number of command history buffers plus one").                     *)
HistoryIsOfSent ==
    \A n \in 1 .. NumBuffers - 1 :
        userCommandBuffers[Back(currentUserCommandBuffer, n)] =
            IF n <= Len(sent) THEN sent[n] ELSE <<>>

=============================================================================
