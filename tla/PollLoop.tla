------------------------------ MODULE PollLoop ------------------------------
(***************************************************************************)
(* The request/response protocol between PanelDue and the printer's main   *)
(* board (PanelDue.cpp): the table seqs[] of object-model keys, the main   *)
(* loop's polling branch, the handlers the JSON parser calls when a        *)
(* message starts, ends or is abandoned, Reconnect, and the two timeouts.  *)
(*                                                                         *)
(* The host is the environment.  It answers requests in the order it       *)
(* received them, changes its object model (bumping the key's sequence     *)
(* number), pushes unsolicited messages, runs out of output buffers and    *)
(* restarts.  The serial line may lose a line or cut it short: the         *)
(* receiver drops the rest of a line after an error, so the parser sees a  *)
(* prefix of it followed by the newline.                                   *)
(*                                                                         *)
(* Time is abstracted: a delay is the free choice of when an action runs.  *)
(* What the polling code reads off the clock is whether a message has      *)
(* ended since the last request went out ("responded").                    *)
(***************************************************************************)
EXTENDS Naturals, Sequences

CONSTANTS
    NumSeqs,     \* number of enabled entries of seqs[] (10 in the firmware)
    MaxSeq,      \* bound: highest sequence number the host reaches
    MaxBoot,     \* bound: how often the host restarts
    MaxUp,       \* bound: highest uptime the host reaches
    MaxQueue,    \* bound: lines in flight in each direction
    StateSeq,    \* the entry "state", whose reply carries status and uptime
    MaxTrouble,  \* bound: lost and cut lines, refusals, pushes, requests for
                 \* files and thumbnails and visits to the Setup page
    CutLines,    \* TRUE if the line may cut a message short
    Keyless,     \* TRUE if the host sends messages that carry no "key"
    Patient      \* TRUE if no timeout fires while a line is in flight

ASSUME PollAssumption ==
    /\ NumSeqs \in Nat \ {0} /\ StateSeq \in 1 .. NumSeqs
    /\ {MaxSeq, MaxBoot, MaxUp, MaxQueue, MaxTrouble} \subseteq Nat
    /\ {CutLines, Keyless, Patient} \subseteq BOOLEAN

Seqs == 1 .. NumSeqs
Null == 0                       \* a nullptr of type Seq*

SeqState == {"init", "ok", "update", "error"}

VARIABLES
    seqState,       \* seqs[i].state
    lastSeq,        \* seqs[i].lastSeq
    currentReqSeq,  \* entry last requested
    currentRespSeq, \* entry the message being received belongs to
    initialized,
    status,         \* printer status, reduced to what OkToSend tells apart
    remoteUpTime,
    responded,      \* lastResponseTime >= lastPollTime
    setup           \* UI::IsSetupTab(): polling is suspended

panelVars == <<seqState, lastSeq, currentReqSeq, currentRespSeq, initialized,
               status, remoteUpTime, responded, setup>>

VARIABLES
    hostSeq,        \* sequence number of every key on the host
    boot,           \* how often the host has restarted
    upTime,         \* uptime the host reports
    toHost,         \* requests in flight
    toPanel,        \* replies and pushed messages in flight
    trouble         \* disturbances so far

hostVars == <<hostSeq, boot, upTime>>

VARIABLES           \* history, read by the properties only
    held,           \* a version every value the panel holds for the key is
                    \* at least as new as
    knownBoot       \* host boot of the newest uptime processed

ghostVars == <<held, knownBoot>>

vars == <<seqState, lastSeq, currentReqSeq, currentRespSeq, initialized,
          status, remoteUpTime, responded, setup, hostSeq, boot, upTime,
          toHost, toPanel, trouble, held, knownBoot>>

Request == [kind : {"key"}, key : Seqs] \cup [kind : {"live", "files"}]

Message == [kind : {"key"}, key : Seqs, seq : Nat, up : Nat]
           \cup [kind : {"live"}, seqs : [Seqs -> Nat], up : Nat]
           \cup [kind : {"plain", "oob"}]

Version == [whole : BOOLEAN, boot : Nat, seq : Nat]

NoData == [whole |-> FALSE, boot |-> 0, seq |-> 0]

TypeOK ==
    /\ seqState \in [Seqs -> SeqState]
    /\ lastSeq \in [Seqs -> Nat]
    /\ currentReqSeq \in Seqs \cup {Null}
    /\ currentRespSeq \in Seqs \cup {Null}
    /\ initialized \in BOOLEAN
    /\ status \in {"connecting", "free", "busy"}
    /\ remoteUpTime \in Nat
    /\ responded \in BOOLEAN
    /\ setup \in BOOLEAN
    /\ hostSeq \in [Seqs -> Nat]
    /\ boot \in Nat
    /\ upTime \in Nat
    /\ toHost \in Seq(Request)
    /\ toPanel \in Seq(Message)
    /\ trouble \in Nat
    /\ held \in [Seqs -> Version]
    /\ knownBoot \in Nat

Init ==
    /\ seqState = [i \in Seqs |-> "init"]
    /\ lastSeq = [i \in Seqs |-> 0]
    /\ currentReqSeq = Null
    /\ currentRespSeq = Null
    /\ initialized = FALSE
    /\ status = "connecting"
    /\ remoteUpTime = 0
    /\ responded = TRUE
    /\ setup = FALSE
    /\ hostSeq = [i \in Seqs |-> 0]
    /\ boot = 0
    /\ upTime = 0
    /\ toHost = <<>>
    /\ toPanel = <<>>
    /\ trouble = 0
    /\ held = [i \in Seqs |-> NoData]
    /\ knownBoot = 0

-----------------------------------------------------------------------------
(* The polling branch of the main loop.                                    *)

OkToSend == status = "free"

\* Where GetNextSeq starts its scan.
ScanFrom(current) == IF current = Null THEN 1 ELSE current

\* The entries GetNextSeq stops at.
Wanted(current) ==
    {i \in Seqs : i >= ScanFrom(current) /\ seqState[i] \in {"init", "update"}}

\* Mutant: the scan runs one entry too far.
GetNextSeqTooFar(current) ==
    IF Wanted(current) # {}
    THEN {i \in Wanted(current) : \A j \in Wanted(current) : i <= j}
    ELSE {NumSeqs + 1} \ {current}

\* What GetNextSeq returns: the first wanted entry, none for a nullptr.
GetNextSeq(current) ==
    {i \in Wanted(current) : \A j \in Wanted(current) : i <= j}

\* Mutant: entries in error are skipped but never put back.
SkipErrorsForGood(current, next) == seqState

\* GetNextSeq steps over entries in error and puts them back to "init".
SkipErrors(current, next) ==
    [i \in Seqs |->
        IF /\ seqState[i] = "error"
           /\ i >= ScanFrom(current)
           /\ next = Null \/ i < next
        THEN "init" ELSE seqState[i]]

\* Mutant: no wait for the response to the previous request.
CanPollAnyTime == ~setup

CanPoll == ~setup /\ responded

Send(request) ==
    /\ Len(toHost) < MaxQueue
    /\ toHost' = Append(toHost, request)
    /\ responded' = FALSE

\* "M36.1" for the next piece of a thumbnail, whose answer has no key (the
\* exchange itself is in the module Thumbnail).
PollThumbnail ==
    /\ CanPoll
    /\ Keyless
    /\ trouble < MaxTrouble
    /\ trouble' = trouble + 1
    /\ Send([kind |-> "files"])
    /\ UNCHANGED <<seqState, lastSeq, currentReqSeq, currentRespSeq,
                   initialized, status, remoteUpTime, setup, hostVars,
                   toPanel, ghostVars>>

\* "M409 K..." for the next entry that has to be fetched.
PollSeq ==
    /\ CanPoll
    /\ \E next \in GetNextSeq(currentReqSeq) :
          /\ currentReqSeq' = next
          /\ seqState' = SkipErrors(currentReqSeq, next)
          /\ Send([kind |-> "key", key |-> next])
    /\ UNCHANGED <<lastSeq, currentRespSeq, initialized, status, remoteUpTime,
                   setup, hostVars, toPanel, trouble, held, knownBoot>>

\* Mutant: the flag is not set at the end of the round.
PollIdleNoFlag ==
    /\ CanPoll
    /\ GetNextSeq(currentReqSeq) = {}
    /\ currentReqSeq' = Null
    /\ seqState' = SkipErrors(currentReqSeq, Null)
    /\ Send([kind |-> "live"])
    /\ UNCHANGED <<lastSeq, currentRespSeq, initialized, status, remoteUpTime,
                   setup, hostVars, toPanel, trouble, ghostVars>>

\* Nothing to fetch: the table has been worked through.  Ask for the live
\* values, or let FileManager::ProcessTimers send a file request (it has one
\* to send only now and then).
PollIdle ==
    /\ CanPoll
    /\ GetNextSeq(currentReqSeq) = {}
    /\ currentReqSeq' = Null
    /\ seqState' = SkipErrors(currentReqSeq, Null)
    /\ initialized' = TRUE
    /\ \/ /\ Send([kind |-> "live"])
          /\ UNCHANGED trouble
       \/ /\ OkToSend
          /\ Keyless
          /\ trouble < MaxTrouble
          /\ trouble' = trouble + 1
          /\ Send([kind |-> "files"])
    /\ UNCHANGED <<lastSeq, currentRespSeq, status, remoteUpTime, setup,
                   hostVars, toPanel, ghostVars>>

QuietLine == toHost = <<>> /\ toPanel = <<>>

\* The request went unanswered, or the line was never quiet enough to send
\* the next one.
RequestTimeout ==
    /\ ~setup
    /\ ~responded \/ toPanel # <<>>
    /\ Patient => QuietLine
    /\ Send([kind |-> "live"])
    /\ UNCHANGED <<seqState, lastSeq, currentReqSeq, currentRespSeq,
                   initialized, status, remoteUpTime, setup, hostVars,
                   toPanel, trouble, ghostVars>>

\* Mutant: the states in seqs[] are not reset.
ResetSeqsNot == seqState

\* The states after ResetSeqs.
ResetSeqs == [i \in Seqs |-> "init"]

\* What Reconnect assigns but for these and the time of the last response.
Disconnected ==
    /\ initialized' = FALSE
    /\ status' = "connecting"
    /\ lastSeq' = [i \in Seqs |-> 0]

ReconnectEffect == Disconnected /\ seqState' = ResetSeqs /\ responded' = TRUE

\* No response for three times the request timeout.
Reconnect ==
    /\ ~setup
    /\ ~responded
    /\ Patient => QuietLine
    /\ ReconnectEffect
    /\ UNCHANGED <<currentReqSeq, currentRespSeq, remoteUpTime, setup,
                   hostVars, toHost, toPanel, trouble, held, knownBoot>>

EnterSetup ==
    /\ ~setup
    /\ trouble < MaxTrouble
    /\ trouble' = trouble + 1
    /\ setup' = TRUE
    /\ UNCHANGED <<seqState, lastSeq, currentReqSeq, currentRespSeq,
                   initialized, status, remoteUpTime, responded, hostVars,
                   toHost, toPanel, ghostVars>>

\* After a long stay the first pass through the loop reconnects at once.
LeaveSetup ==
    /\ setup
    /\ setup' = FALSE
    /\ \/ UNCHANGED <<initialized, responded, status, lastSeq, seqState>>
       \/ (Patient => QuietLine) /\ ReconnectEffect
    /\ UNCHANGED <<currentReqSeq, currentRespSeq, remoteUpTime, hostVars,
                   toHost, toPanel, trouble, held, knownBoot>>

-----------------------------------------------------------------------------
(* Receiving a message.                                                    *)

\* EndReceivedMessage for a message that leaves currentRespSeq = resp.
EndReceivedMessage(state, resp, outOfBuffers) ==
    /\ seqState' = IF resp = Null THEN state
                   ELSE [state EXCEPT ![resp] =
                            IF outOfBuffers THEN "error" ELSE "ok"]
    /\ currentRespSeq' = Null
    /\ responded' = TRUE

\* An uptime that went down means that the host restarted.
Restarted(m) == m.up < remoteUpTime

\* The fields "status" and "upTime", which come after the sequence numbers,
\* with which lastSeq would be "last": SetStatus, or in the end Reconnect.
StateFields(m, last) ==
    /\ remoteUpTime' = m.up
    /\ knownBoot' = boot
    /\ \/ Restarted(m) /\ Disconnected
       \/ /\ ~Restarted(m)
          /\ lastSeq' = last
          /\ status' \in {"free", "busy"}
          /\ UNCHANGED initialized

\* The states after these fields.
SeqsAfter(m, state) == IF Restarted(m) THEN ResetSeqs ELSE state

\* A complete reply to "M409 K...": rcvKey selects the entry, the values are
\* processed, the closing brace ends the message.
ReceiveKey(m) ==
    /\ m.kind = "key"
    /\ held' = [held EXCEPT ![m.key] =
                    [whole |-> TRUE, boot |-> boot, seq |-> m.seq]]
    /\ \/ /\ m.key # StateSeq
          /\ EndReceivedMessage(seqState, m.key, FALSE)
          /\ UNCHANGED <<lastSeq, initialized, status, remoteUpTime, knownBoot>>
       \/ /\ m.key = StateSeq
          /\ StateFields(m, lastSeq)
          /\ EndReceivedMessage(SeqsAfter(m, seqState), m.key, FALSE)

\* Mutant: a new sequence number does not mark the entry.
UpdatedStateNever(seqs) == seqState

\* UpdateSeq for every announced entry.
UpdatedState(seqs) ==
    [i \in Seqs |-> IF i \in DOMAIN seqs /\ lastSeq[i] # seqs[i]
                    THEN "update" ELSE seqState[i]]

UpdatedLastSeq(seqs) ==
    [i \in Seqs |-> IF i \in DOMAIN seqs THEN seqs[i] ELSE lastSeq[i]]

\* A complete live reply: its key is empty, so it belongs to no entry.
ReceiveLive(m) ==
    /\ m.kind = "live"
    /\ StateFields(m, UpdatedLastSeq(m.seqs))
    /\ EndReceivedMessage(SeqsAfter(m, UpdatedState(m.seqs)), Null, FALSE)
    /\ UNCHANGED held

\* A complete message without a key: a file list, file information, a pushed
\* message, or {"err":-1} when the host is out of output buffers.
ReceiveKeyless(m) ==
    /\ m.kind \in {"plain", "oob"}
    /\ EndReceivedMessage(seqState, currentRespSeq, m.kind = "oob")
    /\ UNCHANGED <<lastSeq, initialized, status, remoteUpTime, held,
                   knownBoot>>

Receive ==
    /\ toPanel # <<>>
    /\ \/ ReceiveKey(Head(toPanel))
       \/ ReceiveLive(Head(toPanel))
       \/ ReceiveKeyless(Head(toPanel))
    /\ toPanel' = Tail(toPanel)
    /\ UNCHANGED <<currentReqSeq, setup, hostVars, toHost, trouble>>

\* What is left after a cut line when the parser had seen an error in it
\* (ParserErrorEncountered) and when it had not: currentRespSeq stays.
EndCutLine(state, resp, inError) ==
    /\ seqState' = IF inError /\ resp # Null
                   THEN [state EXCEPT ![resp] = "error"] ELSE state
    /\ currentRespSeq' = resp

\* The line ended before the uptime of the message, if it has one, but maybe
\* after the status.
NoUpTime(hasStatus) ==
    /\ status' \in {status} \cup {s \in {"free", "busy"} : hasStatus}
    /\ UNCHANGED <<initialized, remoteUpTime, responded, knownBoot>>

\* It ended after the uptime, and Reconnect counts as a response.
WithUpTime(m, last) ==
    /\ StateFields(m, last)
    /\ responded' = (responded \/ Restarted(m))

\* The line ended before any value of the message was processed.
CutEarly ==
    /\ \E inError \in BOOLEAN : EndCutLine(seqState, currentRespSeq, inError)
    /\ NoUpTime(FALSE)
    /\ UNCHANGED lastSeq

\* The reply to "M409 K..." ended after its key: some of the values have been
\* replaced by newer ones, which is no complete new version.
CutKey(m) ==
    /\ m.kind = "key"
    /\ \E inError \in BOOLEAN :
          \/ /\ EndCutLine(seqState, m.key, inError)
             /\ NoUpTime(m.key = StateSeq)
             /\ UNCHANGED lastSeq
          \/ /\ m.key = StateSeq
             /\ EndCutLine(SeqsAfter(m, seqState), m.key, inError)
             /\ WithUpTime(m, lastSeq)

\* The live reply ended after some of the sequence numbers, or after them.
CutLive(m) ==
    /\ m.kind = "live"
    /\ \/ \E seen \in SUBSET Seqs :
             LET part == [i \in seen |-> m.seqs[i]] IN
             /\ EndCutLine(UpdatedState(part), Null, FALSE)
             /\ lastSeq' = UpdatedLastSeq(part)
             /\ NoUpTime(seen = Seqs)
       \/ /\ EndCutLine(SeqsAfter(m, UpdatedState(m.seqs)), Null, FALSE)
          /\ WithUpTime(m, UpdatedLastSeq(m.seqs))

ReceiveCut ==
    /\ CutLines
    /\ toPanel # <<>>
    /\ trouble < MaxTrouble
    /\ trouble' = trouble + 1
    /\ \/ CutEarly
       \/ CutKey(Head(toPanel))
       \/ CutLive(Head(toPanel))
    /\ toPanel' = Tail(toPanel)
    /\ UNCHANGED <<currentReqSeq, setup, hostVars, toHost, held>>

-----------------------------------------------------------------------------
(* The line and the host.                                                  *)

LoseRequest ==
    /\ toHost # <<>>
    /\ trouble < MaxTrouble
    /\ trouble' = trouble + 1
    /\ toHost' = Tail(toHost)
    /\ UNCHANGED <<panelVars, hostVars, toPanel, ghostVars>>

LoseReply ==
    /\ toPanel # <<>>
    /\ trouble < MaxTrouble
    /\ trouble' = trouble + 1
    /\ toPanel' = Tail(toPanel)
    /\ UNCHANGED <<panelVars, hostVars, toHost, ghostVars>>

Reply(request) ==
    IF request.kind = "key"
    THEN [kind |-> "key", key |-> request.key, seq |-> hostSeq[request.key],
          up |-> upTime]
    ELSE IF request.kind = "live"
    THEN [kind |-> "live", seqs |-> hostSeq, up |-> upTime]
    ELSE [kind |-> "plain"]

HostAnswer ==
    /\ toHost # <<>>
    /\ Len(toPanel) < MaxQueue
    /\ toPanel' = Append(toPanel, Reply(Head(toHost)))
    /\ toHost' = Tail(toHost)
    /\ UNCHANGED <<panelVars, hostVars, trouble, ghostVars>>

\* No output buffer for the reply.
HostRefuse ==
    /\ Keyless
    /\ toHost # <<>>
    /\ Len(toPanel) < MaxQueue
    /\ trouble < MaxTrouble
    /\ trouble' = trouble + 1
    /\ toPanel' = Append(toPanel, [kind |-> "oob"])
    /\ toHost' = Tail(toHost)
    /\ UNCHANGED <<panelVars, hostVars, ghostVars>>

HostPush ==
    /\ Keyless
    /\ Len(toPanel) < MaxQueue
    /\ trouble < MaxTrouble
    /\ trouble' = trouble + 1
    /\ toPanel' = Append(toPanel, [kind |-> "plain"])
    /\ UNCHANGED <<panelVars, hostVars, toHost, ghostVars>>

HostChange ==
    /\ \E i \in Seqs :
          /\ hostSeq[i] < MaxSeq
          /\ hostSeq' = [hostSeq EXCEPT ![i] = @ + 1]
    /\ UNCHANGED <<panelVars, boot, upTime, toHost, toPanel, trouble,
                   ghostVars>>

\* Assumed: after a restart the host tells its new uptime before it has
\* caught up with the one the panel remembers.
HostTick ==
    /\ upTime < MaxUp
    /\ knownBoot # boot => upTime + 1 < remoteUpTime
    /\ upTime' = upTime + 1
    /\ UNCHANGED <<panelVars, hostSeq, boot, toHost, toPanel, trouble,
                   ghostVars>>

\* A restart takes seconds: what the host had sent has reached the panel or
\* is lost, and the requests it had not read are gone.
HostRestart ==
    /\ boot < MaxBoot
    /\ knownBoot = boot
    /\ remoteUpTime > 0
    /\ toPanel = <<>>
    /\ boot' = boot + 1
    /\ hostSeq' = [i \in Seqs |-> 0]
    /\ upTime' = 0
    /\ toHost' = <<>>
    /\ UNCHANGED <<panelVars, toPanel, trouble, ghostVars>>

-----------------------------------------------------------------------------

Next ==
    \/ PollSeq
    \/ PollThumbnail
    \/ PollIdle
    \/ RequestTimeout
    \/ Reconnect
    \/ EnterSetup
    \/ LeaveSetup
    \/ Receive
    \/ ReceiveCut
    \/ LoseRequest
    \/ LoseReply
    \/ HostAnswer
    \/ HostRefuse
    \/ HostPush
    \/ HostChange
    \/ HostTick
    \/ HostRestart

Spec == Init /\ [][Next]_vars

\* The main loop never stops, the timeouts compare a running clock, received
\* characters are processed on every pass, the user does not stay on the
\* Setup page for ever, and a host that is up answers.
Fairness ==
    /\ WF_vars(PollSeq)
    /\ WF_vars(PollIdle)
    /\ WF_vars(RequestTimeout)
    /\ WF_vars(LeaveSetup)
    /\ WF_vars(Receive)
    /\ WF_vars(HostAnswer)

FairSpec == Spec /\ Fairness

-----------------------------------------------------------------------------
(* Properties.                                                             *)

\* The data held for entry i is complete and at least as new as the newest
\* announcement the panel has processed.
UpToDate(i) ==
    /\ held[i].whole
    /\ \/ held[i].boot > knownBoot
       \/ held[i].boot = knownBoot /\ held[i].seq >= lastSeq[i]

\* An entry is marked ok only while the panel holds its complete data, at
\* least as new as the sequence number last announced for it, and none of it
\* from before a restart the panel has noticed.  (EndReceivedMessage marks
\* whatever entry currentRespSeq names; UpdateSeq must have marked it again
\* when anything newer was announced.)
OkIsFresh == \A i \in Seqs : seqState[i] = "ok" => UpToDate(i)

\* An entry whose reply was in error goes back to "init", so that its data is
\* asked for again, unless a complete reply or an announcement for that entry
\* comes first.  The comment in GetNextSeq says so.
ErrorIsRetried ==
    [][\A i \in Seqs :
          seqState[i] = "error" /\ seqState'[i] # "error" =>
             \/ seqState'[i] \in {"init", "update"}
             \/ /\ toPanel' = Tail(toPanel)
                /\ Head(toPanel).kind = "key"
                /\ Head(toPanel).key = i]_vars

\* With a host that speaks only when asked, and timeouts that outlast its
\* answers, the panel never has two requests outstanding, whatever lines are
\* lost or cut: this is what comparing lastResponseTime with lastPollTime is
\* for.
OneOutstanding == Len(toHost) + Len(toPanel) <= 1

\* Once the host stops changing and the line behaves, the panel ends up with
\* the host's current data under every key and knows it.
Converges ==
    <>[](\A i \in Seqs :
            /\ seqState[i] = "ok"
            /\ held[i] = [whole |-> TRUE, boot |-> boot, seq |-> hostSeq[i]])

\* The panel comes back from every outage: it is initialized again and again.
ComesBack == []<>initialized

\* The panel's copy of the object model is a mirror of the host's (module
\* Mirror): it only moves forward, to versions the host has had, and catches
\* up with the host.
AsMirror == INSTANCE Mirror WITH
    Keys  <- Seqs,
    truth <- [i \in Seqs |-> <<boot, hostSeq[i]>>],
    copy  <- [i \in Seqs |-> IF held[i].whole
                             THEN <<held[i].boot, held[i].seq>>
                             ELSE <<>>]

MirrorSpec == AsMirror!Spec
=============================================================================
