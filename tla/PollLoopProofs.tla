--------------------------- MODULE PollLoopProofs ---------------------------
(***************************************************************************)
(* Proofs about PollLoop for any number of entries and any bounds: type    *)
(* correctness, that an entry marked ok is fresh, and one in error retried, *)
(* on a line that does not both cut messages short and carry messages      *)
(* without a key, that a patient panel has one request outstanding, and    *)
(* that its copy of the host's data is a mirror.                           *)
(***************************************************************************)
EXTENDS PollLoop, TLAPS

USE DEF Null

-----------------------------------------------------------------------------
(* Queues.                                                                 *)

\* Sending on a channel keeps what it holds in R.
LEMMA AppendType ==
    ASSUME NEW R, NEW s \in Seq(R), NEW e \in R
    PROVE  Append(s, e) \in Seq(R)
OBVIOUS

\* Receiving from a channel yields a member of R and leaves a channel of R.
LEMMA TailType ==
    ASSUME NEW R, NEW s \in Seq(R), s # <<>>
    PROVE  Head(s) \in R /\ Tail(s) \in Seq(R)
OBVIOUS

\* The places of a sequence after Append: the old ones and a new last one.
LEMMA AppendParts ==
    ASSUME NEW R, NEW s \in Seq(R), NEW e \in R
    PROVE  /\ Len(Append(s, e)) = Len(s) + 1
           /\ \A p \in 1 .. Len(s) : Append(s, e)[p] = s[p]
           /\ Append(s, e)[Len(Append(s, e))] = e
OBVIOUS

\* The places of a sequence after Tail: all but the first, one lower.
LEMMA TailParts ==
    ASSUME NEW R, NEW s \in Seq(R), s # <<>>
    PROVE  /\ Len(s) \in Nat \ {0}
           /\ Len(Tail(s)) = Len(s) - 1
           /\ Head(s) = s[1]
           /\ \A p \in 1 .. Len(Tail(s)) : Tail(s)[p] = s[p + 1]
OBVIOUS

\* A length is a natural number.
LEMMA LenNat ==
    ASSUME NEW R, NEW s \in Seq(R)
    PROVE  Len(s) \in Nat
OBVIOUS

-----------------------------------------------------------------------------
(* What the members of Message and the results of the helpers look like.   *)

\* The fields of a message of each kind.
LEMMA MessageFields ==
    ASSUME NEW m \in Message
    PROVE  /\ m.kind \in {"key", "live", "plain", "oob"}
           /\ m.kind = "key" => m.key \in Seqs /\ m.seq \in Nat /\ m.up \in Nat
           /\ m.kind = "live" => m.seqs \in [Seqs -> Nat] /\ m.up \in Nat
BY DEF Message

\* The host answers every request with a message.
LEMMA ReplyType ==
    ASSUME TypeOK, NEW r \in Request
    PROVE  Reply(r) \in Message
<1>1. CASE r.kind = "key"
  <2>1. r.key \in Seqs
    BY <1>1 DEF Request
  <2>2. hostSeq[r.key] \in Nat /\ upTime \in Nat
    BY <2>1 DEF TypeOK
  <2>3. Reply(r) = [kind |-> "key", key |-> r.key, seq |-> hostSeq[r.key],
                    up |-> upTime]
    BY <1>1 DEF Reply
  <2> QED
    BY <2>1, <2>2, <2>3 DEF Message
<1>2. CASE r.kind = "live"
  BY <1>2 DEF Reply, Message, TypeOK
<1>3. CASE r.kind = "files"
  BY <1>3 DEF Reply, Message
<1> QED
  BY <1>1, <1>2, <1>3 DEF Request

-----------------------------------------------------------------------------
(* Type correctness.                                                       *)

\* The initial state is well typed.
LEMMA InitType == Init => TypeOK
<1> SUFFICES ASSUME Init PROVE TypeOK
  OBVIOUS
<1>1. toHost \in Seq(Request) /\ toPanel \in Seq(Message)
  BY DEF Init
<1>2. NoData \in Version
  BY DEF NoData, Version
<1> QED
  BY <1>1, <1>2 DEF Init, TypeOK, SeqState

\* Sending appends a request.
LEMMA SendType ==
    ASSUME TypeOK, NEW r \in Request, Send(r)
    PROVE  toHost' \in Seq(Request) /\ responded' \in BOOLEAN
<1>1. toHost \in Seq(Request)
  BY DEF TypeOK
<1>2. toHost' = Append(toHost, r) /\ responded' = FALSE
  BY DEF Send
<1>3. Append(toHost, r) \in Seq(Request)
  BY <1>1, AppendType
<1> QED
  BY <1>2, <1>3

\* Every step of the polling branch preserves the types.
LEMMA PollType ==
    ASSUME TypeOK, PollSeq \/ PollThumbnail \/ PollIdle \/ RequestTimeout
    PROVE  TypeOK'
<1>1. CASE PollSeq
  <2>1. PICK next \in Seqs :
            /\ currentReqSeq' = next
            /\ seqState' = SkipErrors(currentReqSeq, next)
            /\ Send([kind |-> "key", key |-> next])
    BY <1>1 DEF PollSeq, GetNextSeq, Wanted
  <2>2. [kind |-> "key", key |-> next] \in Request
    BY DEF Request
  <2>3. toHost' \in Seq(Request) /\ responded' \in BOOLEAN
    BY <2>1, <2>2, SendType
  <2>4. seqState' \in [Seqs -> SeqState]
    BY <2>1 DEF SkipErrors, TypeOK, SeqState
  <2> QED
    BY <1>1, <2>1, <2>3, <2>4 DEF PollSeq, TypeOK, hostVars
<1>2. CASE PollIdle
  <2>1. [kind |-> "live"] \in Request /\ [kind |-> "files"] \in Request
    BY DEF Request
  <2>2. toHost' \in Seq(Request) /\ responded' \in BOOLEAN
    BY <1>2, <2>1, SendType DEF PollIdle
  <2>3. seqState' \in [Seqs -> SeqState]
    BY <1>2 DEF PollIdle, SkipErrors, TypeOK, SeqState
  <2>4. trouble' \in Nat
    BY <1>2 DEF PollIdle, TypeOK
  <2> QED
    BY <1>2, <2>2, <2>3, <2>4 DEF PollIdle, TypeOK, hostVars, ghostVars
<1>3. CASE RequestTimeout
  <2>1. [kind |-> "live"] \in Request
    BY DEF Request
  <2>2. toHost' \in Seq(Request) /\ responded' \in BOOLEAN
    BY <1>3, <2>1, SendType DEF RequestTimeout
  <2> QED
    BY <1>3, <2>2 DEF RequestTimeout, TypeOK, hostVars, ghostVars
<1>4. CASE PollThumbnail
  <2>1. [kind |-> "files"] \in Request
    BY DEF Request
  <2>2. toHost' \in Seq(Request) /\ responded' \in BOOLEAN
    BY <1>4, <2>1, SendType DEF PollThumbnail
  <2>3. trouble' \in Nat
    BY <1>4 DEF PollThumbnail, TypeOK
  <2> QED
    BY <1>4, <2>2, <2>3 DEF PollThumbnail, TypeOK, hostVars, ghostVars
<1> QED
  BY <1>1, <1>2, <1>3, <1>4

\* What Reconnect assigns is well typed.
LEMMA ReconnectEffectType ==
    ASSUME ReconnectEffect
    PROVE  /\ initialized' \in BOOLEAN
           /\ responded' \in BOOLEAN
           /\ status' \in {"connecting", "free", "busy"}
           /\ lastSeq' \in [Seqs -> Nat]
           /\ seqState' \in [Seqs -> SeqState]
BY DEF ReconnectEffect, Disconnected, ResetSeqs, SeqState

\* So is what the status and the uptime of a message lead to.
LEMMA StateFieldsType ==
    ASSUME TypeOK, NEW m, m.up \in Nat, NEW last \in [Seqs -> Nat],
           StateFields(m, last)
    PROVE  /\ initialized' \in BOOLEAN
           /\ status' \in {"connecting", "free", "busy"}
           /\ lastSeq' \in [Seqs -> Nat]
           /\ remoteUpTime' \in Nat
           /\ knownBoot' \in Nat
<1>1. boot \in Nat /\ initialized \in BOOLEAN
  BY DEF TypeOK
<1>2. remoteUpTime' = m.up /\ knownBoot' = boot
  BY DEF StateFields
<1>3. CASE Restarted(m) /\ Disconnected
  BY <1>1, <1>2, <1>3 DEF Disconnected
<1>4. CASE lastSeq' = last /\ status' \in {"free", "busy"} /\ UNCHANGED initialized
  BY <1>1, <1>2, <1>4
<1> QED
  BY <1>3, <1>4 DEF StateFields

\* And the states after them.
LEMMA SeqsAfterType ==
    ASSUME NEW m, NEW st \in [Seqs -> SeqState]
    PROVE  SeqsAfter(m, st) \in [Seqs -> SeqState]
BY DEF SeqsAfter, ResetSeqs, SeqState

\* Reconnecting and visiting the Setup page preserve the types.
LEMMA ReconnectType ==
    ASSUME TypeOK, Reconnect \/ EnterSetup \/ LeaveSetup
    PROVE  TypeOK'
<1>2. CASE Reconnect
  BY <1>2, ReconnectEffectType DEF Reconnect, TypeOK, hostVars
<1>3. CASE EnterSetup
  BY <1>3 DEF EnterSetup, TypeOK, hostVars, ghostVars
<1>4. CASE LeaveSetup
  BY <1>4, ReconnectEffectType DEF LeaveSetup, TypeOK, hostVars
<1> QED
  BY <1>2, <1>3, <1>4

\* Receiving a message, whole or cut, preserves the types.
LEMMA ReceiveType ==
    ASSUME TypeOK, Receive \/ ReceiveCut
    PROVE  TypeOK'
<1>1. /\ toPanel # <<>>
      /\ toPanel' = Tail(toPanel)
  BY DEF Receive, ReceiveCut
<1>2. toPanel \in Seq(Message)
  BY DEF TypeOK
<1>3. toPanel' \in Seq(Message) /\ Head(toPanel) \in Message
  BY <1>1, <1>2, TailType
<1> DEFINE m == Head(toPanel)
<1>4. /\ m.kind = "key" => m.key \in Seqs /\ m.seq \in Nat /\ m.up \in Nat
      /\ m.kind = "live" => m.seqs \in [Seqs -> Nat] /\ m.up \in Nat
  BY <1>3, MessageFields
<1> HIDE DEF m
<1>5. ASSUME NEW st \in [Seqs -> SeqState], NEW resp \in Seqs \cup {Null},
             NEW oob \in BOOLEAN, EndReceivedMessage(st, resp, oob)
      PROVE  /\ seqState' \in [Seqs -> SeqState]
             /\ currentRespSeq' \in Seqs \cup {Null}
             /\ responded' \in BOOLEAN
  BY <1>5 DEF EndReceivedMessage, SeqState
<1>6. ASSUME NEW st \in [Seqs -> SeqState], NEW resp \in Seqs \cup {Null},
             NEW err \in BOOLEAN, EndCutLine(st, resp, err)
      PROVE  /\ seqState' \in [Seqs -> SeqState]
             /\ currentRespSeq' \in Seqs \cup {Null}
  BY <1>6 DEF EndCutLine, SeqState
<1>7. ASSUME NEW seen \in SUBSET Seqs, NEW f \in [seen -> Nat]
      PROVE  /\ UpdatedState(f) \in [Seqs -> SeqState]
             /\ UpdatedLastSeq(f) \in [Seqs -> Nat]
  BY DEF UpdatedState, UpdatedLastSeq, SeqState, TypeOK
<1>8. /\ seqState \in [Seqs -> SeqState]
      /\ currentRespSeq \in Seqs \cup {Null}
      /\ lastSeq \in [Seqs -> Nat]
      /\ held \in [Seqs -> Version]
      /\ boot \in Nat
  BY DEF TypeOK
<1>9. CASE Receive
  <2>1. CASE ReceiveKey(m)
    <3>1. m.key \in Seqs /\ m.seq \in Nat /\ m.up \in Nat
      BY <1>4, <2>1 DEF ReceiveKey
    <3>2. [whole |-> TRUE, boot |-> boot, seq |-> m.seq] \in Version
      BY <1>8, <3>1 DEF Version
    <3>3. held' \in [Seqs -> Version]
      BY <1>8, <2>1, <3>2 DEF ReceiveKey
    <3>4. CASE m.key # StateSeq
      <4>1. /\ EndReceivedMessage(seqState, m.key, FALSE)
            /\ UNCHANGED <<lastSeq, initialized, status, remoteUpTime,
                           knownBoot>>
        BY <2>1, <3>4 DEF ReceiveKey
      <4>2. /\ seqState' \in [Seqs -> SeqState]
            /\ currentRespSeq' \in Seqs \cup {Null}
            /\ responded' \in BOOLEAN
        BY <1>5, <1>8, <3>1, <4>1
      <4> QED
        BY <1>3, <1>9, <3>3, <4>1, <4>2 DEF Receive, TypeOK, hostVars
    <3>5. CASE m.key = StateSeq
      <4>1. /\ StateFields(m, lastSeq)
            /\ EndReceivedMessage(SeqsAfter(m, seqState), m.key, FALSE)
        BY <2>1, <3>5 DEF ReceiveKey
      <4>2. SeqsAfter(m, seqState) \in [Seqs -> SeqState]
        BY <1>8, SeqsAfterType
      <4>3. /\ seqState' \in [Seqs -> SeqState]
            /\ currentRespSeq' \in Seqs \cup {Null}
            /\ responded' \in BOOLEAN
        BY <1>5, <3>1, <4>1, <4>2
      <4>4. /\ initialized' \in BOOLEAN
            /\ status' \in {"connecting", "free", "busy"}
            /\ lastSeq' \in [Seqs -> Nat]
            /\ remoteUpTime' \in Nat
            /\ knownBoot' \in Nat
        BY <1>8, <3>1, <4>1, StateFieldsType
      <4> QED
        BY <1>3, <1>9, <3>3, <4>3, <4>4 DEF Receive, TypeOK, hostVars
    <3> QED
      BY <3>4, <3>5
  <2>2. CASE ReceiveLive(m)
    <3>1. m.seqs \in [Seqs -> Nat] /\ m.up \in Nat
      BY <1>4, <2>2 DEF ReceiveLive
    <3>2. /\ StateFields(m, UpdatedLastSeq(m.seqs))
          /\ EndReceivedMessage(SeqsAfter(m, UpdatedState(m.seqs)), Null, FALSE)
          /\ UNCHANGED held
      BY <2>2 DEF ReceiveLive
    <3>3. /\ SeqsAfter(m, UpdatedState(m.seqs)) \in [Seqs -> SeqState]
          /\ UpdatedLastSeq(m.seqs) \in [Seqs -> Nat]
      BY <1>7, <3>1, SeqsAfterType
    <3>4. /\ seqState' \in [Seqs -> SeqState]
          /\ currentRespSeq' \in Seqs \cup {Null}
          /\ responded' \in BOOLEAN
      BY <1>5, <3>2, <3>3
    <3>5. /\ initialized' \in BOOLEAN
          /\ status' \in {"connecting", "free", "busy"}
          /\ lastSeq' \in [Seqs -> Nat]
          /\ remoteUpTime' \in Nat
          /\ knownBoot' \in Nat
      BY <3>1, <3>2, <3>3, StateFieldsType
    <3> QED
      BY <1>3, <1>9, <3>2, <3>4, <3>5 DEF Receive, TypeOK, hostVars
  <2>3. CASE ReceiveKeyless(m)
    <3>1. /\ seqState' \in [Seqs -> SeqState]
          /\ currentRespSeq' \in Seqs \cup {Null}
          /\ responded' \in BOOLEAN
      BY <1>5, <1>8, <2>3 DEF ReceiveKeyless
    <3> QED
      BY <1>3, <1>9, <2>3, <3>1
      DEF Receive, ReceiveKeyless, TypeOK, hostVars
  <2> QED
    BY <1>9, <2>1, <2>2, <2>3 DEF Receive, m
<1>10. CASE ReceiveCut
  <2>1. /\ UNCHANGED <<currentReqSeq, setup, hostVars, toHost, held>>
        /\ trouble' \in Nat
    BY <1>10 DEF ReceiveCut, TypeOK
  <2>2. ASSUME /\ seqState' \in [Seqs -> SeqState]
               /\ currentRespSeq' \in Seqs \cup {Null}
               /\ lastSeq' \in [Seqs -> Nat],
               NEW b \in BOOLEAN, NoUpTime(b)
        PROVE  TypeOK'
    BY <1>3, <2>1, <2>2 DEF NoUpTime, TypeOK, hostVars
  <2>3. ASSUME /\ seqState' \in [Seqs -> SeqState]
               /\ currentRespSeq' \in Seqs \cup {Null},
               NEW last \in [Seqs -> Nat], m.up \in Nat, WithUpTime(m, last)
        PROVE  TypeOK'
    <3>1. /\ initialized' \in BOOLEAN
          /\ status' \in {"connecting", "free", "busy"}
          /\ lastSeq' \in [Seqs -> Nat]
          /\ remoteUpTime' \in Nat
          /\ knownBoot' \in Nat
      BY <2>3, StateFieldsType DEF WithUpTime
    <3>2. responded' \in BOOLEAN
      BY <2>3 DEF WithUpTime
    <3> QED
      BY <1>3, <2>1, <2>3, <3>1, <3>2 DEF TypeOK, hostVars
  <2>4. CASE CutEarly
    <3>1. /\ seqState' \in [Seqs -> SeqState]
          /\ currentRespSeq' \in Seqs \cup {Null}
      BY <1>6, <1>8, <2>4 DEF CutEarly
    <3> QED
      BY <1>8, <2>2, <2>4, <3>1 DEF CutEarly
  <2>5. CASE CutKey(m)
    <3>1. m.key \in Seqs /\ m.up \in Nat
      BY <1>4, <2>5 DEF CutKey
    <3>2. PICK inError \in BOOLEAN :
             \/ /\ EndCutLine(seqState, m.key, inError)
                /\ NoUpTime(m.key = StateSeq)
                /\ UNCHANGED lastSeq
             \/ /\ EndCutLine(SeqsAfter(m, seqState), m.key, inError)
                /\ WithUpTime(m, lastSeq)
      BY <2>5 DEF CutKey
    <3>3. CASE /\ EndCutLine(seqState, m.key, inError)
               /\ NoUpTime(m.key = StateSeq)
               /\ UNCHANGED lastSeq
      BY <1>6, <1>8, <2>2, <3>1, <3>3
    <3>4. CASE /\ EndCutLine(SeqsAfter(m, seqState), m.key, inError)
               /\ WithUpTime(m, lastSeq)
      <4>1. SeqsAfter(m, seqState) \in [Seqs -> SeqState]
        BY <1>8, SeqsAfterType
      <4> QED
        BY <1>6, <1>8, <2>3, <3>1, <3>4, <4>1
    <3> QED
      BY <3>2, <3>3, <3>4
  <2>6. CASE CutLive(m)
    <3>1. m.seqs \in [Seqs -> Nat] /\ m.up \in Nat
      BY <1>4, <2>6 DEF CutLive
    <3>2. CASE \E seen \in SUBSET Seqs :
                  LET part == [i \in seen |-> m.seqs[i]] IN
                  /\ EndCutLine(UpdatedState(part), Null, FALSE)
                  /\ lastSeq' = UpdatedLastSeq(part)
                  /\ NoUpTime(seen = Seqs)
      <4>1. PICK seen \in SUBSET Seqs :
               /\ EndCutLine(UpdatedState([i \in seen |-> m.seqs[i]]), Null,
                             FALSE)
               /\ lastSeq' = UpdatedLastSeq([i \in seen |-> m.seqs[i]])
               /\ NoUpTime(seen = Seqs)
        BY <3>2
      <4>2. [i \in seen |-> m.seqs[i]] \in [seen -> Nat]
        BY <3>1
      <4>3. /\ UpdatedState([i \in seen |-> m.seqs[i]]) \in [Seqs -> SeqState]
            /\ lastSeq' \in [Seqs -> Nat]
        BY <1>7, <4>1, <4>2
      <4>4. /\ seqState' \in [Seqs -> SeqState]
            /\ currentRespSeq' \in Seqs \cup {Null}
        BY <1>6, <4>1, <4>3
      <4> QED
        BY <2>2, <4>1, <4>3, <4>4
    <3>3. CASE /\ EndCutLine(SeqsAfter(m, UpdatedState(m.seqs)), Null, FALSE)
               /\ WithUpTime(m, UpdatedLastSeq(m.seqs))
      <4>1. /\ SeqsAfter(m, UpdatedState(m.seqs)) \in [Seqs -> SeqState]
            /\ UpdatedLastSeq(m.seqs) \in [Seqs -> Nat]
        BY <1>7, <3>1, SeqsAfterType
      <4>2. /\ seqState' \in [Seqs -> SeqState]
            /\ currentRespSeq' \in Seqs \cup {Null}
        BY <1>6, <3>3, <4>1
      <4> QED
        BY <2>3, <3>1, <3>3, <4>1, <4>2
    <3> QED
      BY <2>6, <3>2, <3>3 DEF CutLive
  <2> QED
    BY <1>10, <2>4, <2>5, <2>6 DEF ReceiveCut, m
<1> QED
  BY <1>9, <1>10

\* The steps of the line and of the host preserve the types.
LEMMA HostType ==
    ASSUME TypeOK,
           \/ LoseRequest \/ LoseReply \/ HostAnswer \/ HostRefuse \/ HostPush
           \/ HostChange \/ HostTick \/ HostRestart
    PROVE  TypeOK'
<1>1. toHost \in Seq(Request) /\ toPanel \in Seq(Message)
  BY DEF TypeOK
<1>2. CASE LoseRequest
  <2>1. toHost' \in Seq(Request)
    BY <1>1, <1>2, TailType DEF LoseRequest
  <2> QED
    BY <1>2, <2>1 DEF LoseRequest, TypeOK, panelVars, hostVars, ghostVars
<1>3. CASE LoseReply
  <2>1. toPanel' \in Seq(Message)
    BY <1>1, <1>3, TailType DEF LoseReply
  <2> QED
    BY <1>3, <2>1 DEF LoseReply, TypeOK, panelVars, hostVars, ghostVars
<1>4. CASE HostAnswer
  <2>1. Head(toHost) \in Request /\ toHost' \in Seq(Request)
    BY <1>1, <1>4, TailType DEF HostAnswer
  <2>2. Reply(Head(toHost)) \in Message
    BY <2>1, ReplyType
  <2>3. toPanel' \in Seq(Message)
    BY <1>1, <1>4, <2>2, AppendType DEF HostAnswer
  <2> QED
    BY <1>4, <2>1, <2>3 DEF HostAnswer, TypeOK, panelVars, hostVars, ghostVars
<1>5. CASE HostRefuse
  <2>1. toHost' \in Seq(Request)
    BY <1>1, <1>5, TailType DEF HostRefuse
  <2>2. [kind |-> "oob"] \in Message
    BY DEF Message
  <2>3. toPanel' \in Seq(Message)
    BY <1>1, <1>5, <2>2, AppendType DEF HostRefuse
  <2> QED
    BY <1>5, <2>1, <2>3 DEF HostRefuse, TypeOK, panelVars, hostVars, ghostVars
<1>6. CASE HostPush
  <2>1. [kind |-> "plain"] \in Message
    BY DEF Message
  <2>2. toPanel' \in Seq(Message)
    BY <1>1, <1>6, <2>1, AppendType DEF HostPush
  <2> QED
    BY <1>6, <2>2 DEF HostPush, TypeOK, panelVars, hostVars, ghostVars
<1>7. CASE HostChange
  BY <1>7 DEF HostChange, TypeOK, panelVars, ghostVars
<1>8. CASE HostTick
  BY <1>8 DEF HostTick, TypeOK, panelVars, ghostVars
<1>9. CASE HostRestart
  <2>1. <<>> \in Seq(Request)
    OBVIOUS
  <2>2. toHost' \in Seq(Request)
    BY <1>9, <2>1 DEF HostRestart
  <2> QED
    BY <1>9, <2>2 DEF HostRestart, TypeOK, panelVars, ghostVars
<1> QED
  BY <1>2, <1>3, <1>4, <1>5, <1>6, <1>7, <1>8, <1>9

\* In every behaviour of the specification every variable keeps its type:
\* in particular seqs[], its states and the two Seq pointers of PanelDue.cpp
\* stay within their tables.
THEOREM TypeCorrect == Spec => []TypeOK
<1>1. TypeOK /\ [Next]_vars => TypeOK'
  <2> SUFFICES ASSUME TypeOK, [Next]_vars PROVE TypeOK'
    OBVIOUS
  <2>1. CASE Next
    BY <2>1, PollType, ReconnectType, ReceiveType, HostType DEF Next
  <2>2. CASE UNCHANGED vars
    BY <2>2 DEF vars, TypeOK
  <2> QED
    BY <2>1, <2>2
<1> QED
  BY <1>1, InitType, PTL DEF Spec

-----------------------------------------------------------------------------
(* Freshness: the inductive invariant.                                     *)

Positions == 1 .. Len(toPanel)

\* A line that never cuts a message leaves no entry selected between two
\* messages.
NoStale == ~CutLines => currentRespSeq = Null

\* A host that sends keyed messages only.
NoKeyless ==
    ~Keyless => /\ \A p \in Positions : toPanel[p].kind \notin {"plain", "oob"}
                /\ \A p \in 1 .. Len(toHost) : toHost[p].kind # "files"

\* Nothing the panel knows is from a later boot than the host's.
BootKnown == knownBoot <= boot /\ \A i \in Seqs : held[i].boot <= boot

\* The host has reached every sequence number in flight.
FromHost ==
    \A p \in Positions :
        /\ toPanel[p].kind = "key" =>
              toPanel[p].seq <= hostSeq[toPanel[p].key]
        /\ toPanel[p].kind = "live" =>
              \A i \in Seqs : toPanel[p].seqs[i] <= hostSeq[i]

\* No key reply in flight is older than what its boot has announced.
NotOlder ==
    knownBoot = boot =>
        \A p \in Positions :
            toPanel[p].kind = "key" =>
                lastSeq[toPanel[p].key] <= toPanel[p].seq

\* A key reply sent after a live reply is at least as new as it announced.
Sorted ==
    \A p, q \in Positions :
        p < q /\ toPanel[p].kind = "live" /\ toPanel[q].kind = "key" =>
            toPanel[p].seqs[toPanel[q].key] <= toPanel[q].seq

\* The host has reached what has been announced of its current boot.
Announced == knownBoot = boot => \A i \in Seqs : lastSeq[i] <= hostSeq[i]

\* A restart the panel has not noticed shows in every uptime that is on its
\* way or still to be sent.
RestartShows ==
    knownBoot < boot =>
        /\ upTime < remoteUpTime
        /\ \A p \in Positions :
              toPanel[p].kind \in {"key", "live"} =>
                 toPanel[p].up < remoteUpTime

FreshInv ==
    /\ TypeOK
    /\ NoStale
    /\ NoKeyless
    /\ BootKnown
    /\ FromHost
    /\ NotOlder
    /\ Sorted
    /\ Announced
    /\ RestartShows
    /\ OkIsFresh

\* What TypeOK says of a message in flight.
LEMMA InFlight ==
    ASSUME TypeOK, NEW p \in Positions
    PROVE  /\ toPanel[p].kind \in {"key", "live", "plain", "oob"}
           /\ toPanel[p].kind = "key" =>
                 /\ toPanel[p].key \in Seqs
                 /\ toPanel[p].seq \in Nat /\ toPanel[p].up \in Nat
           /\ toPanel[p].kind = "live" =>
                 toPanel[p].seqs \in [Seqs -> Nat] /\ toPanel[p].up \in Nat
<1>1. toPanel[p] \in Message
  BY DEF TypeOK, Positions
<1> QED
  BY <1>1, MessageFields

\* The steps of the polling branch: no entry becomes ok, and the messages in
\* flight to the panel stay.
LEMMA PollFresh ==
    ASSUME FreshInv, TypeOK',
           PollSeq \/ PollThumbnail \/ PollIdle \/ RequestTimeout
    PROVE  FreshInv'
<1>1. UNCHANGED <<lastSeq, currentRespSeq, remoteUpTime, hostVars, toPanel,
                  held, knownBoot>>
  BY DEF PollSeq, PollThumbnail, PollIdle, RequestTimeout, ghostVars
<1>2. /\ NoStale' /\ BootKnown' /\ FromHost' /\ NotOlder' /\ Sorted'
      /\ Announced' /\ RestartShows'
  BY <1>1 DEF FreshInv, NoStale, BootKnown, FromHost, NotOlder, Sorted,
              Announced, RestartShows, Positions, hostVars
<1>3. OkIsFresh'
  <2>1. \A i \in Seqs : seqState'[i] = "ok" => seqState[i] = "ok"
    BY DEF PollSeq, PollThumbnail, PollIdle, RequestTimeout, SkipErrors
  <2> QED
    BY <1>1, <2>1 DEF FreshInv, OkIsFresh, UpToDate
<1>4. NoKeyless'
  <2>1. PICK r \in Request : Send(r) /\ (r.kind = "files" => Keyless)
    <3>1. /\ \A i \in Seqs : [kind |-> "key", key |-> i] \in Request
          /\ [kind |-> "live"] \in Request
          /\ [kind |-> "files"] \in Request
      BY DEF Request
    <3>2. CASE PollSeq
      <4>1. PICK next \in Seqs : Send([kind |-> "key", key |-> next])
        BY <3>2 DEF PollSeq, GetNextSeq, Wanted
      <4> QED
        BY <3>1, <4>1
    <3>3. CASE PollThumbnail \/ PollIdle \/ RequestTimeout
      <4>1. \/ Send([kind |-> "live"])
            \/ Keyless /\ Send([kind |-> "files"])
        BY <3>3 DEF PollThumbnail, PollIdle, RequestTimeout
      <4> QED
        BY <3>1, <4>1
    <3> QED
      BY <3>2, <3>3
  <2>2. toHost \in Seq(Request) /\ toHost' = Append(toHost, r)
    BY <2>1 DEF Send, FreshInv, TypeOK
  <2>3. /\ Len(toHost') = Len(toHost) + 1
        /\ \A p \in 1 .. Len(toHost) : toHost'[p] = toHost[p]
        /\ toHost'[Len(toHost')] = r
    BY <2>2, AppendParts
  <2>4. \A p \in 1 .. Len(toHost') :
           p \in 1 .. Len(toHost) \/ p = Len(toHost')
    BY <2>2, <2>3, LenNat
  <2> QED
    BY <1>1, <2>1, <2>3, <2>4 DEF FreshInv, NoKeyless, Positions
<1> QED
  BY <1>2, <1>3, <1>4 DEF FreshInv

\* Reconnecting forgets what was announced and puts every entry back to init.
LEMMA ReconnectFresh ==
    ASSUME FreshInv, TypeOK', Reconnect \/ EnterSetup \/ LeaveSetup
    PROVE  FreshInv'
<1>1. UNCHANGED <<currentRespSeq, remoteUpTime, hostVars, toHost, toPanel,
                  held, knownBoot>>
  BY DEF Reconnect, EnterSetup, LeaveSetup, ghostVars
<1>2. /\ NoStale' /\ NoKeyless' /\ BootKnown' /\ FromHost' /\ Sorted'
      /\ RestartShows'
  BY <1>1 DEF FreshInv, NoStale, NoKeyless, BootKnown, FromHost, Sorted,
              RestartShows, Positions, hostVars
<1>3. CASE UNCHANGED <<lastSeq, seqState>>
  <2>1. NotOlder' /\ Announced' /\ OkIsFresh'
    BY <1>1, <1>3 DEF FreshInv, NotOlder, Announced, OkIsFresh, UpToDate,
                      Positions, hostVars
  <2> QED
    BY <1>2, <2>1 DEF FreshInv
<1>4. CASE ReconnectEffect
  <2>1. \A i \in Seqs : lastSeq'[i] = 0 /\ seqState'[i] = "init"
    BY <1>4 DEF ReconnectEffect, Disconnected, ResetSeqs
  <2>2. \A i \in Seqs : hostSeq[i] \in Nat
    BY DEF FreshInv, TypeOK
  <2>3. TypeOK
    BY DEF FreshInv
  <2>4. NotOlder'
    BY <1>1, <2>1, <2>3, InFlight DEF NotOlder, Positions
  <2>5. Announced' /\ OkIsFresh'
    BY <1>1, <2>1, <2>2 DEF Announced, OkIsFresh, hostVars
  <2> QED
    BY <1>2, <2>4, <2>5 DEF FreshInv
<1> QED
  BY <1>3, <1>4 DEF Reconnect, EnterSetup, LeaveSetup

\* Taking the first message off the channel keeps what is true of those
\* behind it.
LEMMA TailFresh ==
    ASSUME FreshInv, toPanel # <<>>, toPanel' = Tail(toPanel),
           UNCHANGED <<hostSeq, toHost>>
    PROVE  FromHost' /\ Sorted' /\ NoKeyless'
<1>1. toPanel \in Seq(Message)
  BY DEF FreshInv, TypeOK
<1>2. /\ Len(toPanel) \in Nat \ {0}
      /\ Len(toPanel') = Len(toPanel) - 1
      /\ \A p \in 1 .. Len(toPanel') : toPanel'[p] = toPanel[p + 1]
  BY <1>1, TailParts
<1>3. \A p \in Positions' : p + 1 \in Positions /\ toPanel'[p] = toPanel[p + 1]
  BY <1>2 DEF Positions
<1>4. FromHost'
  BY <1>3 DEF FreshInv, FromHost
<1>5. Sorted'
  <2>1. \A p, q \in Positions' : p < q => p + 1 < q + 1
    BY <1>2 DEF Positions
  <2> QED
    BY <1>3, <2>1 DEF FreshInv, Sorted
<1>6. NoKeyless'
  BY <1>3 DEF FreshInv, NoKeyless
<1> QED
  BY <1>4, <1>5, <1>6

\* Receiving a whole message.  A key reply is not older than what was
\* announced, so its entry may become ok; a live reply either reports the
\* boot the panel knows, and marks what changed, or shows a restart, after
\* which no entry is ok.
LEMMA ReceiveFresh ==
    ASSUME FreshInv, TypeOK', Receive, ~ (CutLines /\ Keyless)
    PROVE  FreshInv'
<1> DEFINE m == Head(toPanel)
<1>1. /\ toPanel # <<>>
      /\ toPanel' = Tail(toPanel)
      /\ UNCHANGED <<currentReqSeq, setup, hostVars, toHost, trouble>>
      /\ ReceiveKey(m) \/ ReceiveLive(m) \/ ReceiveKeyless(m)
  BY DEF Receive
<1>2. TypeOK /\ toPanel \in Seq(Message)
  BY DEF FreshInv, TypeOK
<1>3. FromHost' /\ Sorted' /\ NoKeyless'
  BY <1>1, TailFresh DEF hostVars
<1>4. /\ Len(toPanel) \in Nat \ {0}
      /\ Len(toPanel') = Len(toPanel) - 1
      /\ m = toPanel[1]
      /\ \A p \in 1 .. Len(toPanel') : toPanel'[p] = toPanel[p + 1]
  BY <1>1, <1>2, TailParts
<1>5. /\ 1 \in Positions
      /\ \A p \in Positions' :
            p + 1 \in Positions /\ 1 < p + 1 /\ toPanel'[p] = toPanel[p + 1]
  BY <1>4 DEF Positions
<1>6. /\ m.kind = "key" => m.key \in Seqs /\ m.seq \in Nat /\ m.up \in Nat
      /\ m.kind = "live" => m.seqs \in [Seqs -> Nat] /\ m.up \in Nat
  BY <1>2, <1>4, <1>5, InFlight
<1>7. /\ boot \in Nat /\ knownBoot \in Nat /\ knownBoot <= boot
      /\ remoteUpTime \in Nat
      /\ seqState \in [Seqs -> SeqState]
      /\ held \in [Seqs -> Version]
      /\ lastSeq \in [Seqs -> Nat]
      /\ hostSeq \in [Seqs -> Nat]
  BY DEF FreshInv, TypeOK, BootKnown
<1>8. \A i \in Seqs : held[i].boot \in Nat /\ held[i].seq \in Nat
                       /\ held[i].boot <= boot
  BY <1>7 DEF FreshInv, BootKnown, Version
<1>9. boot' = boot /\ hostSeq' = hostSeq /\ upTime' = upTime
  BY <1>1 DEF hostVars
<1> HIDE DEF m
<1>10. m.kind \in {"key", "live"} /\ ~Restarted(m) => knownBoot = boot
  <2> SUFFICES ASSUME m.kind \in {"key", "live"}, knownBoot < boot
               PROVE  m.up < remoteUpTime
    BY <1>7 DEF Restarted
  <2> QED
    BY <1>4, <1>5 DEF FreshInv, RestartShows
<1>11. CASE ReceiveKey(m)
  <2>1. m.kind = "key" /\ m.key \in Seqs /\ m.seq \in Nat /\ m.up \in Nat
    BY <1>6, <1>11 DEF ReceiveKey
  <2>2. held' = [held EXCEPT ![m.key] =
                    [whole |-> TRUE, boot |-> boot, seq |-> m.seq]]
    BY <1>11 DEF ReceiveKey
  <2>3. /\ held'[m.key] = [whole |-> TRUE, boot |-> boot, seq |-> m.seq]
        /\ \A i \in Seqs : i # m.key => held'[i] = held[i]
    BY <1>7, <2>1, <2>2
  <2>4. knownBoot = boot => lastSeq[m.key] <= m.seq
    BY <1>4, <1>5, <2>1 DEF FreshInv, NotOlder
  <2>5. \A i \in Seqs : held'[i].boot <= boot
    BY <1>7, <1>8, <2>3
  <2>6. m.key # Null
    BY <2>1 DEF Seqs
  <2>7. ASSUME seqState' = [seqState EXCEPT ![m.key] = "ok"],
               UNCHANGED <<lastSeq, knownBoot>>
        PROVE  OkIsFresh' /\ NotOlder' /\ Announced'
    <3>1. ASSUME NEW i \in Seqs, seqState'[i] = "ok"
          PROVE  UpToDate(i)'
      <4>1. CASE i = m.key
        <5>1. boot > knownBoot \/ (boot = knownBoot /\ m.seq >= lastSeq[i])
          BY <1>7, <2>1, <2>4, <4>1
        <5> QED
          BY <2>3, <2>7, <4>1, <5>1 DEF UpToDate
      <4>2. CASE i # m.key
        <5>1. seqState[i] = "ok" /\ held'[i] = held[i]
          BY <1>7, <2>3, <2>7, <3>1, <4>2
        <5> QED
          BY <2>7, <5>1 DEF FreshInv, OkIsFresh, UpToDate
      <4> QED
        BY <4>1, <4>2
    <3>2. OkIsFresh'
      BY <3>1 DEF OkIsFresh
    <3>3. NotOlder' /\ Announced'
      BY <1>5, <1>9, <2>7 DEF FreshInv, NotOlder, Announced
    <3> QED
      BY <3>2, <3>3
  <2>8. CASE m.key # StateSeq
    <3>1. /\ seqState' = [seqState EXCEPT ![m.key] = "ok"]
          /\ currentRespSeq' = Null
          /\ UNCHANGED <<lastSeq, remoteUpTime, knownBoot>>
      BY <1>11, <2>6, <2>8 DEF ReceiveKey, EndReceivedMessage
    <3>2. NoStale' /\ BootKnown' /\ RestartShows'
      BY <1>5, <1>7, <1>9, <2>5, <3>1
      DEF FreshInv, NoStale, BootKnown, RestartShows
    <3> QED
      BY <1>3, <2>7, <3>1, <3>2 DEF FreshInv
  <2>9. CASE m.key = StateSeq
    <3>1. /\ StateFields(m, lastSeq)
          /\ EndReceivedMessage(SeqsAfter(m, seqState), m.key, FALSE)
      BY <1>11, <2>9 DEF ReceiveKey
    <3>2. /\ seqState' = [SeqsAfter(m, seqState) EXCEPT ![m.key] = "ok"]
          /\ currentRespSeq' = Null
          /\ knownBoot' = boot
      BY <2>6, <3>1 DEF StateFields, EndReceivedMessage
    <3>3. NoStale' /\ BootKnown' /\ RestartShows'
      BY <1>7, <1>9, <2>5, <3>2 DEF NoStale, BootKnown, RestartShows
    <3>4. CASE Restarted(m)
      <4>1. \A i \in Seqs : lastSeq'[i] = 0
        BY <3>1, <3>4 DEF StateFields, Disconnected
      <4>2. \A i \in Seqs : seqState'[i] = "ok" => i = m.key
        BY <3>2, <3>4 DEF SeqsAfter, ResetSeqs
      <4>3. ASSUME NEW i \in Seqs, i = m.key
            PROVE  UpToDate(i)'
        BY <2>1, <2>3, <3>2, <4>1, <4>3 DEF UpToDate
      <4>4. \A p \in Positions' : toPanel'[p].kind = "key" =>
               toPanel'[p].key \in Seqs /\ toPanel'[p].seq \in Nat
        BY <1>2, <1>5, InFlight
      <4>5. OkIsFresh'
        BY <4>2, <4>3 DEF OkIsFresh
      <4>6. NotOlder' /\ Announced'
        BY <1>7, <1>9, <4>1, <4>4 DEF NotOlder, Announced
      <4> QED
        BY <1>3, <3>3, <4>5, <4>6 DEF FreshInv
    <3>5. CASE ~Restarted(m)
      <4>1. /\ seqState' = [seqState EXCEPT ![m.key] = "ok"]
            /\ UNCHANGED <<lastSeq, knownBoot>>
        BY <1>10, <2>1, <3>1, <3>2, <3>5 DEF StateFields, SeqsAfter
      <4> QED
        BY <1>3, <2>7, <3>3, <4>1 DEF FreshInv
    <3> QED
      BY <3>4, <3>5
  <2> QED
    BY <2>8, <2>9
<1>12. CASE ReceiveLive(m)
  <2>1. /\ m.kind = "live" /\ m.seqs \in [Seqs -> Nat] /\ m.up \in Nat
        /\ StateFields(m, UpdatedLastSeq(m.seqs))
        /\ seqState' = SeqsAfter(m, UpdatedState(m.seqs))
        /\ knownBoot' = boot /\ held' = held /\ currentRespSeq' = Null
    BY <1>6, <1>12 DEF ReceiveLive, StateFields, EndReceivedMessage
  <2>2. NoStale' /\ BootKnown' /\ RestartShows'
    BY <1>7, <1>8, <1>9, <2>1 DEF NoStale, BootKnown, RestartShows
  <2>3. \A i \in Seqs : m.seqs[i] <= hostSeq[i]
    BY <1>4, <1>5, <2>1 DEF FreshInv, FromHost
  <2>4. CASE Restarted(m)
    <3>1. \A i \in Seqs : lastSeq'[i] = 0 /\ seqState'[i] = "init"
      BY <2>1, <2>4 DEF StateFields, Disconnected, SeqsAfter, ResetSeqs
    <3>2. \A p \in Positions' : toPanel'[p].kind = "key" =>
             toPanel'[p].key \in Seqs /\ toPanel'[p].seq \in Nat
      BY <1>2, <1>5, InFlight
    <3>3. NotOlder' /\ Announced' /\ OkIsFresh'
      BY <1>7, <1>9, <3>1, <3>2 DEF NotOlder, Announced, OkIsFresh
    <3> QED
      BY <1>3, <2>2, <3>3 DEF FreshInv
  <2>5. CASE ~Restarted(m)
    <3>1. /\ seqState' = UpdatedState(m.seqs)
          /\ lastSeq' = UpdatedLastSeq(m.seqs)
      BY <2>1, <2>5 DEF StateFields, SeqsAfter
    <3>2. \A i \in Seqs :
             /\ lastSeq'[i] = m.seqs[i]
             /\ seqState'[i] = "ok" =>
                   seqState[i] = "ok" /\ lastSeq[i] = m.seqs[i]
      BY <1>7, <2>1, <3>1 DEF UpdatedState, UpdatedLastSeq
    <3>3. knownBoot = boot
      BY <1>10, <2>1, <2>5
    <3>4. OkIsFresh'
      BY <1>7, <1>8, <2>1, <3>2, <3>3 DEF FreshInv, OkIsFresh, UpToDate
    <3>5. Announced'
      BY <1>9, <2>3, <3>2 DEF Announced
    <3>6. NotOlder'
      <4> SUFFICES ASSUME NEW p \in Positions', toPanel'[p].kind = "key"
                   PROVE  lastSeq'[toPanel'[p].key] <= toPanel'[p].seq
        BY DEF NotOlder
      <4>1. p + 1 \in Positions /\ 1 < p + 1 /\ toPanel'[p] = toPanel[p + 1]
        BY <1>5
      <4>2. toPanel[p + 1].key \in Seqs
        BY <1>2, <4>1, InFlight
      <4>3. m.seqs[toPanel[p + 1].key] <= toPanel[p + 1].seq
        BY <1>4, <1>5, <2>1, <4>1 DEF FreshInv, Sorted
      <4> QED
        BY <3>2, <4>1, <4>2, <4>3
    <3> QED
      BY <1>3, <2>2, <3>4, <3>5, <3>6 DEF FreshInv
  <2> QED
    BY <2>4, <2>5
<1>13. CASE ReceiveKeyless(m)
  <2>1. Keyless
    BY <1>4, <1>5, <1>13 DEF ReceiveKeyless, FreshInv, NoKeyless
  <2>2. currentRespSeq = Null
    BY <2>1 DEF FreshInv, NoStale
  <2>3. UNCHANGED <<seqState, currentRespSeq, lastSeq, remoteUpTime, held,
                    knownBoot>>
    BY <1>13, <2>2 DEF ReceiveKeyless, EndReceivedMessage
  <2>4. NoStale' /\ NotOlder' /\ Announced' /\ RestartShows' /\ BootKnown'
    BY <1>5, <1>9, <2>3
    DEF FreshInv, NoStale, NotOlder, Announced, RestartShows, BootKnown
  <2>5. OkIsFresh'
    BY <2>3 DEF FreshInv, OkIsFresh, UpToDate
  <2> QED
    BY <1>3, <2>4, <2>5 DEF FreshInv
<1> QED
  BY <1>1, <1>11, <1>12, <1>13

\* Receiving a cut line: no entry becomes ok, what a live reply announced
\* before it was cut is not newer than the key replies behind it, and a
\* restart is noticed if the uptime was not cut off.
LEMMA CutFresh ==
    ASSUME FreshInv, TypeOK', ReceiveCut
    PROVE  FreshInv'
<1> DEFINE m == Head(toPanel)
<1>1. /\ CutLines
      /\ toPanel # <<>>
      /\ toPanel' = Tail(toPanel)
      /\ UNCHANGED <<hostVars, toHost, held>>
      /\ CutEarly \/ CutKey(m) \/ CutLive(m)
  BY DEF ReceiveCut
<1>2. TypeOK /\ toPanel \in Seq(Message)
  BY DEF FreshInv, TypeOK
<1>3. FromHost' /\ Sorted' /\ NoKeyless'
  BY <1>1, TailFresh DEF hostVars
<1>4. /\ Len(toPanel) \in Nat \ {0}
      /\ Len(toPanel') = Len(toPanel) - 1
      /\ m = toPanel[1]
      /\ \A p \in 1 .. Len(toPanel') : toPanel'[p] = toPanel[p + 1]
  BY <1>1, <1>2, TailParts
<1>5. /\ 1 \in Positions
      /\ \A p \in Positions' :
            p + 1 \in Positions /\ 1 < p + 1 /\ toPanel'[p] = toPanel[p + 1]
  BY <1>4 DEF Positions
<1>6. /\ seqState \in [Seqs -> SeqState]
      /\ lastSeq \in [Seqs -> Nat]
      /\ hostSeq \in [Seqs -> Nat]
      /\ currentRespSeq \in Seqs \cup {Null}
      /\ boot \in Nat /\ knownBoot \in Nat /\ knownBoot <= boot
      /\ \A i \in Seqs : held[i].boot <= boot
  BY <1>2 DEF TypeOK, FreshInv, BootKnown
<1>7. boot' = boot /\ hostSeq' = hostSeq /\ upTime' = upTime /\ held' = held
  BY <1>1 DEF hostVars
<1>8. /\ m.kind = "key" => m.key \in Seqs /\ m.up \in Nat
      /\ m.kind = "live" => m.seqs \in [Seqs -> Nat] /\ m.up \in Nat
  BY <1>2, <1>4, <1>5, InFlight
<1>9. NoStale'
  BY <1>1 DEF NoStale
<1>10. \A p \in Positions' : toPanel'[p].kind = "key" =>
          toPanel'[p].key \in Seqs /\ toPanel'[p].seq \in Nat
  BY <1>2, <1>5, InFlight
<1> HIDE DEF m
<1>11. m.kind = "live" => \A i \in Seqs : m.seqs[i] <= hostSeq[i]
  BY <1>4, <1>5 DEF FreshInv, FromHost
<1> DEFINE NotAhead ==
              /\ \A i \in Seqs : lastSeq'[i] # lastSeq[i] =>
                    m.kind = "live" /\ lastSeq'[i] = m.seqs[i]
              /\ \A i \in Seqs : seqState'[i] = "ok" =>
                    seqState[i] = "ok" /\ lastSeq'[i] = lastSeq[i]
<1>12. ASSUME NotAhead, knownBoot' = knownBoot
       PROVE  BootKnown' /\ NotOlder' /\ Announced' /\ OkIsFresh'
  <2>1. BootKnown' /\ OkIsFresh'
    BY <1>6, <1>7, <1>12 DEF FreshInv, BootKnown, OkIsFresh, UpToDate
  <2>2. Announced'
    BY <1>7, <1>11, <1>12 DEF FreshInv, Announced
  <2>3. NotOlder'
    <3> SUFFICES ASSUME NEW p \in Positions', toPanel'[p].kind = "key",
                        knownBoot = boot
                 PROVE  lastSeq'[toPanel'[p].key] <= toPanel'[p].seq
      BY <1>7, <1>12 DEF NotOlder
    <3>1. p + 1 \in Positions /\ 1 < p + 1 /\ toPanel'[p] = toPanel[p + 1]
      BY <1>5
    <3>2. toPanel[p + 1].key \in Seqs
      BY <1>2, <3>1, InFlight
    <3>3. m.kind = "live" =>
             m.seqs[toPanel[p + 1].key] <= toPanel[p + 1].seq
      BY <1>4, <1>5, <3>1 DEF FreshInv, Sorted
    <3>4. lastSeq[toPanel[p + 1].key] <= toPanel[p + 1].seq
      BY <3>1 DEF FreshInv, NotOlder
    <3> QED
      BY <1>12, <3>1, <3>2, <3>3, <3>4
  <2> QED
    BY <2>1, <2>2, <2>3
<1>13. ASSUME NEW b \in BOOLEAN, NoUpTime(b), NotAhead
       PROVE  FreshInv'
  <2>1. knownBoot' = knownBoot /\ remoteUpTime' = remoteUpTime
    BY <1>13 DEF NoUpTime
  <2>2. RestartShows'
    BY <1>5, <1>7, <2>1 DEF FreshInv, RestartShows
  <2> QED
    BY <1>3, <1>9, <1>12, <1>13, <2>1, <2>2 DEF FreshInv
<1>14. ASSUME NEW last, NEW st, StateFields(m, last),
              m.kind \in {"key", "live"},
              \A i \in Seqs : seqState'[i] = "ok" => SeqsAfter(m, st)[i] = "ok",
              ~Restarted(m) => NotAhead
       PROVE  FreshInv'
  <2>1. knownBoot' = boot
    BY <1>14 DEF StateFields
  <2>2. RestartShows'
    BY <1>6, <1>7, <2>1 DEF RestartShows
  <2>3. CASE Restarted(m)
    <3>1. \A i \in Seqs : lastSeq'[i] = 0 /\ seqState'[i] # "ok"
      BY <1>14, <2>3 DEF StateFields, Disconnected, SeqsAfter, ResetSeqs
    <3>2. NotOlder' /\ Announced' /\ OkIsFresh'
      BY <1>6, <1>7, <1>10, <3>1 DEF NotOlder, Announced, OkIsFresh
    <3>3. BootKnown'
      BY <1>6, <1>7, <2>1 DEF BootKnown
    <3> QED
      BY <1>3, <1>9, <2>2, <3>2, <3>3 DEF FreshInv
  <2>4. CASE ~Restarted(m)
    <3>1. ASSUME knownBoot < boot
          PROVE  m.up < remoteUpTime
      BY <1>4, <1>5, <1>14, <3>1 DEF FreshInv, RestartShows
    <3>2. knownBoot = boot
      BY <1>6, <2>4, <3>1 DEF Restarted
    <3> QED
      BY <1>3, <1>9, <1>12, <1>14, <2>1, <2>2, <2>4, <3>2 DEF FreshInv
  <2> QED
    BY <2>3, <2>4
<1>15. ASSUME NEW st, NEW resp, NEW err \in BOOLEAN, EndCutLine(st, resp, err),
              st \in [Seqs -> SeqState]
       PROVE  \A i \in Seqs : seqState'[i] = "ok" => st[i] = "ok"
  BY <1>15 DEF EndCutLine
<1>16. CASE CutEarly
  <2>1. NotAhead
    BY <1>6, <1>15, <1>16 DEF CutEarly
  <2> HIDE DEF NotAhead
  <2> QED
    BY <1>13, <1>16, <2>1 DEF CutEarly
<1>17. CASE CutKey(m)
  <2>1. PICK inError \in BOOLEAN :
           \/ /\ EndCutLine(seqState, m.key, inError)
              /\ NoUpTime(m.key = StateSeq)
              /\ UNCHANGED lastSeq
           \/ /\ EndCutLine(SeqsAfter(m, seqState), m.key, inError)
              /\ WithUpTime(m, lastSeq)
    BY <1>17 DEF CutKey
  <2>2. CASE /\ EndCutLine(seqState, m.key, inError)
             /\ NoUpTime(m.key = StateSeq)
             /\ UNCHANGED lastSeq
    <3>1. NotAhead
      BY <1>6, <1>15, <2>2
    <3> HIDE DEF NotAhead
    <3> QED
      BY <1>13, <2>2, <3>1
  <2>3. CASE /\ EndCutLine(SeqsAfter(m, seqState), m.key, inError)
             /\ WithUpTime(m, lastSeq)
    <3>1. SeqsAfter(m, seqState) \in [Seqs -> SeqState]
      BY <1>6, SeqsAfterType
    <3>2. \A i \in Seqs : seqState'[i] = "ok" => SeqsAfter(m, seqState)[i] = "ok"
      BY <1>15, <2>3, <3>1
    <3>3. StateFields(m, lastSeq)
      BY <2>3 DEF WithUpTime
    <3>4. ~Restarted(m) => NotAhead
      BY <3>2, <3>3 DEF StateFields, SeqsAfter
    <3>5. m.kind \in {"key", "live"}
      BY <1>17 DEF CutKey
    <3> HIDE DEF NotAhead
    <3> QED
      BY <1>14, <3>2, <3>3, <3>4, <3>5
  <2> QED
    BY <2>1, <2>2, <2>3
<1>18. CASE CutLive(m)
  <2>1. m.kind = "live" /\ m.seqs \in [Seqs -> Nat]
    BY <1>8, <1>18 DEF CutLive
  <2>2. ASSUME NEW f
        PROVE  UpdatedState(f) \in [Seqs -> SeqState]
    BY <1>6 DEF UpdatedState, SeqState
  <2>3. CASE \E seen \in SUBSET Seqs :
                LET part == [i \in seen |-> m.seqs[i]] IN
                /\ EndCutLine(UpdatedState(part), Null, FALSE)
                /\ lastSeq' = UpdatedLastSeq(part)
                /\ NoUpTime(seen = Seqs)
    <3>1. PICK seen \in SUBSET Seqs :
             /\ EndCutLine(UpdatedState([i \in seen |-> m.seqs[i]]), Null,
                           FALSE)
             /\ lastSeq' = UpdatedLastSeq([i \in seen |-> m.seqs[i]])
             /\ NoUpTime(seen = Seqs)
      BY <2>3
    <3>2. seqState' = UpdatedState([i \in seen |-> m.seqs[i]])
      BY <3>1 DEF EndCutLine
    <3>3. NotAhead
      BY <1>6, <2>1, <3>1, <3>2 DEF UpdatedState, UpdatedLastSeq
    <3> HIDE DEF NotAhead
    <3> QED
      BY <1>13, <3>1, <3>3
  <2>4. CASE /\ EndCutLine(SeqsAfter(m, UpdatedState(m.seqs)), Null, FALSE)
             /\ WithUpTime(m, UpdatedLastSeq(m.seqs))
    <3>1. seqState' = SeqsAfter(m, UpdatedState(m.seqs))
      BY <2>4 DEF EndCutLine
    <3>2. StateFields(m, UpdatedLastSeq(m.seqs))
      BY <2>4 DEF WithUpTime
    <3>3. ~Restarted(m) => /\ lastSeq' = UpdatedLastSeq(m.seqs)
                           /\ seqState' = UpdatedState(m.seqs)
      BY <3>1, <3>2 DEF StateFields, SeqsAfter
    <3>4. ~Restarted(m) => NotAhead
      BY <1>6, <2>1, <3>3 DEF UpdatedState, UpdatedLastSeq
    <3>5. \A i \in Seqs : seqState'[i] = "ok" =>
             SeqsAfter(m, UpdatedState(m.seqs))[i] = "ok"
      BY <3>1
    <3> HIDE DEF NotAhead
    <3> QED
      BY <1>14, <2>1, <3>2, <3>4, <3>5
  <2> QED
    BY <1>18, <2>3, <2>4 DEF CutLive
<1> QED
  BY <1>1, <1>16, <1>17, <1>18

\* The host sends e, which is true of its current state.
LEMMA SentFresh ==
    ASSUME FreshInv, NEW e \in Message, toPanel' = Append(toPanel, e),
           UNCHANGED <<hostVars, panelVars, ghostVars>>,
           e.kind = "key" => e.seq = hostSeq[e.key] /\ e.up = upTime,
           e.kind = "live" => e.seqs = hostSeq /\ e.up = upTime
    PROVE  FromHost' /\ NotOlder' /\ Sorted' /\ RestartShows'
<1>1. TypeOK /\ toPanel \in Seq(Message)
  BY DEF FreshInv, TypeOK
<1>2. /\ Len(toPanel') = Len(toPanel) + 1
      /\ \A p \in 1 .. Len(toPanel) : toPanel'[p] = toPanel[p]
      /\ toPanel'[Len(toPanel')] = e
  BY <1>1, AppendParts
<1>3. Len(toPanel) \in Nat
  BY <1>1, LenNat
<1>4. /\ \A p \in Positions' :
            \/ p \in Positions /\ toPanel'[p] = toPanel[p]
            \/ p = Len(toPanel') /\ toPanel'[p] = e
      /\ \A p, q \in Positions' : p < q => p \in Positions
  <2>1. Positions = 1 .. Len(toPanel) /\ Positions' = 1 .. Len(toPanel) + 1
    BY <1>2 DEF Positions
  <2>2. \A p \in Positions' : p \in Positions \/ p = Len(toPanel) + 1
    BY <1>3, <2>1
  <2>3. \A p, q \in Positions' : p < q => p \in Positions
    BY <1>3, <2>1
  <2> QED
    BY <1>2, <2>1, <2>2, <2>3
<1>5. e.kind = "key" => e.key \in Seqs
  BY MessageFields
<1>6. \A i \in Seqs : hostSeq[i] \in Nat
  BY <1>1 DEF TypeOK
<1>7. UNCHANGED <<hostSeq, boot, upTime, lastSeq, remoteUpTime, knownBoot>>
  BY DEF hostVars, panelVars, ghostVars
<1>8. FromHost'
  <2> SUFFICES ASSUME NEW p \in Positions'
               PROVE  /\ toPanel'[p].kind = "key" =>
                            toPanel'[p].seq <= hostSeq[toPanel'[p].key]
                      /\ toPanel'[p].kind = "live" =>
                            \A i \in Seqs : toPanel'[p].seqs[i] <= hostSeq[i]
    BY <1>7 DEF FromHost
  <2>1. CASE p \in Positions /\ toPanel'[p] = toPanel[p]
    BY <2>1 DEF FreshInv, FromHost
  <2>2. CASE toPanel'[p] = e
    <3>1. e.kind = "key" => e.seq <= hostSeq[e.key]
      BY <1>5, <1>6
    <3>2. e.kind = "live" => \A i \in Seqs : e.seqs[i] <= hostSeq[i]
      BY <1>6
    <3> QED
      BY <2>2, <3>1, <3>2
  <2> QED
    BY <1>4, <2>1, <2>2
<1>9. NotOlder'
  BY <1>4, <1>5, <1>7 DEF FreshInv, NotOlder, Announced
<1>10. Sorted'
  <2> SUFFICES ASSUME NEW p \in Positions', NEW q \in Positions', p < q,
                      toPanel'[p].kind = "live", toPanel'[q].kind = "key"
               PROVE  toPanel'[p].seqs[toPanel'[q].key] <= toPanel'[q].seq
    BY DEF Sorted
  <2>1. p \in Positions /\ toPanel'[p] = toPanel[p]
    BY <1>2, <1>4 DEF Positions
  <2>2. CASE q \in Positions /\ toPanel'[q] = toPanel[q]
    BY <2>1, <2>2 DEF FreshInv, Sorted
  <2>3. CASE toPanel'[q] = e
    BY <1>5, <2>1, <2>3 DEF FreshInv, FromHost
  <2> QED
    BY <1>4, <2>2, <2>3
<1>11. RestartShows'
  BY <1>4, <1>7 DEF FreshInv, RestartShows
<1> QED
  BY <1>8, <1>9, <1>10, <1>11

\* The steps of the line and of the host.
LEMMA HostFresh ==
    ASSUME FreshInv, TypeOK',
           \/ LoseRequest \/ LoseReply \/ HostAnswer \/ HostRefuse \/ HostPush
           \/ HostChange \/ HostTick \/ HostRestart
    PROVE  FreshInv'
<1>1. /\ TypeOK
      /\ toHost \in Seq(Request) /\ toPanel \in Seq(Message)
      /\ hostSeq \in [Seqs -> Nat] /\ lastSeq \in [Seqs -> Nat]
      /\ boot \in Nat /\ upTime \in Nat /\ remoteUpTime \in Nat
      /\ knownBoot \in Nat /\ held \in [Seqs -> Version]
  BY DEF FreshInv, TypeOK
<1>2. UNCHANGED <<seqState, lastSeq, currentRespSeq, remoteUpTime, held,
                  knownBoot>>
  BY DEF LoseRequest, LoseReply, HostAnswer, HostRefuse, HostPush, HostChange,
         HostTick, HostRestart, panelVars, ghostVars
<1>3. NoStale' /\ OkIsFresh'
  BY <1>2 DEF FreshInv, NoStale, OkIsFresh, UpToDate
<1>4. CASE LoseRequest
  <2>1. \A p \in 1 .. Len(toHost') :
           p + 1 \in 1 .. Len(toHost) /\ toHost'[p] = toHost[p + 1]
    BY <1>1, <1>4, TailParts DEF LoseRequest
  <2>2. UNCHANGED <<hostSeq, boot, upTime, toPanel>>
    BY <1>4 DEF LoseRequest, hostVars
  <2>3. NoKeyless'
    BY <2>1, <2>2 DEF FreshInv, NoKeyless, Positions
  <2>4. BootKnown' /\ FromHost' /\ NotOlder' /\ Sorted' /\ Announced'
        /\ RestartShows'
    BY <1>2, <2>2 DEF FreshInv, BootKnown, FromHost, NotOlder, Sorted,
                      Announced, RestartShows, Positions
  <2> QED
    BY <1>3, <2>3, <2>4 DEF FreshInv
<1>5. CASE LoseReply
  <2>1. UNCHANGED <<hostSeq, boot, upTime, toHost>>
    BY <1>5 DEF LoseReply, hostVars
  <2>2. FromHost' /\ Sorted' /\ NoKeyless'
    BY <1>5, <2>1, TailFresh DEF LoseReply
  <2>3. \A p \in Positions' :
           p + 1 \in Positions /\ toPanel'[p] = toPanel[p + 1]
    BY <1>1, <1>5, TailParts DEF LoseReply, Positions
  <2>4. BootKnown' /\ NotOlder' /\ Announced' /\ RestartShows'
    BY <1>2, <2>1, <2>3 DEF FreshInv, BootKnown, NotOlder, Announced,
                            RestartShows
  <2> QED
    BY <1>3, <2>2, <2>4 DEF FreshInv
<1>6. CASE HostAnswer \/ HostRefuse \/ HostPush
  <2>1. UNCHANGED <<hostVars, panelVars, ghostVars>>
    BY <1>6 DEF HostAnswer, HostRefuse, HostPush
  <2>2. UNCHANGED <<hostSeq, boot, upTime>>
    BY <2>1 DEF hostVars
  <2>3. \/ toHost' = toHost
        \/ toHost # <<>> /\ toHost' = Tail(toHost)
    BY <1>6 DEF HostAnswer, HostRefuse, HostPush
  <2>4. \A p \in 1 .. Len(toHost') :
           \E q \in 1 .. Len(toHost) : toHost'[p] = toHost[q]
    <3>1. CASE toHost' = toHost
      BY <3>1
    <3>2. CASE toHost # <<>> /\ toHost' = Tail(toHost)
      <4>1. /\ Len(toHost) \in Nat \ {0}
            /\ Len(toHost') = Len(toHost) - 1
            /\ \A p \in 1 .. Len(toHost') : toHost'[p] = toHost[p + 1]
        BY <1>1, <3>2, TailParts
      <4>2. \A p \in 1 .. Len(toHost') : p + 1 \in 1 .. Len(toHost)
        BY <4>1
      <4> QED
        BY <4>1, <4>2
    <3> QED
      BY <2>3, <3>1, <3>2
  <2>5. PICK e \in Message :
           /\ toPanel' = Append(toPanel, e)
           /\ e.kind = "key" => e.seq = hostSeq[e.key] /\ e.up = upTime
           /\ e.kind = "live" => e.seqs = hostSeq /\ e.up = upTime
           /\ ~Keyless => e.kind \notin {"plain", "oob"}
    <3>1. CASE HostAnswer
      <4> DEFINE r == Head(toHost)
      <4>1. /\ r \in Request
            /\ r = toHost[1] /\ 1 \in 1 .. Len(toHost)
            /\ toPanel' = Append(toPanel, Reply(r))
        BY <1>1, <3>1, TailType, TailParts DEF HostAnswer
      <4>2. ~Keyless => r.kind # "files"
        BY <4>1 DEF FreshInv, NoKeyless
      <4>3. r.kind \in {"key", "live", "files"}
        BY <4>1 DEF Request
      <4> HIDE DEF r
      <4>4. /\ Reply(r).kind = "key" => /\ Reply(r).seq = hostSeq[Reply(r).key]
                                        /\ Reply(r).up = upTime
            /\ Reply(r).kind = "live" => /\ Reply(r).seqs = hostSeq
                                         /\ Reply(r).up = upTime
            /\ ~Keyless => Reply(r).kind \notin {"plain", "oob"}
        BY <4>2, <4>3 DEF Reply
      <4> QED
        BY <1>1, <4>1, <4>4, ReplyType
    <3>2. CASE HostRefuse
      BY <3>2 DEF HostRefuse, Message
    <3>3. CASE HostPush
      BY <3>3 DEF HostPush, Message
    <3> QED
      BY <1>6, <3>1, <3>2, <3>3
  <2>6. FromHost' /\ NotOlder' /\ Sorted' /\ RestartShows'
    BY <2>1, <2>5, SentFresh
  <2>7. NoKeyless'
    <3>1. \A p \in Positions' :
             \/ p \in Positions /\ toPanel'[p] = toPanel[p]
             \/ toPanel'[p] = e
      BY <1>1, <2>5, AppendParts, LenNat DEF Positions
    <3> QED
      BY <2>4, <2>5, <3>1 DEF FreshInv, NoKeyless
  <2>8. BootKnown' /\ Announced'
    BY <1>2, <2>2 DEF FreshInv, BootKnown, Announced
  <2> QED
    BY <1>3, <2>6, <2>7, <2>8 DEF FreshInv
<1>7. CASE HostChange
  <2>1. UNCHANGED <<boot, upTime, toHost, toPanel>>
    BY <1>7 DEF HostChange
  <2>2. \A i \in Seqs : hostSeq[i] <= hostSeq'[i] /\ hostSeq'[i] \in Nat
    BY <1>1, <1>7 DEF HostChange
  <2>3. FromHost'
    <3> SUFFICES ASSUME NEW p \in Positions
                 PROVE  /\ toPanel[p].kind = "key" =>
                              toPanel[p].seq <= hostSeq'[toPanel[p].key]
                        /\ toPanel[p].kind = "live" =>
                              \A i \in Seqs : toPanel[p].seqs[i] <= hostSeq'[i]
      BY <2>1 DEF FromHost, Positions
    <3>1. /\ toPanel[p].kind = "key" =>
                toPanel[p].key \in Seqs /\ toPanel[p].seq \in Nat
          /\ toPanel[p].kind = "live" => toPanel[p].seqs \in [Seqs -> Nat]
      BY <1>1, InFlight
    <3>2. /\ toPanel[p].kind = "key" =>
                toPanel[p].seq <= hostSeq[toPanel[p].key]
          /\ toPanel[p].kind = "live" =>
                \A i \in Seqs : toPanel[p].seqs[i] <= hostSeq[i]
      BY DEF FreshInv, FromHost
    <3>3. ASSUME NEW n \in Nat, NEW i \in Seqs, n <= hostSeq[i]
          PROVE  n <= hostSeq'[i]
      BY <1>1, <2>2, <3>3
    <3>4. CASE toPanel[p].kind = "key"
      BY <3>1, <3>2, <3>3, <3>4
    <3>5. CASE toPanel[p].kind = "live"
      <4>1. \A i \in Seqs : toPanel[p].seqs[i] \in Nat
        BY <3>1, <3>5
      <4>2. \A i \in Seqs : toPanel[p].seqs[i] <= hostSeq'[i]
        BY <3>2, <3>3, <3>5, <4>1
      <4> QED
        BY <3>5, <4>2
    <3> QED
      BY <3>4, <3>5
  <2>4. Announced'
    BY <1>1, <1>2, <2>1, <2>2 DEF FreshInv, Announced
  <2>5. BootKnown' /\ NotOlder' /\ Sorted' /\ RestartShows' /\ NoKeyless'
    BY <1>2, <2>1 DEF FreshInv, BootKnown, NotOlder, Sorted, RestartShows,
                      NoKeyless, Positions
  <2> QED
    BY <1>3, <2>3, <2>4, <2>5 DEF FreshInv
<1>8. CASE HostTick
  <2>1. UNCHANGED <<hostSeq, boot, toHost, toPanel>>
    BY <1>8 DEF HostTick
  <2>2. RestartShows'
    BY <1>1, <1>2, <1>8, <2>1 DEF HostTick, FreshInv, RestartShows, Positions
  <2>3. BootKnown' /\ FromHost' /\ NotOlder' /\ Sorted' /\ Announced'
        /\ NoKeyless'
    BY <1>2, <2>1 DEF FreshInv, BootKnown, FromHost, NotOlder, Sorted,
                      Announced, NoKeyless, Positions
  <2> QED
    BY <1>3, <2>2, <2>3 DEF FreshInv
<1>9. CASE HostRestart
  <2>1. /\ boot' = boot + 1 /\ upTime' = 0 /\ remoteUpTime > 0
        /\ knownBoot = boot /\ toHost' = <<>>
        /\ toPanel = <<>> /\ toPanel' = toPanel
    BY <1>9 DEF HostRestart
  <2>2. Positions' = {} /\ 1 .. Len(toHost') = {}
    BY <2>1 DEF Positions
  <2>3. \A i \in Seqs : held[i].boot \in Nat
    BY <1>1 DEF Version
  <2>4. BootKnown'
    BY <1>1, <1>2, <2>1, <2>3 DEF FreshInv, BootKnown
  <2>5. NotOlder' /\ Announced'
    BY <1>1, <1>2, <2>1 DEF NotOlder, Announced
  <2>6. FromHost' /\ Sorted' /\ NoKeyless' /\ RestartShows'
    BY <1>2, <2>1, <2>2 DEF FromHost, Sorted, NoKeyless, RestartShows
  <2> QED
    BY <1>3, <2>4, <2>5, <2>6 DEF FreshInv
<1> QED
  BY <1>4, <1>5, <1>6, <1>7, <1>8, <1>9

\* The inductive invariant holds in every behaviour.
LEMMA FreshAlways ==
    ASSUME ~ (CutLines /\ Keyless)
    PROVE  Spec => []FreshInv
<1>1. Init => FreshInv
  <2> SUFFICES ASSUME Init PROVE FreshInv
    OBVIOUS
  <2>1. TypeOK
    BY InitType
  <2>2. Positions = {} /\ 1 .. Len(toHost) = {}
    BY DEF Init, Positions
  <2>3. NoStale /\ NoKeyless /\ FromHost /\ NotOlder /\ Sorted /\ RestartShows
    BY <2>2 DEF Init, NoStale, NoKeyless, FromHost, NotOlder, Sorted,
                RestartShows
  <2>4. BootKnown /\ Announced /\ OkIsFresh
    BY DEF Init, NoData, BootKnown, Announced, OkIsFresh
  <2> QED
    BY <2>1, <2>3, <2>4 DEF FreshInv
<1>2. FreshInv /\ [Next]_vars => FreshInv'
  <2> SUFFICES ASSUME FreshInv, [Next]_vars PROVE FreshInv'
    OBVIOUS
  <2>1. CASE Next
    <3>1. TypeOK'
      BY <2>1, PollType, ReconnectType, ReceiveType, HostType
      DEF Next, FreshInv
    <3> QED
      BY <2>1, <3>1, PollFresh, ReconnectFresh, ReceiveFresh, CutFresh,
         HostFresh DEF Next
  <2>2. CASE UNCHANGED vars
    BY <2>2 DEF vars, FreshInv, TypeOK, NoStale, NoKeyless, BootKnown,
                FromHost, NotOlder, Sorted, Announced, RestartShows,
                OkIsFresh, UpToDate, Positions
  <2> QED
    BY <2>1, <2>2
<1> QED
  BY <1>1, <1>2, PTL DEF Spec

\* An entry of seqs[] that the panel has marked ok is fresh, in every
\* behaviour in which the line does not both cut messages short and carry
\* messages without a key: with both, the entry a cut message had selected
\* would be marked ok or in error by the next message without a key (the
\* counterexample of the run poll_stale).
THEOREM Freshness ==
    ASSUME ~ (CutLines /\ Keyless)
    PROVE  Spec => []OkIsFresh
<1>1. FreshInv => OkIsFresh
  BY DEF FreshInv
<1> QED
  BY <1>1, FreshAlways, PTL

-----------------------------------------------------------------------------
(* Errors are retried.                                                     *)

\* An entry leaves "error" to be asked for again, or with a complete reply or
\* an announcement of its own, in every behaviour in which the line does not
\* both cut messages short and carry messages without a key.
THEOREM ErrorsRetried ==
    ASSUME ~ (CutLines /\ Keyless)
    PROVE  Spec => ErrorIsRetried
<1> DEFINE Retried(i) ==
              seqState[i] = "error" /\ seqState'[i] # "error" =>
                 \/ seqState'[i] \in {"init", "update"}
                 \/ /\ toPanel' = Tail(toPanel)
                    /\ Head(toPanel).kind = "key"
                    /\ Head(toPanel).key = i
<1>1. ASSUME FreshInv, Next
      PROVE  \A i \in Seqs : Retried(i)
  <2> SUFFICES ASSUME NEW i \in Seqs PROVE Retried(i)
    OBVIOUS
  <2>1. TypeOK /\ seqState \in [Seqs -> SeqState]
    BY <1>1 DEF FreshInv, TypeOK
  <2>2. ASSUME NEW current, NEW next, seqState' = SkipErrors(current, next)
        PROVE  Retried(i)
    BY <2>2 DEF SkipErrors
  <2>3. ASSUME \A j \in Seqs : seqState'[j] = "init"
        PROVE  Retried(i)
    BY <2>3
  <2>4. ASSUME NEW seqs, seqState' = UpdatedState(seqs)
        PROVE  Retried(i)
    BY <2>4 DEF UpdatedState
  <2>5. CASE PollSeq \/ PollIdle
    BY <2>2, <2>5 DEF PollSeq, PollIdle
  <2>6. CASE Reconnect \/ LeaveSetup
    BY <2>3, <2>6 DEF Reconnect, LeaveSetup, ReconnectEffect, ResetSeqs
  <2>7. CASE Receive
    <3> DEFINE m == Head(toPanel)
    <3>1. /\ toPanel # <<>>
          /\ toPanel' = Tail(toPanel)
          /\ ReceiveKey(m) \/ ReceiveLive(m) \/ ReceiveKeyless(m)
      BY <2>7 DEF Receive
    <3>2. m = toPanel[1] /\ 1 \in Positions
      BY <2>1, <3>1, TailParts DEF TypeOK, Positions
    <3>3. m.kind = "key" => m.key \in Seqs
      BY <2>1, <3>2, InFlight
    <3> HIDE DEF m
    <3>4. CASE ReceiveKey(m)
      <4>1. m.kind = "key" /\ m.key \in Seqs /\ m.key # Null
        BY <3>3, <3>4 DEF ReceiveKey, Seqs
      <4>2. PICK state \in {seqState, ResetSeqs} :
               seqState' = [state EXCEPT ![m.key] = "ok"]
        BY <3>4, <4>1 DEF ReceiveKey, SeqsAfter, EndReceivedMessage
      <4>3. CASE i = m.key
        BY <3>1, <4>1, <4>3 DEF m
      <4>4. CASE i # m.key
        <5>1. seqState'[i] \in {seqState[i], "init"}
          BY <2>1, <4>2, <4>4 DEF ResetSeqs
        <5> QED
          BY <5>1
      <4> QED
        BY <4>3, <4>4
    <3>5. CASE ReceiveLive(m)
      <4>1. seqState' = ResetSeqs \/ seqState' = UpdatedState(m.seqs)
        BY <3>5 DEF ReceiveLive, SeqsAfter, EndReceivedMessage
      <4> QED
        BY <2>3, <2>4, <4>1 DEF ResetSeqs
    <3>6. CASE ReceiveKeyless(m)
      <4>1. Keyless
        BY <1>1, <3>2, <3>6 DEF ReceiveKeyless, FreshInv, NoKeyless
      <4>2. currentRespSeq = Null
        BY <1>1, <4>1 DEF FreshInv, NoStale
      <4> QED
        BY <3>6, <4>2 DEF ReceiveKeyless, EndReceivedMessage
    <3> QED
      BY <3>1, <3>4, <3>5, <3>6
  <2>8. CASE ReceiveCut
    <3>1. ASSUME NEW state \in [Seqs -> SeqState], NEW resp, NEW e \in BOOLEAN,
                 EndCutLine(state, resp, e)
          PROVE  seqState'[i] \in {state[i], "error"}
      BY <3>1 DEF EndCutLine
    <3>2. ASSUME NEW seqs
          PROVE  /\ UpdatedState(seqs) \in [Seqs -> SeqState]
                 /\ UpdatedState(seqs)[i] \in {seqState[i], "update"}
      BY <2>1 DEF UpdatedState, SeqState
    <3>3. ASSUME NEW m, NEW state \in [Seqs -> SeqState]
          PROVE  /\ SeqsAfter(m, state) \in [Seqs -> SeqState]
                 /\ SeqsAfter(m, state)[i] \in {state[i], "init"}
      BY SeqsAfterType DEF SeqsAfter, ResetSeqs
    <3>4. CASE CutEarly \/ CutKey(Head(toPanel))
      <4>1. PICK state \in {seqState, SeqsAfter(Head(toPanel), seqState)},
                 resp \in {currentRespSeq, Head(toPanel).key},
                 e \in BOOLEAN : EndCutLine(state, resp, e)
        BY <3>4 DEF CutEarly, CutKey
      <4>2. state \in [Seqs -> SeqState] /\ state[i] \in {seqState[i], "init"}
        BY <2>1, <3>3, <4>1
      <4> QED
        BY <3>1, <4>1, <4>2
    <3>5. CASE CutLive(Head(toPanel))
      <4>1. PICK seqs :
               \/ EndCutLine(UpdatedState(seqs), Null, FALSE)
               \/ EndCutLine(SeqsAfter(Head(toPanel), UpdatedState(seqs)), Null,
                             FALSE)
        BY <3>5 DEF CutLive
      <4>2. ASSUME NEW state \in [Seqs -> SeqState],
                   state[i] \in {seqState[i], "update", "init"},
                   EndCutLine(state, Null, FALSE)
            PROVE  Retried(i)
        BY <3>1, <4>2
      <4> HIDE DEF Retried
      <4>3. CASE EndCutLine(UpdatedState(seqs), Null, FALSE)
        BY <3>2, <4>2, <4>3
      <4>4. CASE EndCutLine(SeqsAfter(Head(toPanel), UpdatedState(seqs)), Null,
                            FALSE)
        BY <3>2, <3>3, <4>2, <4>4
      <4> QED
        BY <4>1, <4>3, <4>4
    <3> QED
      BY <2>8, <3>4, <3>5 DEF ReceiveCut
  <2>9. CASE \/ PollThumbnail \/ RequestTimeout \/ EnterSetup \/ LoseRequest \/ LoseReply
             \/ HostAnswer \/ HostRefuse \/ HostPush \/ HostChange \/ HostTick
             \/ HostRestart
    <3>1. seqState' = seqState
      BY <2>9 DEF PollThumbnail, RequestTimeout, EnterSetup, LoseRequest, LoseReply, HostAnswer,
         HostRefuse, HostPush, HostChange, HostTick, HostRestart, panelVars
    <3> QED
      BY <3>1
  <2> QED
    BY <1>1, <2>5, <2>6, <2>7, <2>8, <2>9 DEF Next
<1>2. FreshInv /\ [Next]_vars => [\A i \in Seqs : Retried(i)]_vars
  BY <1>1
<1>3. Spec => []FreshInv
  BY FreshAlways
<1> QED
  BY <1>2, <1>3, PTL DEF Spec, ErrorIsRetried

-----------------------------------------------------------------------------
(* One request at a time.                                                  *)

\* With a host that speaks only when asked, and timeouts that outlast its
\* answers, the panel never has two requests outstanding, though lines are
\* lost or cut short, the host restarts and the user visits the Setup page.
THEOREM OneAtATime ==
    ASSUME ~Keyless, Patient
    PROVE  Spec => []OneOutstanding
<1>1. Init => TypeOK /\ OneOutstanding
              /\ (responded => Len(toHost) + Len(toPanel) = 0)
  BY InitType DEF Init, OneOutstanding
<1> DEFINE One == /\ TypeOK
                  /\ OneOutstanding
                  /\ responded => Len(toHost) + Len(toPanel) = 0
<1>2. ASSUME One, [Next]_vars
      PROVE  One'
  <2>1. TypeOK /\ Len(toHost) \in Nat /\ Len(toPanel) \in Nat
        /\ toHost \in Seq(Request) /\ toPanel \in Seq(Message)
    BY <1>2, LenNat DEF TypeOK
  <2>2. TypeOK'
    BY <1>2, PollType, ReconnectType, ReceiveType, HostType DEF Next, vars, TypeOK
  <2>3. QuietLine <=> Len(toHost) + Len(toPanel) = 0
    BY <2>1, TailParts DEF QuietLine
  <2>4. ASSUME NEW r, Send(r), QuietLine, toPanel' = toPanel
        PROVE  One'
    <3>1. Len(toHost') = 1 /\ Len(toPanel') = 0 /\ responded' = FALSE
      BY <2>1, <2>4 DEF Send, QuietLine
    <3> QED
      BY <2>2, <3>1 DEF OneOutstanding
  <2>5. CASE PollSeq \/ PollIdle \/ RequestTimeout
    <3>1. QuietLine
      BY <1>2, <2>3, <2>5 DEF PollSeq, PollIdle, RequestTimeout, CanPoll
    <3> QED
      BY <2>4, <2>5, <3>1 DEF PollSeq, PollIdle, RequestTimeout
  <2>6. CASE Reconnect \/ LeaveSetup \/ EnterSetup
    <3>1. /\ UNCHANGED <<toHost, toPanel>>
          /\ responded' = responded \/ QuietLine
      BY <2>6 DEF Reconnect, LeaveSetup, EnterSetup
    <3> QED
      BY <1>2, <2>2, <2>3, <3>1 DEF OneOutstanding
  <2>7. CASE Receive \/ ReceiveCut \/ LoseReply
    <3>1. Len(toPanel) # 0 /\ Len(toPanel') = Len(toPanel) - 1 /\ toHost' = toHost
      BY <2>1, <2>7, TailParts DEF Receive, ReceiveCut, LoseReply
    <3> QED
      BY <1>2, <2>1, <2>2, <3>1 DEF OneOutstanding
  <2>8. CASE LoseRequest \/ HostAnswer
    <3>1. /\ Len(toHost) # 0 /\ Len(toHost') = Len(toHost) - 1
          /\ Len(toPanel') \in {Len(toPanel), Len(toPanel) + 1}
          /\ responded' = responded
      <4>1. Len(toHost) # 0 /\ Len(toHost') = Len(toHost) - 1
        BY <2>1, <2>8, TailParts DEF LoseRequest, HostAnswer
      <4>2. CASE LoseRequest
        BY <4>1, <4>2 DEF LoseRequest, panelVars
      <4>3. CASE HostAnswer
        <5>1. Reply(Head(toHost)) \in Message
          BY <2>1, <4>3, TailType, ReplyType DEF HostAnswer
        <5>2. Len(toPanel') = Len(toPanel) + 1
          BY <2>1, <4>3, <5>1, AppendParts DEF HostAnswer
        <5> QED
          BY <4>1, <4>3, <5>2 DEF HostAnswer, panelVars
      <4> QED
        BY <2>8, <4>2, <4>3
    <3> QED
      BY <1>2, <2>1, <2>2, <3>1 DEF OneOutstanding
  <2>9. CASE HostChange \/ HostTick \/ UNCHANGED vars
    BY <1>2, <2>2, <2>9 DEF HostChange, HostTick, vars, panelVars, OneOutstanding
  <2>10. CASE HostRestart
    <3>1. Len(toHost') = 0 /\ Len(toPanel') = 0
      BY <2>10 DEF HostRestart
    <3> QED
      BY <2>2, <3>1 DEF OneOutstanding
  <2>11. ~PollThumbnail /\ ~HostRefuse /\ ~HostPush
    BY DEF PollThumbnail, HostRefuse, HostPush
  <2> QED
    BY <1>2, <2>5, <2>6, <2>7, <2>8, <2>9, <2>10, <2>11 DEF Next
<1>3. One => OneOutstanding
  OBVIOUS
<1> HIDE DEF One
<1>4. Init => One
  BY <1>1 DEF One
<1> QED
  BY <1>2, <1>3, <1>4, PTL DEF Spec

-----------------------------------------------------------------------------
(* The panel's copy is a mirror of the host's data.                        *)

(* No complete data the panel holds is newer than the host's, and none is   *)
(* newer than a reply for its key that is on its way.                       *)
HeldBehind ==
    \A i \in Seqs : held[i].whole =>
        /\ held[i].boot <= boot
        /\ held[i].boot = boot =>
              /\ held[i].seq <= hostSeq[i]
              /\ \A p \in Positions :
                    toPanel[p].kind = "key" /\ toPanel[p].key = i =>
                       held[i].seq <= toPanel[p].seq

(* Key replies arrive in the order of their versions, none of them newer    *)
(* than the host's.                                                         *)
InOrder ==
    /\ \A p \in Positions :
          toPanel[p].kind = "key" =>
             toPanel[p].seq <= hostSeq[toPanel[p].key]
    /\ \A p, q \in Positions :
          /\ p < q
          /\ toPanel[p].kind = "key" /\ toPanel[q].kind = "key"
          /\ toPanel[p].key = toPanel[q].key
          => toPanel[p].seq <= toPanel[q].seq

MirrorInv == TypeOK /\ HeldBehind /\ InOrder

\* What the invariant and the refinement read of the state.
mirrored == <<hostSeq, boot, held>>

\* Messages that went from the front of the channel leave the rest in order.
LEMMA FewerMessages ==
    ASSUME MirrorInv, TypeOK', UNCHANGED mirrored,
           \/ toPanel' = toPanel
           \/ toPanel # <<>> /\ toPanel' = Tail(toPanel)
    PROVE  MirrorInv'
<1>1. CASE toPanel' = toPanel
  BY <1>1 DEF MirrorInv, HeldBehind, InOrder, Positions, mirrored
<1>2. CASE toPanel # <<>> /\ toPanel' = Tail(toPanel)
  <2>1. toPanel \in Seq(Message)
    BY DEF MirrorInv, TypeOK
  <2>2. /\ Len(toPanel) \in Nat \ {0}
        /\ Len(toPanel') = Len(toPanel) - 1
        /\ \A p \in 1 .. Len(toPanel') : toPanel'[p] = toPanel[p + 1]
    BY <1>2, <2>1, TailParts
  <2>3. /\ \A p \in Positions' : p + 1 \in Positions /\ toPanel'[p] = toPanel[p + 1]
        /\ \A p, q \in Positions' : p < q => p + 1 < q + 1
    BY <2>2 DEF Positions
  <2>4. HeldBehind'
    BY <2>3 DEF MirrorInv, HeldBehind, mirrored
  <2>5. InOrder'
    BY <2>3 DEF MirrorInv, InOrder, mirrored
  <2> QED
    BY <2>4, <2>5 DEF MirrorInv
<1> QED
  BY <1>1, <1>2

\* A message sent with the host's current version is behind none.
LEMMA OneMessageMore ==
    ASSUME MirrorInv, TypeOK', UNCHANGED mirrored, NEW e \in Message,
           toPanel' = Append(toPanel, e),
           e.kind = "key" => e.seq = hostSeq[e.key]
    PROVE  MirrorInv'
<1>1. TypeOK /\ toPanel \in Seq(Message) /\ hostSeq \in [Seqs -> Nat]
  BY DEF MirrorInv, TypeOK
<1>2. /\ Len(toPanel) \in Nat
      /\ Len(toPanel') = Len(toPanel) + 1
      /\ \A p \in 1 .. Len(toPanel) : toPanel'[p] = toPanel[p]
      /\ toPanel'[Len(toPanel')] = e
  BY <1>1, AppendParts, LenNat
<1>3. \A p \in Positions' : \/ p \in Positions /\ toPanel'[p] = toPanel[p]
                            \/ p = Len(toPanel') /\ toPanel'[p] = e
  BY <1>2 DEF Positions
<1>4. \A p, q \in Positions' : p < q => p \in Positions /\ toPanel'[p] = toPanel[p]
  BY <1>2 DEF Positions
<1>5. e.kind = "key" => e.key \in Seqs /\ hostSeq[e.key] \in Nat
  BY <1>1, MessageFields
<1>6. hostSeq' = hostSeq /\ boot' = boot /\ held' = held
  BY DEF mirrored
<1>7. HeldBehind'
  <2> SUFFICES ASSUME NEW i \in Seqs, held[i].whole
               PROVE  /\ held[i].boot <= boot
                      /\ held[i].boot = boot =>
                            /\ held[i].seq <= hostSeq[i]
                            /\ \A p \in Positions' :
                                  toPanel'[p].kind = "key" /\ toPanel'[p].key = i =>
                                     held[i].seq <= toPanel'[p].seq
    BY <1>6 DEF HeldBehind
  <2>1. /\ held[i].boot <= boot
        /\ held[i].boot = boot => held[i].seq <= hostSeq[i]
    BY DEF MirrorInv, HeldBehind
  <2>2. ASSUME NEW p \in Positions', held[i].boot = boot,
               toPanel'[p].kind = "key", toPanel'[p].key = i
        PROVE  held[i].seq <= toPanel'[p].seq
    <3>1. CASE p \in Positions /\ toPanel'[p] = toPanel[p]
      BY <2>2, <3>1 DEF MirrorInv, HeldBehind
    <3>2. CASE toPanel'[p] = e
      BY <2>1, <2>2, <3>2
    <3> QED
      BY <1>3, <3>1, <3>2
  <2> QED
    BY <2>1, <2>2
<1>8. InOrder'
  <2>1. ASSUME NEW p \in Positions', toPanel'[p].kind = "key"
        PROVE  toPanel'[p].seq <= hostSeq[toPanel'[p].key]
    <3>1. CASE p \in Positions /\ toPanel'[p] = toPanel[p]
      BY <2>1, <3>1 DEF MirrorInv, InOrder
    <3>2. CASE toPanel'[p] = e
      BY <1>5, <2>1, <3>2
    <3> QED
      BY <1>3, <3>1, <3>2
  <2>2. ASSUME NEW p \in Positions', NEW q \in Positions', p < q,
               toPanel'[p].kind = "key", toPanel'[q].kind = "key",
               toPanel'[p].key = toPanel'[q].key
        PROVE  toPanel'[p].seq <= toPanel'[q].seq
    <3>1. p \in Positions /\ toPanel'[p] = toPanel[p]
      BY <1>4, <2>2
    <3>2. CASE q \in Positions /\ toPanel'[q] = toPanel[q]
      BY <2>2, <3>1, <3>2 DEF MirrorInv, InOrder
    <3>3. CASE toPanel'[q] = e
      BY <1>5, <2>2, <3>1, <3>3 DEF MirrorInv, InOrder
    <3> QED
      BY <1>3, <3>2, <3>3
  <2> QED
    BY <1>6, <2>1, <2>2 DEF InOrder
<1> QED
  BY <1>7, <1>8 DEF MirrorInv

\* Only these steps touch the host's data, the copy or the channel.
LEMMA MirrorStep ==
    ASSUME MirrorInv, [Next]_vars
    PROVE  MirrorInv'
<1>1. TypeOK /\ TypeOK'
  BY PollType, ReconnectType, ReceiveType, HostType DEF MirrorInv, Next, vars, TypeOK
<1>2. /\ toHost \in Seq(Request) /\ toPanel \in Seq(Message)
      /\ hostSeq \in [Seqs -> Nat] /\ held \in [Seqs -> Version] /\ boot \in Nat
  BY <1>1 DEF TypeOK
<1>3. CASE \/ PollSeq \/ PollThumbnail \/ PollIdle \/ RequestTimeout
           \/ Reconnect \/ EnterSetup \/ LeaveSetup \/ LoseRequest \/ HostTick \/ UNCHANGED vars
  <2>1. UNCHANGED mirrored /\ toPanel' = toPanel
    BY <1>3 DEF PollSeq, PollThumbnail, PollIdle, RequestTimeout, Reconnect, EnterSetup,
       LeaveSetup, LoseRequest, HostTick, hostVars, panelVars, ghostVars, vars,
       mirrored
  <2> QED
    BY <1>1, <2>1, FewerMessages
<1>4. CASE LoseReply \/ ReceiveCut
  <2>1. UNCHANGED mirrored /\ toPanel # <<>> /\ toPanel' = Tail(toPanel)
    BY <1>4 DEF LoseReply, ReceiveCut, hostVars, panelVars, ghostVars, mirrored
  <2> QED
    BY <1>1, <2>1, FewerMessages
<1>5. CASE Receive
  <2> DEFINE m == Head(toPanel)
  <2>1. /\ toPanel # <<>> /\ toPanel' = Tail(toPanel)
        /\ UNCHANGED <<hostSeq, boot>>
        /\ ReceiveKey(m) \/ ReceiveLive(m) \/ ReceiveKeyless(m)
    BY <1>5 DEF Receive, hostVars
  <2>2. CASE ReceiveLive(m) \/ ReceiveKeyless(m)
    <3>1. UNCHANGED mirrored
      BY <2>1, <2>2 DEF ReceiveLive, ReceiveKeyless, mirrored
    <3> QED
      BY <1>1, <2>1, <3>1, FewerMessages
  <2>3. CASE ReceiveKey(m)
    <3>1. /\ Len(toPanel) \in Nat \ {0}
          /\ Len(toPanel') = Len(toPanel) - 1
          /\ m = toPanel[1]
          /\ \A p \in 1 .. Len(toPanel') : toPanel'[p] = toPanel[p + 1]
      BY <1>2, <2>1, TailParts
    <3>2. /\ 1 \in Positions
          /\ \A p \in Positions' :
                p + 1 \in Positions /\ 1 < p + 1 /\ toPanel'[p] = toPanel[p + 1]
          /\ \A p, q \in Positions' : p < q => p + 1 < q + 1
      BY <3>1 DEF Positions
    <3>3. m.kind = "key" /\ m.key \in Seqs /\ m.seq \in Nat
      BY <1>1, <2>3, <3>1, <3>2, InFlight DEF ReceiveKey
    <3>4. held' = [held EXCEPT ![m.key] =
                      [whole |-> TRUE, boot |-> boot, seq |-> m.seq]]
      BY <2>3 DEF ReceiveKey
    <3>5. InOrder'
      BY <2>1, <3>2 DEF MirrorInv, InOrder
    <3>6. m.seq <= hostSeq[m.key]
      BY <3>1, <3>2, <3>3 DEF MirrorInv, InOrder
    <3>7. \A p \in Positions' :
             toPanel'[p].kind = "key" /\ toPanel'[p].key = m.key =>
                m.seq <= toPanel'[p].seq
      BY <3>1, <3>2, <3>3 DEF MirrorInv, InOrder
    <3> HIDE DEF m
    <3>8. HeldBehind'
      <4> SUFFICES ASSUME NEW i \in Seqs, held'[i].whole
                   PROVE  /\ held'[i].boot <= boot
                          /\ held'[i].boot = boot =>
                                /\ held'[i].seq <= hostSeq[i]
                                /\ \A p \in Positions' :
                                      /\ toPanel'[p].kind = "key"
                                      /\ toPanel'[p].key = i
                                      => held'[i].seq <= toPanel'[p].seq
        BY <2>1 DEF HeldBehind
      <4>1. CASE i = m.key
        <5>1. held'[i] = [whole |-> TRUE, boot |-> boot, seq |-> m.seq]
          BY <1>2, <3>3, <3>4, <4>1
        <5> QED
          BY <1>2, <3>6, <3>7, <4>1, <5>1
      <4>2. CASE i # m.key
        <5>1. held'[i] = held[i]
          BY <1>2, <3>3, <3>4, <4>2
        <5> QED
          BY <3>2, <5>1 DEF MirrorInv, HeldBehind
      <4> QED
        BY <4>1, <4>2
    <3> QED
      BY <1>1, <3>5, <3>8 DEF MirrorInv
  <2> QED
    BY <2>1, <2>2, <2>3
<1>6. CASE HostAnswer \/ HostRefuse \/ HostPush
  <2>1. UNCHANGED mirrored
    BY <1>6 DEF HostAnswer, HostRefuse, HostPush, hostVars, panelVars, ghostVars,
       mirrored
  <2>2. PICK e \in Message : /\ toPanel' = Append(toPanel, e)
                             /\ e.kind = "key" => e.seq = hostSeq[e.key]
    <3>1. CASE HostAnswer
      <4>1. Head(toHost) \in Request
            /\ toPanel' = Append(toPanel, Reply(Head(toHost)))
        BY <1>2, <3>1, TailType DEF HostAnswer
      <4>2. Reply(Head(toHost)).kind = "key" =>
               Reply(Head(toHost)).seq = hostSeq[Reply(Head(toHost)).key]
        BY <4>1 DEF Reply, Request
      <4> QED
        BY <1>1, <4>1, <4>2, ReplyType
    <3>2. CASE HostRefuse \/ HostPush
      BY <3>2 DEF HostRefuse, HostPush, Message
    <3> QED
      BY <1>6, <3>1, <3>2
  <2> QED
    BY <1>1, <2>1, <2>2, OneMessageMore
<1>7. CASE HostChange
  <2>1. UNCHANGED <<boot, held, toPanel>>
    BY <1>7 DEF HostChange, ghostVars
  <2>2. \A i \in Seqs : \A n \in Nat : n <= hostSeq[i] => n <= hostSeq'[i]
    BY <1>2, <1>7 DEF HostChange
  <2>3. \A i \in Seqs : held[i].seq \in Nat
    BY <1>2 DEF Version
  <2>4. HeldBehind'
    BY <2>1, <2>2, <2>3 DEF MirrorInv, HeldBehind, Positions
  <2>5. \A p \in Positions : toPanel[p].kind = "key" =>
           toPanel[p].key \in Seqs /\ toPanel[p].seq \in Nat
    BY <1>1, InFlight
  <2>6. InOrder'
    BY <2>1, <2>2, <2>5 DEF MirrorInv, InOrder, Positions
  <2> QED
    BY <1>1, <2>4, <2>6 DEF MirrorInv
<1>8. CASE HostRestart
  <2>1. boot' = boot + 1 /\ held' = held /\ toPanel' = <<>>
    BY <1>8 DEF HostRestart, ghostVars
  <2>2. Positions' = {}
    BY <2>1 DEF Positions
  <2>3. \A i \in Seqs : held[i].boot \in Nat
    BY <1>2 DEF Version
  <2>4. HeldBehind' /\ InOrder'
    BY <1>2, <2>1, <2>2, <2>3 DEF MirrorInv, HeldBehind, InOrder
  <2> QED
    BY <1>1, <2>4 DEF MirrorInv
<1> QED
  BY <1>3, <1>4, <1>5, <1>6, <1>7, <1>8 DEF Next

LEMMA MirrorAlways == Spec => []MirrorInv
<1>1. Init => MirrorInv
  <2> SUFFICES ASSUME Init PROVE MirrorInv
    OBVIOUS
  <2>1. TypeOK
    BY InitType
  <2>2. Positions = {}
    BY DEF Init, Positions
  <2>3. \A i \in Seqs : ~held[i].whole
    BY DEF Init, NoData
  <2> QED
    BY <2>1, <2>2, <2>3 DEF MirrorInv, HeldBehind, InOrder
<1>2. MirrorInv /\ [Next]_vars => MirrorInv'
  BY MirrorStep
<1> QED
  BY <1>1, <1>2, PTL DEF Spec

\* The mirror of a state, as PollLoop!AsMirror maps it.
truth == [i \in Seqs |-> <<boot, hostSeq[i]>>]

copy == [i \in Seqs |-> IF held[i].whole
                        THEN <<held[i].boot, held[i].seq>>
                        ELSE <<>>]

\* A step that leaves the data alone is a stutter of the mirror.
LEMMA MirrorStutters ==
    ASSUME UNCHANGED mirrored
    PROVE  UNCHANGED AsMirror!vars
BY DEF mirrored, AsMirror!vars

\* The host's changes and restarts move the truth forward.
LEMMA HostMovesOn ==
    ASSUME TypeOK, HostChange \/ HostRestart
    PROVE  AsMirror!HostMoves
<1>1. hostSeq \in [Seqs -> Nat] /\ boot \in Nat
  BY DEF TypeOK
<1>2. held' = held
  BY DEF HostChange, HostRestart, ghostVars
<1>3. copy' = copy
  BY <1>2 DEF copy
<1>4. CASE HostChange
  <2>1. boot' = boot
    BY <1>4 DEF HostChange
  <2>2. PICK i \in Seqs : hostSeq' = [hostSeq EXCEPT ![i] = @ + 1]
    BY <1>4 DEF HostChange
  <2>3. \A k \in Seqs : hostSeq'[k] \in Nat /\ hostSeq[k] <= hostSeq'[k]
    BY <1>1, <2>2
  <2>4. \A k \in Seqs : AsMirror!AtMost(truth[k], truth'[k])
    BY <1>1, <2>1, <2>3 DEF truth, AsMirror!AtMost, AsMirror!NoCopy
  <2>5. truth[i] # truth'[i]
    BY <1>1, <2>1, <2>2 DEF truth
  <2> QED
    BY <1>3, <2>4, <2>5 DEF AsMirror!HostMoves, truth, copy
<1>5. CASE HostRestart
  <2>1. boot' = boot + 1 /\ hostSeq' = [i \in Seqs |-> 0]
    BY <1>5 DEF HostRestart
  <2>2. \A k \in Seqs : AsMirror!AtMost(truth[k], truth'[k])
    BY <1>1, <2>1 DEF truth, AsMirror!AtMost, AsMirror!NoCopy
  <2>3. 1 \in Seqs
    BY PollAssumption DEF Seqs
  <2>4. truth[1] # truth'[1]
    BY <1>1, <2>1, <2>3 DEF truth
  <2> QED
    BY <1>3, <2>2, <2>4 DEF AsMirror!HostMoves, truth, copy
<1> QED
  BY <1>4, <1>5

\* A complete reply refreshes the copy of its key, and nothing else.
LEMMA ReplyRefreshes ==
    ASSUME MirrorInv, Receive, ReceiveKey(Head(toPanel))
    PROVE  \E k \in Seqs : AsMirror!Refresh(k)
<1> DEFINE m == Head(toPanel)
<1>1. /\ TypeOK /\ toPanel \in Seq(Message) /\ toPanel # <<>>
      /\ hostSeq \in [Seqs -> Nat] /\ held \in [Seqs -> Version] /\ boot \in Nat
      /\ UNCHANGED <<hostSeq, boot>>
  BY DEF MirrorInv, TypeOK, Receive, hostVars
<1>2. 1 \in Positions /\ m = toPanel[1]
  BY <1>1, TailParts DEF Positions
<1>3. m.kind = "key" /\ m.key \in Seqs /\ m.seq \in Nat
  BY <1>1, <1>2, InFlight DEF ReceiveKey
<1>4. held' = [held EXCEPT ![m.key] =
                  [whole |-> TRUE, boot |-> boot, seq |-> m.seq]]
  BY DEF ReceiveKey
<1>5. m.seq <= hostSeq[m.key]
  BY <1>2, <1>3 DEF MirrorInv, InOrder
<1>6. held[m.key].whole =>
         /\ held[m.key].boot <= boot
         /\ held[m.key].boot = boot => held[m.key].seq <= m.seq
  BY <1>2, <1>3 DEF MirrorInv, HeldBehind
<1> HIDE DEF m
<1>7. held[m.key].boot \in Nat /\ held[m.key].seq \in Nat
  BY <1>1, <1>3 DEF Version
<1>8. truth' = truth
  BY <1>1 DEF truth
<1>9. copy'[m.key] = <<boot, m.seq>>
  BY <1>1, <1>3, <1>4 DEF copy
<1>10. copy' = [copy EXCEPT ![m.key] = copy'[m.key]]
  <2>1. \A i \in Seqs : i # m.key => held'[i] = held[i]
    BY <1>1, <1>3, <1>4
  <2>2. \A i \in Seqs : i # m.key => copy'[i] = copy[i]
    BY <2>1 DEF copy
  <2>3. copy \in [Seqs -> {copy[i] : i \in Seqs}]
        /\ copy' \in [Seqs -> {copy'[i] : i \in Seqs}]
    BY DEF copy
  <2> QED
    BY <1>3, <2>2, <2>3
<1>11. copy'[m.key] # AsMirror!NoCopy
  BY <1>9 DEF AsMirror!NoCopy
<1>12. AsMirror!AtMost(copy'[m.key], truth[m.key])
  BY <1>1, <1>3, <1>5, <1>9 DEF truth, AsMirror!AtMost, AsMirror!NoCopy
<1>13. AsMirror!AtMost(copy[m.key], copy'[m.key])
  <2>1. CASE held[m.key].whole
    <3>1. copy[m.key] = <<held[m.key].boot, held[m.key].seq>>
      BY <1>3, <2>1 DEF copy
    <3> QED
      BY <1>1, <1>3, <1>6, <1>7, <1>9, <2>1, <3>1
         DEF AsMirror!AtMost, AsMirror!NoCopy
  <2>2. CASE ~held[m.key].whole
    BY <1>3, <2>2 DEF copy, AsMirror!AtMost, AsMirror!NoCopy
  <2> QED
    BY <2>1, <2>2
<1>14. AsMirror!Refresh(m.key)
  BY <1>8, <1>10, <1>11, <1>12, <1>13 DEF AsMirror!Refresh, truth, copy
<1> QED
  BY <1>3, <1>14 DEF AsMirror!Refresh

(* The panel's copy of the object model mirrors the host's data, whatever   *)
(* lines are lost or cut, whoever speaks out of turn and however often the  *)
(* host restarts: no step lets the panel hold data that the host has not    *)
(* had, or go back from newer data to older.  (PollLoop implements Mirror,  *)
(* except for catching up, which is liveness.)                              *)
THEOREM MirrorsHost == Spec => AsMirror!Forward
<1>1. Init => AsMirror!Init
  BY DEF Init, NoData, AsMirror!Init, AsMirror!NoCopy
<1>2. MirrorInv /\ [Next]_vars => [AsMirror!Next]_(AsMirror!vars)
  <2> SUFFICES ASSUME MirrorInv, [Next]_vars
               PROVE  AsMirror!Next \/ UNCHANGED AsMirror!vars
    OBVIOUS
  <2>1. TypeOK
    BY DEF MirrorInv
  <2>2. CASE \/ PollSeq \/ PollThumbnail \/ PollIdle \/ RequestTimeout
             \/ Reconnect \/ EnterSetup \/ LeaveSetup \/ ReceiveCut \/ LoseRequest \/ LoseReply
             \/ HostAnswer \/ HostRefuse \/ HostPush \/ HostTick \/ UNCHANGED vars
    <3>1. UNCHANGED mirrored
      BY <2>2 DEF PollSeq, PollThumbnail, PollIdle, RequestTimeout, Reconnect,
         EnterSetup, LeaveSetup, ReceiveCut, LoseRequest, LoseReply, HostAnswer, HostRefuse, HostPush, HostTick, hostVars,
         panelVars, ghostVars, vars, mirrored
    <3> QED
      BY <3>1, MirrorStutters
  <2>3. CASE Receive
    <3>1. CASE ReceiveKey(Head(toPanel))
      BY <2>3, <3>1, ReplyRefreshes DEF AsMirror!Next
    <3>2. CASE ReceiveLive(Head(toPanel)) \/ ReceiveKeyless(Head(toPanel))
      <4>1. UNCHANGED mirrored
        BY <2>3, <3>2 DEF Receive, ReceiveLive, ReceiveKeyless, hostVars, mirrored
      <4> QED
        BY <4>1, MirrorStutters
    <3> QED
      BY <2>3, <3>1, <3>2 DEF Receive
  <2>4. CASE HostChange \/ HostRestart
    BY <2>1, <2>4, HostMovesOn DEF AsMirror!Next
  <2> QED
    BY <2>2, <2>3, <2>4 DEF Next
<1> QED
  BY <1>1, <1>2, MirrorAlways, PTL DEF Spec, AsMirror!Forward
=============================================================================
