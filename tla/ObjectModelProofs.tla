-------------------------- MODULE ObjectModelProofs --------------------------
(***************************************************************************)
(* What the lists, the pointers and the columns of ObjectModel promise, for *)
(* any machines, any number of columns and any number of changes and        *)
(* faults.                                                                  *)
(***************************************************************************)
EXTENDS ObjectModelTypes

(* A list is that of the machine as it is, and of no change since.          *)
Fresh(l) == seqState[l] = "ok" /\ l \notin changed
Left(op, i) == Field(op, i) \in msg.rest

(* Whether the end of a list is noticed depends on what is in it, and for    *)
(* the chambers on the beds.                                                *)
LEMMA EndedSame ==
    ASSUME NEW m \in Machines, NEW n \in Machines
    PROVE  /\ m.tools = n.tools => ("tools" \in Ended(m) <=> "tools" \in Ended(n))
           /\ m.spindles = n.spindles =>
                 ("spindles" \in Ended(m) <=> "spindles" \in Ended(n))
           /\ m.beds = n.beds /\ m.chambers = n.chambers =>
                 /\ "beds" \in Ended(m) <=> "beds" \in Ended(n)
                 /\ "chambers" \in Ended(m) <=> "chambers" \in Ended(n)
<1> DEFINE numbers(k) == [tools |-> DOMAIN k.tools, spindles |-> k.spindles,
                          beds |-> DOMAIN k.beds, chambers |-> DOMAIN k.chambers]
<1>1. \A k \in {m, n} : /\ "beds" \in Nonempty(numbers(k)) <=> DOMAIN k.beds # {}
                        /\ "chambers" \in Nonempty(numbers(k)) <=> DOMAIN k.chambers # {}
                        /\ HasValues(k) = Nonempty(numbers(k)) \cup Padded
  BY DEF Nonempty, HasValues
<1>2. \A k \in {m, n} : \A l : l \in Ended(k) <=>
              l \in HasValues(k) \/ (l = "chambers" /\ "beds" \in HasValues(k))
  BY DEF Ended
<1> HIDE DEF numbers
<1> QED
  BY <1>1, <1>2, EndedAre

-----------------------------------------------------------------------------
(* Spindles: those up to lastSpindle are the machine's, and the machine's   *)
(* are not removed, by a status answer either.                              *)
SpindleInv ==
    /\ msg.list \in {"spindles", "status"} =>
          \A s \in host.spindles : Left("spActive", s) \/ s <= lastSpindle
    /\ msg.list = "spindles" =>
          /\ \A s \in DOMAIN spindles : s <= lastSpindle => s \in host.spindles
          /\ msg.rest = {} /\ "spindles" \in Ended(host) =>
                DOMAIN spindles \subseteq host.spindles
          /\ "spindles" \notin crowded =>
                /\ Cardinality(DOMAIN spindles \cup host.spindles) <= MaxSlots
                /\ \A s \in host.spindles : Left("spActive", s) \/ s \in DOMAIN spindles
    /\ Fresh("spindles") =>
          /\ "spindles" \in Ended(host) => DOMAIN spindles \subseteq host.spindles
          /\ "spindles" \notin crowded => host.spindles \subseteq DOMAIN spindles

(* Tools: likewise, by the numbers in the list of tools.                    *)
ToolInv ==
    /\ msg.list = "tools" =>
          /\ msg.last \in Int
          /\ \A t \in DOMAIN host.tools : Left("number", t) \/ t <= msg.last
          /\ \A t \in DOMAIN tools : t <= msg.last => t \in DOMAIN host.tools
          /\ msg.rest = {} /\ "tools" \in Ended(host) =>
                DOMAIN tools \subseteq DOMAIN host.tools
          /\ "tools" \notin crowded =>
                /\ Cardinality(DOMAIN tools \cup DOMAIN host.tools) <= MaxSlots
                /\ \A t \in DOMAIN host.tools : Left("heatersEnd", t) \/ t \in DOMAIN tools
    /\ Fresh("tools") =>
          /\ "tools" \in Ended(host) => DOMAIN tools \subseteq DOMAIN host.tools
          /\ "tools" \notin crowded => DOMAIN host.tools \subseteq DOMAIN tools

(* Beds or chambers, with the heaters of the machine's.                     *)
Room(list, heaters) ==
    "heat" \notin crowded => Cardinality(DOMAIN list \cup DOMAIN heaters) <= MaxSlots
Upto(op, list, heaters) ==
    /\ \A i \in DOMAIN heaters :
          \/ Left(op, i)
          \/ i <= msg.last /\ ("heat" \notin crowded => i \in DOMAIN list)
    /\ \A i \in DOMAIN list :
          i <= msg.last => i \in DOMAIN heaters /\ list[i].heater = heaters[i]
HeatRead(list, heaters) ==
    /\ \A i \in DOMAIN list : i \in DOMAIN heaters /\ list[i].heater = heaters[i]
    /\ "heat" \notin crowded => DOMAIN heaters \subseteq DOMAIN list
HeatInv ==
    /\ msg.list = "heat" =>
          /\ msg.last \in Int
          /\ Room(beds, host.beds) /\ Room(chambers, host.chambers)
          /\ IF Left("bedsEnd", 0) THEN Upto("bed", beds, host.beds)
             ELSE /\ "beds" \in Ended(host) => HeatRead(beds, host.beds)
                  /\ Upto("chamber", chambers, host.chambers)
          /\ msg.rest = {} /\ "chambers" \in Ended(host) =>
                HeatRead(chambers, host.chambers)
    /\ Fresh("heat") =>
          /\ "beds" \in Ended(host) => HeatRead(beds, host.beds)
          /\ "chambers" \in Ended(host) => HeatRead(chambers, host.chambers)

(* Pointers: a tool points at its spindle from when its field "spindle" has *)
(* been read; a tool created later, in a list that was full, at none.       *)
Pointed(t) ==
    LET s == host.tools[t].spindle
    IN  \/ s \in DOMAIN spindles /\ tools[t].spindle = spindles[s]
        \/ (s = NoSpindle \/ "tools" \in crowded) /\ tools[t].spindle = Null
PointerInv ==
    /\ msg.list = "tools" => \A t \in DOMAIN tools \cap DOMAIN host.tools :
          t \in unfound \/ Left("spindle", t) \/ Pointed(t)
    /\ Fresh("tools") => \A t \in DOMAIN tools \cap DOMAIN host.tools :
          t \in unfound \/ Pointed(t)

(* Heaters of a tool: those there is room for, and none follows.            *)
NumbersRead(t) ==
    LET numbers == host.tools[t].heaters
    IN  \A i \in Places : i < Len(numbers) =>
            i \in DOMAIN tools[t].heaters /\ tools[t].heaters[i] = numbers[i + 1]
HeatersRead(t) ==
    NumbersRead(t) /\ Len(host.tools[t].heaters) \notin DOMAIN tools[t].heaters
HeatersInv ==
    ~meddled /\ "tools" \notin crowded =>
        /\ msg.list = "tools" => \A t \in DOMAIN host.tools :
              /\ \/ Left("heaters", t) \/ host.tools[t].heaters = <<>>
                 \/ t \in DOMAIN tools /\ NumbersRead(t)
              /\ Left("heatersEnd", t) \/ (t \in DOMAIN tools /\ HeatersRead(t))
        /\ Fresh("tools") => \A t \in DOMAIN tools \cap DOMAIN host.tools :
              HeatersRead(t)

(* What a column on display adjusts is there, once every list has been read *)
(* to its end, or never held anything, and none has become empty.           *)
IsThere(x, c) ==
    /\ x.kind = "rpm" => x.index \in host.spindles \cap DOMAIN spindles
    /\ x.kind = "tool" =>
          /\ x.index \in DOMAIN tools
          /\ (IF combined THEN 0 ELSE c - tools[x.index].slot)
                \in DOMAIN tools[x.index].heaters
    /\ x.kind = "bed" => x.index \in DOMAIN beds
    /\ x.kind = "chamber" => x.index \in DOMAIN chambers
Whole(l) == l \notin changed /\ (seqState[l] = "ok" \/ (msg.list = l /\ msg.rest = {}))
Unheld(l) == IF l = "heat" THEN used \cap {"beds", "chambers"} = {} ELSE l \notin used
AllRead ==
    /\ initialized /\ LeftOver = {}
    /\ Unheld("tools") \/ unfound = {}
    /\ \A l \in ListNames : Unheld(l) \/ Whole(l)
Shown == \A c \in Slots : columns[c].shown => IsThere(columns[c].field, c)
SeenInv == AllRead => Shown

(* The page is laid out for the lists as they are, once every list has been *)
(* read to its end and no live value can have added to them since.          *)
Placed == PlacedAs(tools, spindles, beds, chambers, combined, columns)
Calm == (\A l \in crowded : Unheld(l)) /\ (Unheld("tools") \/ ~meddled)
PlacedInv == AllRead /\ Calm => Placed

(* What was touched is the field of a column, and every list is as read.    *)
TouchInv ==
    adjusting.touched # NotAdjusting.touched =>
        /\ initialized /\ changed = {} /\ unfound = {} /\ LeftOver = {}
        /\ \A l \in ListNames : seqState[l] = "ok"
        /\ msg.list \in {"none", "status"}
        /\ columns[adjusting.slot].shown
        /\ columns[adjusting.slot].field = adjusting.touched

-----------------------------------------------------------------------------
(* The order in which an answer is read *)

End(l) == CASE l = "heat" -> Field("chambersEnd", 0)
            [] l = "tools" -> Field("toolsEnd", 0)
            [] l = "spindles" -> Field("spindlesEnd", 0)

LEMMA InOrder ==
    ASSUME TypeInv, NEW f \in msg.rest, IsNext(f),
           NEW g \in Answer(host, msg.list), g # f
    PROVE  IF g \in msg.rest THEN Precedes(f, g) ELSE Precedes(g, f)
<1>1. msg # NoMessage
  BY DEF NoMessage
<1> QED
  BY <1>1 DEF TypeInv, MessageInv, IsNext

LEMMA EndIsLast ==
    ASSUME NEW m \in Machines, NEW l \in ListNames, NEW g \in Answer(m, l)
    PROVE  ~Precedes(End(l), g) /\ End(l) \in Answer(m, l)
<1>0. /\ g.op = "bed" /\ g.i \in DOMAIN m.beds => "beds" \in Ended(m)
      /\ g.op = "chamber" /\ g.i \in DOMAIN m.chambers => "chambers" \in Ended(m)
      /\ g.i \in DOMAIN m.tools => "tools" \in Ended(m)
      /\ g.i \in m.spindles => "spindles" \in Ended(m)
      /\ "beds" \in Ended(m) => "chambers" \in Ended(m)
  BY EndedAre
<1>1. CASE l = "heat"
  <2>1. /\ \/ g.op \in {"bed", "bedsEnd", "chamber"}
           \/ g.op = "chambersEnd" /\ g.i = 0
        /\ "chambers" \in Ended(m)
    BY <1>0, <1>1, AnswerIs DEF SpindleOps, OtherToolOps
  <2>2. End(l) = Field("chambersEnd", 0)
    BY <1>1 DEF End
  <2> QED
    BY <1>1, <2>1, <2>2, AnswerHas, FieldIs DEF Precedes, Array, Rank
<1>2. CASE l = "tools"
  <2>1. /\ \/ g.op \in OtherToolOps \cup {"active"}
           \/ g.op = "toolsEnd" /\ g.i = 0
        /\ "tools" \in Ended(m)
    BY <1>0, <1>2, AnswerIs DEF SpindleOps
  <2>2. End(l) = Field("toolsEnd", 0)
    BY <1>2 DEF End
  <2> QED
    BY <1>2, <2>1, <2>2, AnswerHas, FieldIs DEF Precedes, Array, Rank, OtherToolOps
<1>3. CASE l = "spindles"
  <2>1. /\ \/ g.op \in SpindleOps
           \/ g.op = "spindlesEnd" /\ g.i = 0
        /\ "spindles" \in Ended(m)
    BY <1>0, <1>3, AnswerIs DEF OtherToolOps
  <2>2. End(l) = Field("spindlesEnd", 0)
    BY <1>3 DEF End
  <2> QED
    BY <1>3, <2>1, <2>2, AnswerHas, FieldIs DEF Precedes, Array, Rank, SpindleOps
<1> QED
  BY <1>1, <1>2, <1>3, Constants

(* The end of the answer is the last field, and nothing else is.            *)
LEMMA LastIs ==
    ASSUME TypeInv, NEW f \in msg.rest, IsNext(f), msg.list \in ListNames
    PROVE  msg.rest \ {f} = {} <=> f = End(msg.list)
<1>1. host \in Machines /\ msg # NoMessage
  BY DEF TypeInv, NoMessage
<1>2. msg.rest \subseteq Answer(host, msg.list)
  BY <1>1 DEF TypeInv, MessageInv
<1>3. ASSUME f = End(msg.list), NEW g \in msg.rest \ {f} PROVE FALSE
  <2>1. Precedes(f, g)
    BY <1>2, <1>3, InOrder
  <2> QED
    BY <1>1, <1>2, <1>3, <2>1, EndIsLast
<1>4. ASSUME msg.rest \ {f} = {} PROVE f = End(msg.list)
  <2> SUFFICES ASSUME f # End(msg.list) PROVE FALSE
    OBVIOUS
  <2>1. End(msg.list) \in Answer(host, msg.list) /\ End(msg.list) \notin msg.rest
    BY <1>1, <1>2, <1>4, EndIsLast
  <2>2. Precedes(End(msg.list), f)
    BY <2>1, InOrder
  <2> QED
    BY <1>1, <1>2, <2>2, EndIsLast
<1> QED
  BY <1>3, <1>4

-----------------------------------------------------------------------------
(* The steps that leave the lists as they are                               *)

Quiet ==
    /\ SameTools(tools) /\ spindles' = spindles /\ SameBeds /\ SameChambers
    /\ UNCHANGED <<unfound, crowded, meddled, lastSpindle>>
    /\ \A l \in ListNames :
          Fresh(l)' => Fresh(l) \/ (msg.list = l /\ msg.rest = {})
    /\ \/ msg' = NoMessage
       \/ msg'.list = "status" /\ msg'.rest = Answer(host', "status")
       \/ msg' = msg /\ host' = host
    /\ Fresh("tools")' => host'.tools = host.tools
    /\ Fresh("spindles")' => host'.spindles = host.spindles
    /\ Fresh("heat")' => host'.beds = host.beds /\ host'.chambers = host.chambers

LEMMA Unchanged ==
    ASSUME TypeInv, UNCHANGED <<lists, unfound, crowded, meddled, lastSpindle>>
    PROVE  /\ SameTools(tools) /\ spindles' = spindles /\ SameBeds /\ SameChambers
           /\ UNCHANGED <<unfound, crowded, meddled, lastSpindle>>
BY DEF lists, TypeInv, SameTools, SameBeds, SameChambers, SameHeaters

LEMMA QuietSteps ==
    ASSUME TypeInv, [Next]_vars, ~RequestList, ~Receive, ~SetInt
    PROVE  Quiet
<1>0. NoMessage.list \notin ListNames
  BY Constants DEF NoMessage
<1>1. CASE Reconfigure
  <2>1. /\ msg' = NoMessage /\ UNCHANGED seqState
        /\ UNCHANGED <<lists, unfound, crowded, meddled, lastSpindle>>
        /\ changed' = changed \cup Differing(host, host')
    BY <1>1 DEF Reconfigure, history
  <2>2. /\ "tools" \notin changed' => host'.tools = host.tools
        /\ "spindles" \notin changed' => host'.spindles = host.spindles
        /\ "heat" \notin changed' => host'.beds = host.beds /\ host'.chambers = host.chambers
    BY <2>1 DEF Differing
  <2> QED
    BY <2>1, <2>2, Unchanged DEF Quiet, Fresh
<1>2. CASE RequestStatus
  BY <1>2, RequestStatusDoes DEF Quiet, Fresh
<1>3. CASE RequestTimeout
  <2>1. /\ msg'.list = "status" /\ msg'.rest = Answer(host', "status")
        /\ UNCHANGED <<host, changed, seqState>>
        /\ UNCHANGED <<lists, unfound, crowded, meddled, lastSpindle>>
    BY <1>3 DEF RequestTimeout, protocol, Started
  <2> QED
    BY <2>1, Unchanged DEF Quiet, Fresh
<1>4. CASE Reconnect
  <2>1. /\ msg' = msg /\ host' = host /\ changed' = ListNames
        /\ UNCHANGED <<lists, unfound, crowded, meddled, lastSpindle>>
    BY <1>4 DEF Reconnect
  <2> QED
    BY <2>1, Unchanged, Constants DEF Quiet, Fresh
<1>5. CASE CutShort
  <2>1. /\ msg' = NoMessage /\ UNCHANGED <<host, changed>>
        /\ UNCHANGED <<lists, unfound, crowded, meddled, lastSpindle>>
        /\ \A l \in ListNames : seqState'[l] = "ok" => seqState[l] = "ok"
    BY <1>5 DEF CutShort, TypeInv
  <2> QED
    BY <2>1, Unchanged DEF Quiet, Fresh
<1>6. CASE EndReceivedMessage
  <2>1. /\ msg' = NoMessage /\ UNCHANGED <<host, changed>> /\ msg.rest = {}
        /\ UNCHANGED <<lists, unfound, crowded, meddled, lastSpindle>>
        /\ \A l \in ListNames : seqState'[l] = "ok" => seqState[l] = "ok" \/ msg.list = l
    BY <1>6 DEF EndReceivedMessage, TypeInv, history
  <2> QED
    BY <2>1, Unchanged DEF Quiet, Fresh
<1>7. CASE Adjust \/ PopupsCleared \/ UNCHANGED vars
  <2>1. /\ UNCHANGED <<host, changed, seqState, msg>>
        /\ UNCHANGED <<lists, unfound, crowded, meddled, lastSpindle>>
    BY <1>7 DEF Adjust, PopupsCleared, vars, protocol, history
  <2> QED
    BY <2>1, Unchanged DEF Quiet, Fresh
<1>8. CASE ChangeHeaterCombineType
  <2>1. UNCHANGED <<host, changed, seqState, msg, unfound, crowded, meddled, lastSpindle>>
    BY <1>8, CombineDoes DEF protocol, history
  <2> QED
    BY <2>1, <1>8, CombineDoes DEF Quiet, Fresh
<1> QED
  BY <1>1, <1>2, <1>3, <1>4, <1>5, <1>6, <1>7, <1>8 DEF Next, Step, Poll, User

-----------------------------------------------------------------------------
(* The fields of an answer *)

LEMMA ActionOf ==
    ASSUME NEW f, ReceiveField(f)
    PROVE  /\ f.op = "seqs" => ReceiveSeqs(f)
           /\ f.op = "active" => UpdateToolTemps(f)
           /\ f.op \in {"extruders", "offsets"} => SetToolExtruderOrOffset(f)
           /\ f.op = "heaters" => SetToolHeaters(f)
           /\ f.op = "heatersEnd" => RemoveToolHeaters(f)
           /\ f.op = "number" => ReceiveToolNumber(f)
           /\ f.op = "spindle" => SetToolSpindle(f)
           /\ f.op = "toolsEnd" => EndOfTools(f)
           /\ f.op = "spActive" => SetSpindleActive(f)
           /\ f.op = "spCurrent" => SetSpindleCurrent(f)
           /\ f.op = "spindlesEnd" => EndOfSpindles(f)
           /\ f.op = "bed" => SetBedHeater(f)
           /\ f.op = "bedsEnd" => EndOfBeds(f)
           /\ f.op = "chamber" => SetChamberHeater(f)
           /\ f.op = "chambersEnd" => EndOfChambers(f)
           /\ f.op \in {"seqs", "active", "extruders", "offsets", "heaters",
                        "heatersEnd", "number", "spindle", "toolsEnd", "spActive",
                        "spCurrent", "spindlesEnd", "bed", "bedsEnd", "chamber",
                        "chambersEnd"}
<1> USE DEF UpdateToolTemps, SetToolExtruderOrOffset, SetToolHeaters,
            RemoveToolHeaters, ReceiveToolNumber, SetToolSpindle, EndOfTools,
            SetSpindleActive, SetSpindleCurrent, EndOfSpindles, SetBedHeater,
            EndOfBeds, SetChamberHeater, EndOfChambers, ReceiveSeqs
<1>1. CASE ReceiveSeqs(f)
  BY <1>1
<1>2. CASE ReceiveToolField(f)
  BY <1>2 DEF ReceiveToolField
<1>3. CASE ReceiveSpindleField(f)
  BY <1>3 DEF ReceiveSpindleField
<1>4. CASE ReceiveHeatField(f)
  BY <1>4 DEF ReceiveHeatField
<1> QED
  BY <1>1, <1>2, <1>3, <1>4 DEF ReceiveField

ToolChanges == {"active", "extruders", "offsets", "heaters", "heatersEnd", "spindle"}

(* What a field is not about stays as it is.                                *)
LEMMA OtherLists ==
    ASSUME TypeInv, NEW f \in msg.rest, IsNext(f), ReceiveField(f)
    PROVE  /\ f.op \notin {"spActive", "spCurrent", "spindlesEnd"} => spindles' = spindles
           /\ f.op \notin ToolChanges \cup {"number", "toolsEnd"} => SameTools(tools)
           /\ f.op \notin {"bed", "bedsEnd"} => SameBeds
           /\ f.op \notin {"chamber", "chambersEnd"} => SameChambers
           /\ \A l \in ListNames : Fresh(l)' => Fresh(l)
<1>0. /\ tools \in ToolLists /\ beds \in BedLists /\ chambers \in ChamberLists
      /\ tools' = tools => SameTools(tools)
      /\ beds' = beds => SameBeds
      /\ chambers' = chambers => SameChambers
  BY DEF TypeInv, SameTools, SameBeds, SameChambers, SameHeaters
<1>1. CASE f.op = "seqs"
  <2>1. ReceiveSeqs(f)
    BY <1>1, ActionOf
  <2>2. UNCHANGED <<tools, spindles, beds, chambers>>
    BY <2>1 DEF ReceiveSeqs, lists
  <2>3. \A l \in ListNames : Fresh(l)' => Fresh(l)
    BY <2>1 DEF ReceiveSeqs, Fresh
  <2> QED
    BY <1>0, <2>2, <2>3
<1>2. CASE f.op # "seqs"
  <2>1. \A l \in ListNames : Fresh(l)' => Fresh(l)
    BY <1>2, Received DEF Fresh
  <2>2. CASE f.op \in ToolChanges
    <3>1. spindles' = spindles /\ SameBeds /\ SameChambers
      BY <1>0, <2>2, ActionOf, ActiveDoes, OtherFieldDoes, HeatersDo, HeatersEndDoes,
         SpindleDoes DEF OtherListsSame, ToolChanges
    <3> QED
      BY <2>1, <2>2, <3>1 DEF ToolChanges
  <2>3. CASE f.op \in {"number", "toolsEnd"}
    <3>1. spindles' = spindles /\ SameBeds /\ SameChambers
      BY <1>0, <2>3, ActionOf, NumberDoes, ToolsEndDoes DEF OtherListsSame
    <3> QED
      BY <2>1, <2>3, <3>1
  <2>4. CASE f.op \in {"spActive", "spCurrent", "spindlesEnd"}
    <3>1. SameTools(tools) /\ SameBeds /\ SameChambers
      BY <1>0, <2>4, ActionOf, SpActiveDoes, SpCurrentDoes, SpindlesEndDoes
    <3> QED
      BY <2>1, <2>4, <3>1
  <2>5. CASE f.op \in {"bed", "bedsEnd"}
    <3>1. SameTools(tools) /\ spindles' = spindles /\ SameChambers
      BY <1>0, <2>5, ActionOf, BedDoes, BedsEndDoes
    <3> QED
      BY <2>1, <2>5, <3>1
  <2>6. CASE f.op \in {"chamber", "chambersEnd"}
    <3>1. SameTools(tools) /\ spindles' = spindles /\ SameBeds
      BY <1>0, <2>6, ActionOf, ChamberDoes, ChambersEndDoes
    <3> QED
      BY <2>1, <2>6, <3>1
  <2> QED
    BY <1>2, <2>2, <2>3, <2>4, <2>5, <2>6, ActionOf DEF ToolChanges
<1> QED
  BY <1>1, <1>2

LEMMA RoomLeft ==
    ASSUME NEW D, IsFiniteSet(D), NEW H, IsFiniteSet(H),
           Cardinality(D \cup H) <= MaxSlots
    PROVE  /\ \A i \in H \ D : Cardinality(D) < MaxSlots
           /\ \A E : E \subseteq D \cup H => Cardinality(E \cup H) <= MaxSlots
<1>1. IsFiniteSet(D \cup H) /\ Cardinality(D \cup H) \in Nat
  BY FS_Union, FS_CardinalityType
<1>2. ASSUME NEW i \in H \ D PROVE Cardinality(D) < MaxSlots
  <2>1. IsFiniteSet(D \cup {i}) /\ Cardinality(D \cup {i}) = Cardinality(D) + 1
    BY FS_AddElement
  <2>2. D \cup {i} \subseteq D \cup H
    OBVIOUS
  <2>3. Cardinality(D \cup {i}) <= Cardinality(D \cup H)
    BY <1>1, <2>2, FS_Subset
  <2>4. Cardinality(D) \in Nat
    BY FS_CardinalityType
  <2> QED
    BY <1>1, <2>1, <2>3, <2>4, Constants
<1>3. ASSUME NEW E, E \subseteq D \cup H PROVE Cardinality(E \cup H) <= MaxSlots
  <2>1. E \cup H \subseteq D \cup H
    BY <1>3
  <2>2. /\ Cardinality(E \cup H) <= Cardinality(D \cup H)
        /\ Cardinality(E \cup H) \in Nat
    BY <1>1, <2>1, FS_Subset, FS_CardinalityType
  <2> QED
    BY <1>1, <2>2, Constants
<1> QED
  BY <1>2, <1>3

-----------------------------------------------------------------------------
(* Spindles *)

LEMMA ListsFinite ==
    ASSUME TypeInv
    PROVE  /\ IsFiniteSet(DOMAIN spindles) /\ DOMAIN spindles \subseteq SpindleIds
           /\ IsFiniteSet(host.spindles) /\ host.spindles \subseteq SpindleIds
           /\ IsFiniteSet(DOMAIN tools) /\ DOMAIN tools \subseteq ToolIds
           /\ IsFiniteSet(DOMAIN host.tools) /\ DOMAIN host.tools \subseteq ToolIds
           /\ IsFiniteSet(DOMAIN beds) /\ DOMAIN beds \subseteq BedIds
           /\ IsFiniteSet(DOMAIN host.beds) /\ DOMAIN host.beds \subseteq BedIds
           /\ IsFiniteSet(DOMAIN chambers) /\ DOMAIN chambers \subseteq ChamberIds
           /\ IsFiniteSet(DOMAIN host.chambers) /\ DOMAIN host.chambers \subseteq ChamberIds
           /\ host \in Machines /\ lastSpindle \in Int
           /\ SpindleIds \subseteq Nat /\ ToolIds \subseteq Nat
           /\ BedIds \subseteq Nat /\ ChamberIds \subseteq Nat
<1>1. host \in Machines /\ lastSpindle \in {-1} \cup SpindleIds
  BY DEF TypeInv
<1>2. /\ IsFiniteSet(DOMAIN spindles) /\ DOMAIN spindles \subseteq SpindleIds
      /\ IsFiniteSet(DOMAIN tools) /\ DOMAIN tools \subseteq ToolIds
      /\ IsFiniteSet(DOMAIN beds) /\ DOMAIN beds \subseteq BedIds
      /\ IsFiniteSet(DOMAIN chambers) /\ DOMAIN chambers \subseteq ChamberIds
  BY Listed DEF TypeInv, ToolLists, SpindleLists, BedLists, ChamberLists
<1> QED
  BY <1>1, <1>2, OfMachines, Constants

(* A spindle of the machine is never removed.                               *)
LEMMA SpindlesStay ==
    ASSUME TypeInv, SpindleInv, NEW f \in msg.rest, IsNext(f), ReceiveField(f)
    PROVE  \A s \in DOMAIN spindles \cap host.spindles :
              s \in DOMAIN spindles' /\ spindles'[s] = spindles[s]
<1>0. /\ DOMAIN spindles \subseteq Nat /\ host.spindles \subseteq Nat /\ lastSpindle \in Int
      /\ host \in Machines
  BY ListsFinite
<1>1. /\ f \in Answer(host, msg.list) /\ msg.list \in ListNames \cup {"status"}
  BY Received
<1>2. CASE f.op = "spActive"
  <2>1. SpindlesBecome(f.i, Skipped(lastSpindle, f.i)) /\ f.i \in host.spindles
    BY <1>2, ActionOf, SpActiveDoes, SpindleFieldOf
  <2>2. msg.list \in {"spindles", "status"} /\ f = Field("spActive", f.i)
    BY <1>0, <1>1, <1>2, AnswerIs DEF OtherToolOps
  <2>3. ASSUME NEW s \in host.spindles PROVE s \notin Skipped(lastSpindle, f.i)
    <3> SUFFICES ASSUME s > lastSpindle, s < f.i PROVE FALSE
      BY <1>0, <2>1 DEF Skipped
    <3>1. Field("spActive", s) \in msg.rest
      BY <1>0, <2>2 DEF SpindleInv, Left
    <3>2. Field("spActive", s) # f
      BY <2>1, <1>0, FieldIs
    <3>3. Precedes(f, Field("spActive", s))
      BY <3>1, <3>2 DEF IsNext
    <3> QED
      BY <3>3, <2>1, <2>2, <1>0, Order
  <2> QED
    BY <2>1, <2>3 DEF SpindlesBecome
<1>3. CASE f.op = "spCurrent"
  BY <1>3, ActionOf, SpCurrentDoes DEF SpindlesBecome
<1>4. CASE f.op = "spindlesEnd"
  <2>1. SpindlesBecome(-1, AllFollowing(spindles, lastSpindle + 1) \cup {-1})
    BY <1>4, ActionOf, SpindlesEndDoes
  <2>2. msg.list = "spindles" /\ f = Field("spindlesEnd", 0)
    BY <1>0, <1>1, <1>4, AnswerIs DEF OtherToolOps, SpindleOps
  <2>3. ASSUME NEW s \in host.spindles PROVE s <= lastSpindle
    <3> SUFFICES ASSUME Field("spActive", s) \in msg.rest PROVE FALSE
      BY <2>2 DEF SpindleInv, Left
    <3>1. Precedes(f, Field("spActive", s))
      BY <2>2, FieldIs DEF IsNext
    <3> QED
      BY <3>1, <2>2, <1>0, Order
  <2> QED
    BY <1>0, <2>1, <2>3 DEF SpindlesBecome, AllFollowing
<1>5. CASE f.op \notin {"spActive", "spCurrent", "spindlesEnd"}
  BY <1>5, OtherLists
<1> QED
  BY <1>2, <1>3, <1>4, <1>5

LEMMA SpindlesReceived ==
    ASSUME TypeInv, SpindleInv, NEW f \in msg.rest, IsNext(f), ReceiveField(f)
    PROVE  SpindleInv'
<1>0. /\ DOMAIN spindles \subseteq Nat /\ host.spindles \subseteq Nat /\ lastSpindle \in Int
      /\ host \in Machines /\ IsFiniteSet(DOMAIN spindles) /\ IsFiniteSet(host.spindles)
  BY ListsFinite
<1>1. /\ f \in Answer(host, msg.list) /\ msg.list \in ListNames \cup {"status"}
      /\ host' = host /\ crowded' = crowded
      /\ msg'.list = msg.list /\ msg'.rest = msg.rest \ {f}
      /\ f.op # "spActive" => lastSpindle' = lastSpindle
  BY Received
<1>2. \A s \in DOMAIN spindles \cap host.spindles : s \in DOMAIN spindles'
  BY SpindlesStay
<1>3. Fresh("spindles")' => Fresh("spindles")
  BY OtherLists, Constants
<1>4. msg.list = "spindles" /\ msg.rest \ {f} = {} => f.op = "spindlesEnd"
  BY LastIs, FieldIs, Constants DEF End
<1>5. CASE f.op \in SpindleOps
  <2>1. /\ f.i \in host.spindles /\ f.i \in Nat /\ f = Field(f.op, f.i)
        /\ DOMAIN spindles' \subseteq DOMAIN spindles \cup {f.i}
        /\ HasRoom(spindles) \/ f.i \in DOMAIN spindles => f.i \in DOMAIN spindles'
    <3>1. f.op = "spActive" \/ f.op = "spCurrent"
      BY <1>5 DEF SpindleOps
    <3>2. CASE f.op = "spActive"
      <4>1. SpindlesBecome(f.i, Skipped(lastSpindle, f.i)) /\ f.i \in host.spindles
        BY <3>2, ActionOf, SpActiveDoes, SpindleFieldOf
      <4>2. f.i \notin Skipped(lastSpindle, f.i)
        BY <4>1, <1>0 DEF Skipped
      <4> QED
        BY <4>1, <4>2, <1>0, <1>1, AnswerIs DEF SpindlesBecome
    <3>3. CASE f.op = "spCurrent"
      <4>1. SpindlesBecome(f.i, {}) /\ f.i \in host.spindles
        BY <3>3, ActionOf, SpCurrentDoes, SpindleFieldOf
      <4> QED
        BY <4>1, <1>0, <1>1, AnswerIs DEF SpindlesBecome
    <3> QED
      BY <3>1, <3>2, <3>3
  <2>2. f.op = "spActive" => /\ lastSpindle' = f.i
                             /\ \A s \in DOMAIN spindles' : s <= f.i => s <= lastSpindle \/ s = f.i
    <3> SUFFICES ASSUME f.op = "spActive"
                 PROVE  /\ lastSpindle' = f.i
                        /\ \A s \in DOMAIN spindles' :
                              s <= f.i => s <= lastSpindle \/ s = f.i
      OBVIOUS
    <3>1. SpindlesBecome(f.i, Skipped(lastSpindle, f.i)) /\ lastSpindle' = f.i
      BY ActionOf, SpActiveDoes
    <3> QED
      BY <3>1, <2>1, <1>0 DEF SpindlesBecome, Skipped
  <2>3. ASSUME NEW s \in host.spindles, msg.list \in {"spindles", "status"}
        PROVE  Left("spActive", s)' \/ s <= lastSpindle'
    <3>1. Left("spActive", s) \/ s <= lastSpindle
      BY <2>3 DEF SpindleInv
    <3>2. CASE f.op = "spActive"
      <4>1. CASE Field("spActive", s) = f
        BY <4>1, <3>2, <2>1, <2>2, <1>0, FieldIs
      <4>2. CASE Field("spActive", s) # f /\ Left("spActive", s)
        BY <4>2, <1>1 DEF Left
      <4>3. CASE s <= lastSpindle /\ ~Left("spActive", s)
        <5>1. Field("spActive", s) \in Answer(host, msg.list) /\ Field("spActive", s) # f
          BY <2>3, <4>3, <1>0, AnswerHas DEF Left
        <5>2. Precedes(Field("spActive", s), f)
          BY <5>1, <4>3, InOrder DEF Left
        <5>3. s < f.i
          BY <5>2, <3>2, <2>1, <1>0, Order
        <5> QED
          BY <5>3, <3>2, <2>1, <2>2, <1>0
      <4> QED
        BY <3>1, <4>1, <4>2, <4>3
    <3>3. CASE f.op = "spCurrent"
      BY <3>1, <3>3, <1>1, FieldIs DEF Left
    <3> QED
      BY <3>2, <3>3, <1>5 DEF SpindleOps
  <2>4. ASSUME msg.list = "spindles", NEW s \in DOMAIN spindles', s <= lastSpindle'
        PROVE  s \in host.spindles
    <3>1. s = f.i \/ (s \in DOMAIN spindles /\ s <= lastSpindle)
      BY <2>1, <2>2, <2>4, <1>1, <1>5 DEF SpindleOps
    <3> QED
      BY <3>1, <2>1, <2>4 DEF SpindleInv
  <2>5. ASSUME msg.list = "spindles", "spindles" \notin crowded
        PROVE  /\ Cardinality(DOMAIN spindles' \cup host.spindles) <= MaxSlots
               /\ \A s \in host.spindles : Left("spActive", s)' \/ s \in DOMAIN spindles'
    <3>1. /\ Cardinality(DOMAIN spindles \cup host.spindles) <= MaxSlots
          /\ \A s \in host.spindles : Left("spActive", s) \/ s \in DOMAIN spindles
      BY <2>5 DEF SpindleInv
    <3>2. Cardinality(DOMAIN spindles' \cup host.spindles) <= MaxSlots
      <4>1. DOMAIN spindles' \subseteq DOMAIN spindles \cup host.spindles
        BY <2>1
      <4> QED
        BY <4>1, <3>1, <1>0, RoomLeft
    <3>3. f.i \in DOMAIN spindles'
      <4>1. HasRoom(spindles) \/ f.i \in DOMAIN spindles
        BY <3>1, <2>1, <1>0, RoomLeft DEF HasRoom
      <4> QED
        BY <4>1, <2>1
    <3>4. \A s \in host.spindles : Left("spActive", s)' \/ s \in DOMAIN spindles'
      BY <3>1, <3>3, <1>1, <1>2, FieldIs DEF Left
    <3> QED
      BY <3>2, <3>4
  <2>6. Fresh("spindles") =>
            /\ "spindles" \in Ended(host) => DOMAIN spindles' \subseteq host.spindles
            /\ "spindles" \notin crowded => host.spindles \subseteq DOMAIN spindles'
    BY <2>1, <1>2 DEF SpindleInv
  <2>7. ~(msg.list = "spindles" /\ msg.rest \ {f} = {})
    BY <1>4, <1>5 DEF SpindleOps
  <2> QED
    BY <1>1, <1>3, <2>3, <2>4, <2>5, <2>6, <2>7 DEF SpindleInv
<1>6. CASE f.op = "spindlesEnd"
  <2>1. SpindlesBecome(-1, AllFollowing(spindles, lastSpindle + 1) \cup {-1})
    BY <1>6, ActionOf, SpindlesEndDoes
  <2>2. DOMAIN spindles' \subseteq {s \in DOMAIN spindles : s <= lastSpindle}
    BY <2>1, <1>0 DEF SpindlesBecome, AllFollowing
  <2>3. \A s : Left("spActive", s)' <=> Left("spActive", s)
    BY <1>1, <1>6, FieldIs DEF Left
  <2>4. "spindles" \notin crowded /\ msg.list = "spindles" =>
            Cardinality(DOMAIN spindles' \cup host.spindles) <= MaxSlots
    <3> SUFFICES ASSUME "spindles" \notin crowded, msg.list = "spindles"
                 PROVE  Cardinality(DOMAIN spindles' \cup host.spindles) <= MaxSlots
      OBVIOUS
    <3>1. Cardinality(DOMAIN spindles \cup host.spindles) <= MaxSlots
      BY DEF SpindleInv
    <3>2. DOMAIN spindles' \subseteq DOMAIN spindles \cup host.spindles
      BY <2>2
    <3> QED
      BY <3>1, <3>2, <1>0, RoomLeft
  <2>5. msg.list = "spindles"
    BY <1>0, <1>1, <1>6, AnswerIs DEF OtherToolOps, SpindleOps
  <2> QED
    BY <1>1, <1>2, <1>3, <1>6, <2>2, <2>3, <2>4, <2>5 DEF SpindleInv
<1>7. CASE f.op \notin SpindleOps \cup {"spindlesEnd"}
  <2>1. spindles' = spindles /\ lastSpindle' = lastSpindle
    BY <1>1, <1>7, OtherLists DEF SpindleOps
  <2>2. \A s : Left("spActive", s)' <=> Left("spActive", s)
    BY <1>1, <1>7, FieldIs DEF Left, SpindleOps
  <2> QED
    BY <1>1, <1>3, <1>4, <1>7, <2>1, <2>2 DEF SpindleInv
<1> QED
  BY <1>5, <1>6, <1>7

LEMMA Steps ==
    ASSUME TypeInv, [Next]_vars
    PROVE  \/ Quiet \/ RequestList \/ SetInt
           \/ \E f \in msg.rest : IsNext(f) /\ ReceiveField(f)
BY QuietSteps, ReceiveIs

LEMMA SpindlesQuiet ==
    ASSUME TypeInv, TypeInv', SpindleInv, Quiet
    PROVE  SpindleInv'
<1>1. spindles' = spindles /\ UNCHANGED <<crowded, lastSpindle>>
  BY DEF Quiet
<1>2. /\ msg'.list \in {"spindles", "status"} =>
            \A s \in host'.spindles : Left("spActive", s)' \/ s <= lastSpindle'
      /\ msg'.list = "spindles" => msg' = msg /\ host' = host
  <2>1. CASE msg' = NoMessage
    BY <2>1 DEF NoMessage
  <2>2. CASE msg'.list = "status" /\ msg'.rest = Answer(host', "status")
    <3>1. host' \in Machines
      BY DEF TypeInv
    <3> QED
      BY <2>2, <3>1, AnswerHas DEF Left
  <2>3. CASE msg' = msg /\ host' = host
    BY <2>3, <1>1 DEF SpindleInv, Left
  <2> QED
    BY <2>1, <2>2, <2>3 DEF Quiet
<1>3. ASSUME msg'.list = "spindles"
      PROVE  /\ \A s \in DOMAIN spindles' : s <= lastSpindle' => s \in host'.spindles
             /\ msg'.rest = {} /\ "spindles" \in Ended(host') =>
                   DOMAIN spindles' \subseteq host'.spindles
             /\ "spindles" \notin crowded' =>
                   /\ Cardinality(DOMAIN spindles' \cup host'.spindles) <= MaxSlots
                   /\ \A s \in host'.spindles : Left("spActive", s)' \/ s \in DOMAIN spindles'
  BY <1>1, <1>2, <1>3 DEF SpindleInv, Left
<1>4. ASSUME Fresh("spindles")'
      PROVE  /\ "spindles" \in Ended(host') => DOMAIN spindles' \subseteq host'.spindles
             /\ "spindles" \notin crowded' => host'.spindles \subseteq DOMAIN spindles'
  <2>1. Fresh("spindles") \/ (msg.list = "spindles" /\ msg.rest = {})
    BY <1>4, Constants DEF Quiet
  <2>2. /\ host'.spindles = host.spindles
        /\ "spindles" \in Ended(host') => "spindles" \in Ended(host)
    BY <1>4, EndedSame DEF Quiet, TypeInv
  <2> QED
    BY <1>1, <2>1, <2>2 DEF SpindleInv, Left
<1> QED
  BY <1>2, <1>3, <1>4 DEF SpindleInv

LEMMA SpindlesRequested ==
    ASSUME TypeInv, SpindleInv, RequestList
    PROVE  SpindleInv'
<1>0. /\ DOMAIN spindles \subseteq Nat /\ IsFiniteSet(DOMAIN spindles)
      /\ IsFiniteSet(host.spindles) /\ host \in Machines
  BY ListsFinite
<1>1. PICK l \in ListNames :
          /\ seqState[l] = "due"
          /\ \A n \in ListNames : seqState'[n] = "ok" <=> seqState[n] = "ok"
          /\ msg'.list = l /\ msg'.rest = Answer(host, l)
          /\ lastSpindle' = IF l = "spindles" THEN -1 ELSE lastSpindle
          /\ crowded' = IF Crowding(l) THEN crowded \cup {l} ELSE crowded \ {l}
          /\ UNCHANGED <<host, changed, lists>>
  BY RequestListDoes
<1>2. spindles' = spindles
  BY <1>1 DEF lists
<1>3. Fresh("spindles")' => Fresh("spindles") /\ l # "spindles"
  BY <1>1, Constants DEF Fresh
<1>4. l = "spindles" /\ "spindles" \notin crowded' =>
          Cardinality(DOMAIN spindles \cup host.spindles) <= MaxSlots
  <2> SUFFICES ASSUME l = "spindles", "spindles" \notin crowded'
               PROVE  Cardinality(DOMAIN spindles \cup host.spindles) <= MaxSlots
    OBVIOUS
  <2>1. ~Crowding("spindles")
    BY <1>1
  <2>2. ~(Cardinality(DOMAIN spindles \cup host.spindles) > MaxSlots)
    BY <2>1 DEF Crowding
  <2>3. Cardinality(DOMAIN spindles \cup host.spindles) \in Nat
    BY <1>0, FS_Union, FS_CardinalityType
  <2> QED
    BY <2>2, <2>3, Constants
<1>5. l = "spindles" => /\ \A s \in host.spindles : Left("spActive", s)'
                        /\ "spindles" \in Ended(host) => msg'.rest # {}
  BY <1>0, <1>1, AnswerHas DEF Left
<1>6. l # "status"
  BY <1>1, Constants
<1> QED
  BY <1>0, <1>1, <1>2, <1>3, <1>4, <1>5, <1>6 DEF SpindleInv

LEMMA SpindlesKept == TypeInv /\ TypeInv' /\ SpindleInv /\ [Next]_vars => SpindleInv'
<1> SUFFICES ASSUME TypeInv, TypeInv', SpindleInv, [Next]_vars PROVE SpindleInv'
  OBVIOUS
<1>1. CASE SetInt
  <2>1. spindles' = spindles
        /\ UNCHANGED <<host, changed, seqState, msg, crowded, lastSpindle>>
    BY <1>1, SetIntDoes DEF OtherListsSame, protocol
  <2> QED
    BY <2>1 DEF SpindleInv, Left, Fresh
<1> QED
  BY <1>1, Steps, SpindlesQuiet, SpindlesRequested, SpindlesReceived

LEMMA SpindlesInit == Init => SpindleInv
BY Constants DEF Init, SpindleInv, NoMessage, Fresh

-----------------------------------------------------------------------------
(* Tools *)

LEMMA ToolChangesDo ==
    ASSUME TypeInv, NEW f \in msg.rest, IsNext(f), ReceiveField(f), f.op \in ToolChanges
    PROVE  /\ f.i \in DOMAIN host.tools /\ f.i \in Nat /\ f = Field(f.op, f.i)
           /\ msg.list = "tools" \/ (msg.list = "status" /\ f.op = "active")
           /\ \E x \in Tools : ToolsBecome(f.i, x)
<1>1. /\ f \in Answer(host, msg.list) /\ msg.list \in ListNames \cup {"status"}
      /\ host \in Machines
  BY Received DEF TypeInv
<1>2. f.i \in DOMAIN host.tools /\ f.i \in ToolIds
  BY ActionOf, ToolFieldOf DEF ToolChanges
<1>3. f = Field(f.op, f.i)
      /\ (msg.list = "tools" \/ (msg.list = "status" /\ f.op = "active"))
  BY <1>1, AnswerIs DEF ToolChanges, OtherToolOps, SpindleOps
<1>4. \E x \in Tools : ToolsBecome(f.i, x)
  <2>1. CASE f.op = "active"
    BY <2>1, <1>2, ActionOf, ActiveDoes, ToolFieldsAre
  <2>2. CASE f.op \in {"extruders", "offsets"}
    BY <2>2, <1>2, ActionOf, OtherFieldDoes, ToolFieldsAre
  <2>3. CASE f.op = "heaters"
    BY <2>3, <1>2, ActionOf, HeatersDo, ToolFieldsAre
  <2>4. CASE f.op = "heatersEnd"
    BY <2>4, <1>2, ActionOf, HeatersEndDoes, ToolFieldsAre
  <2>5. CASE f.op = "spindle"
    BY <2>5, <1>2, ActionOf, SpindleDoes, ToolFieldsAre
  <2> QED
    BY <2>1, <2>2, <2>3, <2>4, <2>5 DEF ToolChanges
<1> QED
  BY <1>2, <1>3, <1>4, Constants

(* A tool of the machine is never removed.                                  *)
LEMMA ToolsStay ==
    ASSUME TypeInv, ToolInv, NEW f \in msg.rest, IsNext(f), ReceiveField(f)
    PROVE  /\ DOMAIN tools \cap DOMAIN host.tools \subseteq DOMAIN tools'
           /\ f.op \notin ToolChanges => DOMAIN tools' \subseteq DOMAIN tools
<1>0. DOMAIN tools \subseteq Nat /\ DOMAIN host.tools \subseteq Nat /\ host \in Machines
  BY ListsFinite
<1>1. /\ f \in Answer(host, msg.list) /\ msg.list \in ListNames \cup {"status"}
      /\ tools \in ListsOf(ToolIds, Tools)
  BY Received DEF TypeInv, ToolLists
<1>2. CASE f.op \in ToolChanges
  BY <1>2, ToolChangesDo DEF ToolsBecome
<1>3. CASE f.op = "number"
  <2>1. SameTools(Without(tools, Skipped(msg.last, f.i))) /\ f.i \in DOMAIN host.tools
    BY <1>3, ActionOf, NumberDoes, ToolFieldOf
  <2>2. DOMAIN tools' = DOMAIN tools \ Skipped(msg.last, f.i)
    BY <2>1 DEF SameTools, Without, Restrict
  <2>3. msg.list = "tools" /\ f = Field("number", f.i)
    BY <1>0, <1>1, <1>3, AnswerIs DEF SpindleOps
  <2>4. ASSUME NEW t \in DOMAIN host.tools PROVE t \notin Skipped(msg.last, f.i)
    <3>0. msg.last \in Int
      BY <2>3 DEF ToolInv
    <3> SUFFICES ASSUME t > msg.last, t < f.i PROVE FALSE
      BY <1>0, <2>1, <3>0 DEF Skipped
    <3>1. Field("number", t) \in msg.rest
      BY <1>0, <2>3, <3>0 DEF ToolInv, Left
    <3>2. Field("number", t) # f
      BY <2>1, <1>0, FieldIs
    <3>3. Precedes(f, Field("number", t))
      BY <3>1, <3>2 DEF IsNext
    <3> QED
      BY <3>3, <2>1, <2>3, <1>0, Order
  <2> QED
    BY <2>2, <2>4
<1>4. CASE f.op = "toolsEnd"
  <2>1. SameTools(Without(tools, AllFollowing(tools, msg.last + 1)))
    BY <1>4, ActionOf, ToolsEndDoes
  <2>2. DOMAIN tools' = DOMAIN tools \ AllFollowing(tools, msg.last + 1)
    BY <2>1 DEF SameTools, Without, Restrict
  <2>3. msg.list = "tools" /\ f = Field("toolsEnd", 0)
    BY <1>0, <1>1, <1>4, AnswerIs DEF OtherToolOps, SpindleOps
  <2>4. ASSUME NEW t \in DOMAIN host.tools PROVE t <= msg.last /\ msg.last \in Int
    <3> SUFFICES ASSUME Field("number", t) \in msg.rest PROVE FALSE
      BY <2>3 DEF ToolInv, Left
    <3>1. Precedes(f, Field("number", t))
      BY <2>3, FieldIs DEF IsNext
    <3> QED
      BY <3>1, <2>3, <1>0, Order
  <2>5. ASSUME NEW t \in DOMAIN host.tools PROVE t \notin AllFollowing(tools, msg.last + 1)
    BY <2>4, <1>0 DEF AllFollowing
  <2> QED
    BY <2>2, <2>5
<1>5. CASE f.op \notin ToolChanges \cup {"number", "toolsEnd"}
  BY <1>5, OtherLists DEF SameTools
<1> QED
  BY <1>2, <1>3, <1>4, <1>5 DEF ToolChanges

LEMMA ToolsReceived ==
    ASSUME TypeInv, ToolInv, NEW f \in msg.rest, IsNext(f), ReceiveField(f)
    PROVE  ToolInv'
<1>0. /\ DOMAIN tools \subseteq Nat /\ DOMAIN host.tools \subseteq Nat
      /\ host \in Machines /\ IsFiniteSet(DOMAIN tools) /\ IsFiniteSet(DOMAIN host.tools)
  BY ListsFinite
<1>1. /\ f \in Answer(host, msg.list) /\ msg.list \in ListNames \cup {"status"}
      /\ host' = host /\ crowded' = crowded
      /\ msg'.list = msg.list /\ msg'.rest = msg.rest \ {f}
      /\ f.op \notin {"number", "bed", "chamber", "bedsEnd"} => msg'.last = msg.last
      /\ f.op = "number" => msg'.last = f.i
  BY Received
<1>2. DOMAIN tools \cap DOMAIN host.tools \subseteq DOMAIN tools'
  BY ToolsStay
<1>3. Fresh("tools")' => Fresh("tools")
  BY OtherLists, Constants
<1>4. msg.list = "tools" => /\ msg.rest \ {f} = {} => f.op = "toolsEnd"
                            /\ f = Field(f.op, f.i)
                            /\ f.op \notin {"bed", "chamber", "bedsEnd"}
  <2>1. msg.list = "tools" /\ msg.rest \ {f} = {} => f.op = "toolsEnd"
    BY LastIs, FieldIs, Constants DEF End
  <2>2. msg.list = "tools" => f = Field(f.op, f.i)
                              /\ f.op \notin {"bed", "chamber", "bedsEnd"}
    BY <1>0, <1>1, AnswerIs, Constants DEF SpindleOps, OtherToolOps
  <2> QED
    BY <2>1, <2>2
<1>5. DOMAIN tools' \subseteq DOMAIN tools \cup DOMAIN host.tools
  <2>1. CASE f.op \in ToolChanges
    BY <2>1, ToolChangesDo DEF ToolsBecome
  <2> QED
    BY <2>1, ToolsStay
<1>6. Fresh("tools")' => /\ "tools" \in Ended(host) =>
                               DOMAIN tools' \subseteq DOMAIN host.tools
                         /\ "tools" \notin crowded => DOMAIN host.tools \subseteq DOMAIN tools'
  BY <1>2, <1>3, <1>5 DEF ToolInv
<1>7. ASSUME msg.list = "tools", "tools" \notin crowded
      PROVE  /\ Cardinality(DOMAIN tools' \cup DOMAIN host.tools) <= MaxSlots
             /\ \A t \in DOMAIN host.tools : Left("heatersEnd", t)' \/ t \in DOMAIN tools'
  <2>1. /\ Cardinality(DOMAIN tools \cup DOMAIN host.tools) <= MaxSlots
        /\ \A t \in DOMAIN host.tools : Left("heatersEnd", t) \/ t \in DOMAIN tools
    BY <1>7 DEF ToolInv
  <2>2. Cardinality(DOMAIN tools' \cup DOMAIN host.tools) <= MaxSlots
    BY <2>1, <1>0, <1>5, RoomLeft
  <2>3. ASSUME NEW t \in DOMAIN host.tools, f = Field("heatersEnd", t)
        PROVE  t \in DOMAIN tools'
    <3>1. f.op \in ToolChanges /\ f.i = t
      BY <2>3, FieldIs DEF ToolChanges
    <3>2. \E x \in Tools : ToolsBecome(t, x)
      BY <3>1, ToolChangesDo
    <3>3. HasRoom(tools) \/ t \in DOMAIN tools
      BY <2>1, <1>0, RoomLeft DEF HasRoom
    <3> QED
      BY <3>2, <3>3 DEF ToolsBecome
  <2> QED
    BY <2>1, <2>2, <2>3, <1>1, <1>2 DEF Left
<1>8. ASSUME msg.list = "tools"
      PROVE  /\ msg'.last \in Int
             /\ \A t \in DOMAIN host.tools : Left("number", t)' \/ t <= msg'.last
             /\ \A t \in DOMAIN tools' : t <= msg'.last => t \in DOMAIN host.tools
             /\ msg.rest \ {f} = {} => DOMAIN tools' \subseteq DOMAIN host.tools
  <2>0. /\ msg.last \in Int
        /\ \A t \in DOMAIN host.tools : Left("number", t) \/ t <= msg.last
        /\ \A t \in DOMAIN tools : t <= msg.last => t \in DOMAIN host.tools
    BY <1>8 DEF ToolInv
  <2>1. CASE f.op = "number"
    <3>1. f = Field("number", f.i) /\ f.i \in DOMAIN host.tools /\ msg'.last = f.i
          /\ msg.rest \ {f} # {}
      BY <2>1, <1>1, <1>4, <1>8, ActionOf, ToolFieldOf
    <3>2. SameTools(Without(tools, Skipped(msg.last, f.i)))
      BY <2>1, ActionOf, NumberDoes
    <3>3. DOMAIN tools' = DOMAIN tools \ Skipped(msg.last, f.i)
      BY <3>2 DEF SameTools, Without, Restrict
    <3>4. ASSUME NEW t \in DOMAIN host.tools PROVE Left("number", t)' \/ t <= f.i
      <4>1. CASE Left("number", t)
        BY <4>1, <3>1, <1>0, <1>1, FieldIs DEF Left
      <4>2. CASE ~Left("number", t)
        <5>1. Field("number", t) \in Answer(host, msg.list) /\ Field("number", t) # f
          BY <4>2, <1>0, <1>8, AnswerHas DEF Left
        <5>2. Precedes(Field("number", t), f)
          BY <5>1, <4>2, InOrder DEF Left
        <5>3. t < f.i
          BY <5>2, <3>1, <1>0, Order
        <5> QED
          BY <5>3, <3>1, <1>0
      <4> QED
        BY <4>1, <4>2
    <3>5. ASSUME NEW t \in DOMAIN tools', t <= f.i PROVE t \in DOMAIN host.tools
      <4>1. t <= msg.last \/ t = f.i
        BY <3>1, <3>3, <3>5, <2>0, <1>0 DEF Skipped
      <4> QED
        BY <4>1, <3>1, <3>3, <2>0
    <3> QED
      BY <3>1, <3>4, <3>5, <1>0
  <2>2. CASE f.op # "number"
    <3>1. msg'.last = msg.last
      BY <2>2, <1>1, <1>4, <1>8
    <3>2. \A t : Left("number", t)' <=> Left("number", t)
      BY <2>2, <1>1, FieldIs DEF Left
    <3>3. \A t \in DOMAIN tools' : t <= msg.last => t \in DOMAIN host.tools
      BY <2>0, <1>5
    <3>4. ASSUME msg.rest \ {f} = {}, NEW t \in DOMAIN tools' PROVE t <= msg.last
      <4>1. f.op = "toolsEnd"
        BY <1>4, <1>8, <3>4
      <4>2. SameTools(Without(tools, AllFollowing(tools, msg.last + 1)))
        BY <4>1, ActionOf, ToolsEndDoes
      <4>3. DOMAIN tools' = DOMAIN tools \ AllFollowing(tools, msg.last + 1)
        BY <4>2 DEF SameTools, Without, Restrict
      <4> QED
        BY <4>3, <2>0, <1>0 DEF AllFollowing
    <3> QED
      BY <3>1, <3>2, <3>3, <3>4, <2>0
  <2> QED
    BY <2>1, <2>2
<1> QED
  BY <1>1, <1>6, <1>7, <1>8 DEF ToolInv

(* A value set by the user changes at most the heaters of one tool, and     *)
(* only by creating one.                                                    *)
LEMMA SetIntKeeps ==
    ASSUME TypeInv, SetInt
    PROVE  /\ DOMAIN tools' = DOMAIN tools
           /\ \A t \in DOMAIN tools : tools'[t].spindle = tools[t].spindle
           /\ UNCHANGED <<host, changed, seqState, msg, crowded, unfound, initialized,
                          combined, lastSpindle, spindles, columns>>
           /\ SameBeds /\ SameChambers
<1>1. /\ UNCHANGED <<host, changed, seqState, msg, crowded, unfound, initialized,
                     combined, lastSpindle, columns>>
      /\ OtherListsSame
  BY SetIntDoes DEF protocol
<1>2. SameBeds /\ SameChambers /\ spindles' = spindles
  BY <1>1 DEF TypeInv, SameBeds, SameChambers, SameHeaters, OtherListsSame
<1>3. CASE tools' = tools
  BY <1>1, <1>2, <1>3
<1>4. ASSUME tools' # tools
      PROVE  /\ DOMAIN tools' = DOMAIN tools
             /\ \A t \in DOMAIN tools : tools'[t].spindle = tools[t].spindle
  <2> DEFINE t == columns[adjusting.slot].field.index
             x == GetOrCreateHeaters(tools[t], {HeaterPlace(t)})
  <2>1. t \in DOMAIN tools /\ ToolsBecome(t, x)
    BY <1>4, SetIntDoes
  <2>2. tools[t] \in Tools
    BY <2>1, Listed DEF TypeInv, ToolLists
  <2>3. x.spindle = tools[t].spindle
    BY <2>2, HeatersCreated
  <2> QED
    BY <2>1, <2>3 DEF ToolsBecome
<1> QED
  BY <1>1, <1>2, <1>3, <1>4

LEMMA ToolsQuiet ==
    ASSUME TypeInv, TypeInv', ToolInv, Quiet
    PROVE  ToolInv'
<1>1. DOMAIN tools' = DOMAIN tools /\ UNCHANGED crowded
  BY DEF Quiet, SameTools
<1>2. msg'.list = "tools" => msg' = msg /\ host' = host
  BY Constants DEF Quiet, NoMessage
<1>3. ASSUME msg'.list = "tools"
      PROVE  /\ msg'.last \in Int
             /\ \A t \in DOMAIN host'.tools : Left("number", t)' \/ t <= msg'.last
             /\ \A t \in DOMAIN tools' : t <= msg'.last => t \in DOMAIN host'.tools
             /\ msg'.rest = {} /\ "tools" \in Ended(host') =>
                   DOMAIN tools' \subseteq DOMAIN host'.tools
             /\ "tools" \notin crowded' =>
                   /\ Cardinality(DOMAIN tools' \cup DOMAIN host'.tools) <= MaxSlots
                   /\ \A t \in DOMAIN host'.tools :
                         Left("heatersEnd", t)' \/ t \in DOMAIN tools'
  BY <1>1, <1>2, <1>3 DEF ToolInv, Left
<1>4. ASSUME Fresh("tools")'
      PROVE  /\ "tools" \in Ended(host') => DOMAIN tools' \subseteq DOMAIN host'.tools
             /\ "tools" \notin crowded' => DOMAIN host'.tools \subseteq DOMAIN tools'
  <2>1. /\ host'.tools = host.tools
        /\ "tools" \in Ended(host') => "tools" \in Ended(host)
    BY <1>4, EndedSame DEF Quiet, TypeInv
  <2>2. CASE Fresh("tools")
    BY <2>1, <2>2, <1>1 DEF ToolInv
  <2>3. CASE msg.list = "tools" /\ msg.rest = {}
    BY <2>1, <2>3, <1>1 DEF ToolInv, Left
  <2> QED
    BY <2>2, <2>3, <1>4, Constants DEF Quiet
<1> QED
  BY <1>3, <1>4 DEF ToolInv

LEMMA ToolsRequested ==
    ASSUME TypeInv, ToolInv, RequestList
    PROVE  ToolInv'
<1>0. /\ DOMAIN tools \subseteq Nat /\ IsFiniteSet(DOMAIN tools)
      /\ DOMAIN host.tools \subseteq Nat /\ IsFiniteSet(DOMAIN host.tools)
      /\ host \in Machines
  BY ListsFinite
<1>1. PICK l \in ListNames :
          /\ seqState[l] = "due"
          /\ \A n \in ListNames : seqState'[n] = "ok" <=> seqState[n] = "ok"
          /\ msg'.list = l /\ msg'.rest = Answer(host, l) /\ msg'.last = -1
          /\ crowded' = IF Crowding(l) THEN crowded \cup {l} ELSE crowded \ {l}
          /\ UNCHANGED <<host, changed, lists>>
  BY RequestListDoes
<1>2. tools' = tools
  BY <1>1 DEF lists
<1>3. Fresh("tools")' => Fresh("tools") /\ l # "tools"
  BY <1>1, Constants DEF Fresh
<1>4. l = "tools" /\ "tools" \notin crowded' =>
          Cardinality(DOMAIN tools \cup DOMAIN host.tools) <= MaxSlots
  <2> SUFFICES ASSUME l = "tools", "tools" \notin crowded'
               PROVE  Cardinality(DOMAIN tools \cup DOMAIN host.tools) <= MaxSlots
    OBVIOUS
  <2>1. ~Crowding("tools")
    BY <1>1
  <2>2. ~(Cardinality(DOMAIN tools \cup DOMAIN host.tools) > MaxSlots)
    BY <2>1 DEF Crowding
  <2>3. Cardinality(DOMAIN tools \cup DOMAIN host.tools) \in Nat
    BY <1>0, FS_Union, FS_CardinalityType
  <2> QED
    BY <2>2, <2>3, Constants
<1>5. l = "tools" => /\ \A t \in DOMAIN host.tools :
                           Left("number", t)' /\ Left("heatersEnd", t)'
                     /\ "tools" \in Ended(host) => msg'.rest # {}
                     /\ -1 \in Int
                     /\ \A t \in DOMAIN tools : ~(t <= -1)
  BY <1>0, <1>1, AnswerHas DEF Left
<1> QED
  BY <1>1, <1>2, <1>3, <1>4, <1>5 DEF ToolInv

LEMMA ToolsKept == TypeInv /\ TypeInv' /\ ToolInv /\ [Next]_vars => ToolInv'
<1> SUFFICES ASSUME TypeInv, TypeInv', ToolInv, [Next]_vars PROVE ToolInv'
  OBVIOUS
<1>1. CASE SetInt
  BY <1>1, SetIntKeeps DEF ToolInv, Left, Fresh
<1> QED
  BY <1>1, Steps, ToolsQuiet, ToolsRequested, ToolsReceived

LEMMA ToolsInit == Init => ToolInv
BY Constants DEF Init, ToolInv, NoMessage, Fresh

-----------------------------------------------------------------------------
(* Pointers *)

LEMMA PointersMoved ==
    ASSUME TypeInv, ToolInv, NEW f \in msg.rest, IsNext(f), ReceiveField(f),
           NEW t \in DOMAIN tools', f.op = "spindle" => f.i # t
    PROVE  /\ t \in DOMAIN tools => tools'[t].spindle = tools[t].spindle
           /\ t \notin DOMAIN tools =>
                 f.op \in ToolChanges /\ f.i = t /\ tools'[t].spindle = Null
<1>1. CASE f.op \in ToolChanges
  <2>1. f.i \in DOMAIN host.tools
    BY <1>1, ToolChangesDo
  <2>2. ASSUME NEW x \in Tools, ToolsBecome(f.i, x), x.spindle = OldTool(f.i).spindle
        PROVE  /\ t \in DOMAIN tools => tools'[t].spindle = tools[t].spindle
               /\ t \notin DOMAIN tools => f.i = t /\ tools'[t].spindle = Null
    BY <2>2, NewToolIs DEF ToolsBecome, OldTool
  <2>3. CASE f.op = "active"
    BY <1>1, <2>1, <2>2, <2>3, ActionOf, ActiveDoes, ToolFieldsAre
  <2>4. CASE f.op \in {"extruders", "offsets"}
    BY <1>1, <2>1, <2>2, <2>4, ActionOf, OtherFieldDoes, ToolFieldsAre
  <2>5. CASE f.op = "heaters"
    BY <1>1, <2>1, <2>2, <2>5, ActionOf, HeatersDo, ToolFieldsAre
  <2>6. CASE f.op = "heatersEnd"
    BY <1>1, <2>1, <2>2, <2>6, ActionOf, HeatersEndDoes, ToolFieldsAre
  <2>7. CASE f.op = "spindle"
    BY <1>1, <2>7, ActionOf, SpindleDoes DEF ToolsBecome
  <2> QED
    BY <1>1, <2>3, <2>4, <2>5, <2>6, <2>7 DEF ToolChanges
<1>2. CASE f.op \notin ToolChanges
  <2>1. t \in DOMAIN tools
    BY <1>2, ToolsStay
  <2>2. CASE f.op = "number"
    <3>1. SameTools(Without(tools, Skipped(msg.last, f.i)))
      BY <2>2, ActionOf, NumberDoes
    <3> QED
      BY <2>1, <3>1 DEF SameTools, Without, Restrict
  <2>3. CASE f.op = "toolsEnd"
    <3>1. SameTools(Without(tools, AllFollowing(tools, msg.last + 1)))
      BY <2>3, ActionOf, ToolsEndDoes
    <3> QED
      BY <2>1, <3>1 DEF SameTools, Without, Restrict
  <2>4. CASE f.op \notin {"number", "toolsEnd"}
    BY <1>2, <2>1, <2>4, OtherLists DEF SameTools
  <2> QED
    BY <2>1, <2>2, <2>3, <2>4
<1> QED
  BY <1>1, <1>2

LEMMA PointersReceived ==
    ASSUME TypeInv, SpindleInv, ToolInv, ToolInv', PointerInv,
           NEW f \in msg.rest, IsNext(f), ReceiveField(f)
    PROVE  PointerInv'
<1>0. /\ DOMAIN spindles \subseteq Nat /\ DOMAIN host.tools \subseteq Nat
      /\ host \in Machines
  BY ListsFinite
<1>1. /\ f \in Answer(host, msg.list) /\ msg.list \in ListNames \cup {"status"}
      /\ host' = host /\ crowded' = crowded
      /\ msg'.list = msg.list /\ msg'.rest = msg.rest \ {f}
      /\ f.op # "spindle" => unfound' = unfound
  BY Received
<1>2. unfound \subseteq unfound'
  BY <1>1, ActionOf DEF SetToolSpindle
<1>3. Fresh("tools")' => Fresh("tools")
  BY OtherLists, Constants
<1>4. ASSUME NEW t \in DOMAIN host.tools, t \in DOMAIN tools,
             tools'[t].spindle = tools[t].spindle, Pointed(t)
      PROVE  Pointed(t)'
  <2> DEFINE s == host.tools[t].spindle
  <2>1. s \in host.spindles \cup {NoSpindle}
    BY <1>0, OfMachines
  <2>2. CASE s \in DOMAIN spindles /\ tools[t].spindle = spindles[s]
    <3>1. s \in host.spindles
      BY <1>0, <2>1, <2>2 DEF NoSpindle
    <3>2. s \in DOMAIN spindles' /\ spindles'[s] = spindles[s]
      BY <2>2, <3>1, SpindlesStay
    <3> QED
      BY <1>1, <1>4, <2>2, <3>2 DEF Pointed
  <2>3. CASE (s = NoSpindle \/ "tools" \in crowded) /\ tools[t].spindle = Null
    BY <1>1, <1>4, <2>3 DEF Pointed
  <2> QED
    BY <1>4, <2>2, <2>3 DEF Pointed
<1>5. ASSUME NEW t \in DOMAIN host.tools, t \in DOMAIN tools', f.op = "spindle", f.i = t
      PROVE  t \in unfound' \/ Pointed(t)'
  <2> DEFINE s == host.tools[t].spindle
  <2>1. /\ ToolsBecome(t, PointedIs(t)) /\ spindles' = spindles
        /\ unfound' = IF s \in DOMAIN spindles \cup {NoSpindle} THEN unfound
                      ELSE unfound \cup {t}
    BY <1>5, ActionOf, SpindleDoes DEF SetToolSpindle, OtherListsSame
  <2>2. tools'[t].spindle = PointedIs(t).spindle /\ OldTool(t) \in Tools
    BY <1>5, <2>1, OldToolIs DEF ToolsBecome
  <2>3. CASE s = NoSpindle
    <3>1. PointedIs(t).spindle = Null
      BY <2>2, <2>3 DEF PointedIs, WithSpindle, Tools
    <3> QED
      BY <1>1, <2>2, <2>3, <3>1 DEF Pointed
  <2>4. CASE s # NoSpindle /\ s \in DOMAIN spindles
    <3>1. PointedIs(t).spindle = spindles[s]
      BY <2>2, <2>4 DEF PointedIs, WithSpindle, Tools
    <3> QED
      BY <1>1, <2>1, <2>2, <2>4, <3>1 DEF Pointed
  <2>5. CASE s # NoSpindle /\ s \notin DOMAIN spindles
    BY <2>1, <2>5
  <2> QED
    BY <2>3, <2>4, <2>5
<1>6. ASSUME NEW t \in DOMAIN host.tools, t \in DOMAIN tools', t \notin DOMAIN tools,
             f.op # "spindle"
      PROVE  /\ f.op \in ToolChanges /\ f.i = t
             /\ msg.list = "tools" => Left("spindle", t)'
             /\ "tools" \in crowded => Pointed(t)'
  <2>1. f.op \in ToolChanges /\ f.i = t /\ tools'[t].spindle = Null
    BY <1>6, PointersMoved
  <2>2. ASSUME msg.list = "tools", ~Left("spindle", t)' PROVE FALSE
    <3>1. Field("spindle", t) # f /\ Field("spindle", t) \in Answer(host, msg.list)
      BY <1>0, <1>6, <2>2, AnswerHas, FieldIs
    <3>2. Field("spindle", t) \notin msg.rest
      BY <1>1, <2>2, <3>1 DEF Left
    <3>3. Precedes(Field("spindle", t), f)
      BY <3>1, <3>2, InOrder
    <3> QED
      BY <3>3, <1>0, <1>6, <2>1 DEF Precedes, Array, Rank, Field, ToolChanges
  <2> QED
    BY <1>1, <2>1, <2>2 DEF Pointed
<1>7. ASSUME NEW t \in DOMAIN tools' \cap DOMAIN host.tools
      PROVE  /\ msg.list = "tools" => t \in unfound' \/ Left("spindle", t)' \/ Pointed(t)'
             /\ Fresh("tools") => t \in unfound' \/ Pointed(t)'
  <2>1. CASE f.op = "spindle" /\ f.i = t
    BY <1>5, <2>1
  <2>2. CASE t \in DOMAIN tools /\ ~(f.op = "spindle" /\ f.i = t)
    <3>1. tools'[t].spindle = tools[t].spindle
      BY <2>2, PointersMoved
    <3>2. Left("spindle", t) => Left("spindle", t)'
      BY <1>1, <2>2, FieldIs DEF Left
    <3> QED
      BY <1>2, <1>4, <2>2, <3>1, <3>2 DEF PointerInv
  <2>3. CASE t \notin DOMAIN tools /\ ~(f.op = "spindle" /\ f.i = t)
    <3>1. f.op # "spindle"
      BY <2>3, SpindleDoes, ActionOf DEF ToolsBecome
    <3>2. Fresh("tools") => "tools" \in crowded
      BY <2>3 DEF ToolInv
    <3> QED
      BY <1>6, <2>3, <3>1, <3>2
  <2> QED
    BY <2>1, <2>2, <2>3
<1> QED
  BY <1>1, <1>3, <1>7 DEF PointerInv

LEMMA PointersQuiet ==
    ASSUME TypeInv, TypeInv', ToolInv, PointerInv, Quiet
    PROVE  PointerInv'
<1>1. /\ DOMAIN tools' = DOMAIN tools /\ UNCHANGED <<crowded, unfound, spindles>>
      /\ \A t \in DOMAIN tools : tools'[t].spindle = tools[t].spindle
  BY DEF Quiet, SameTools
<1>2. msg'.list = "tools" => msg' = msg /\ host' = host
  BY Constants DEF Quiet, NoMessage
<1>3. ASSUME NEW t \in DOMAIN tools, host'.tools = host.tools
      PROVE  Pointed(t) => Pointed(t)'
  BY <1>1, <1>3 DEF Pointed
<1>4. ASSUME msg'.list = "tools", NEW t \in DOMAIN tools' \cap DOMAIN host'.tools
      PROVE  t \in unfound' \/ Left("spindle", t)' \/ Pointed(t)'
  BY <1>1, <1>2, <1>3, <1>4 DEF PointerInv, Left
<1>5. ASSUME Fresh("tools")', NEW t \in DOMAIN tools' \cap DOMAIN host'.tools
      PROVE  t \in unfound' \/ Pointed(t)'
  <2>1. host'.tools = host.tools
    BY <1>5 DEF Quiet
  <2>2. CASE Fresh("tools")
    BY <1>1, <1>3, <1>5, <2>1, <2>2 DEF PointerInv
  <2>3. CASE msg.list = "tools" /\ msg.rest = {}
    BY <1>1, <1>3, <1>5, <2>1, <2>3 DEF PointerInv, ToolInv, Left
  <2> QED
    BY <1>5, <2>2, <2>3, Constants DEF Quiet
<1> QED
  BY <1>4, <1>5 DEF PointerInv

LEMMA PointersKept ==
    TypeInv /\ TypeInv' /\ SpindleInv /\ ToolInv /\ ToolInv' /\ PointerInv /\ [Next]_vars
    => PointerInv'
<1> SUFFICES ASSUME TypeInv, TypeInv', SpindleInv, ToolInv, ToolInv', PointerInv,
                    [Next]_vars
             PROVE  PointerInv'
  OBVIOUS
<1>1. CASE SetInt
  BY <1>1, SetIntKeeps DEF PointerInv, Pointed, Left, Fresh
<1>2. CASE RequestList
  <2>1. PICK l \in ListNames :
            /\ seqState[l] = "due"
            /\ \A n \in ListNames : seqState'[n] = "ok" <=> seqState[n] = "ok"
            /\ msg'.list = l /\ msg'.rest = Answer(host, l)
            /\ crowded' = IF Crowding(l) THEN crowded \cup {l} ELSE crowded \ {l}
            /\ unfound' = IF l = "tools" THEN {} ELSE unfound
            /\ UNCHANGED <<host, changed, lists>>
    BY <1>2, RequestListDoes
  <2>2. UNCHANGED <<tools, spindles>> /\ host \in Machines
    BY <2>1 DEF lists, TypeInv
  <2>3. l = "tools" => \A t \in DOMAIN host.tools : Left("spindle", t)'
    BY <2>1, <2>2, AnswerHas DEF Left
  <2>4. Fresh("tools")' => Fresh("tools") /\ l # "tools"
    BY <2>1, Constants DEF Fresh
  <2>5. l # "tools" => ("tools" \in crowded <=> "tools" \in crowded')
    BY <2>1
  <2> QED
    BY <2>1, <2>2, <2>3, <2>4, <2>5 DEF PointerInv, Pointed
<1> QED
  BY <1>1, <1>2, Steps, PointersQuiet, PointersReceived

LEMMA PointersInit == Init => PointerInv
BY Constants DEF Init, PointerInv, NoMessage, Fresh

-----------------------------------------------------------------------------
(* Beds and chambers *)

(* The same after an element has been read.                                 *)
HeatUpto(op, new, heaters, f) ==
    /\ "heat" \notin crowded => Cardinality(DOMAIN new \cup DOMAIN heaters) <= MaxSlots
    /\ \A i \in DOMAIN heaters :
          \/ Field(op, i) \in msg.rest \ {f}
          \/ i <= f.i /\ ("heat" \notin crowded => i \in DOMAIN new)
    /\ \A i \in DOMAIN new :
          i <= f.i => i \in DOMAIN heaters /\ new[i].heater = heaters[i]

LEMMA HeatAdded ==
    ASSUME TypeInv, msg.list = "heat", msg.last \in Int,
           NEW op \in {"bed", "chamber"}, NEW f \in msg.rest, IsNext(f), f = Field(op, f.i),
           NEW list, NEW heaters, NEW new,
           IsFiniteSet(DOMAIN list), DOMAIN list \subseteq Nat,
           IsFiniteSet(DOMAIN heaters), DOMAIN heaters \subseteq Nat, f.i \in DOMAIN heaters,
           \A i \in DOMAIN heaters : Field(op, i) \in Answer(host, "heat"),
           Upto(op, list, heaters), Room(list, heaters),
           HeatersBecome(new, list, f.i, heaters[f.i], Skipped(msg.last, f.i))
    PROVE  HeatUpto(op, new, heaters, f)
<1>0. f.i \in Nat /\ f.i \notin Skipped(msg.last, f.i)
  BY DEF Skipped
<1>1. DOMAIN new \subseteq DOMAIN list \cup DOMAIN heaters
  BY DEF HeatersBecome
<1>2. ASSUME "heat" \notin crowded
      PROVE  /\ Cardinality(DOMAIN new \cup DOMAIN heaters) <= MaxSlots
             /\ f.i \in DOMAIN new
  <2>1. Cardinality(DOMAIN list \cup DOMAIN heaters) <= MaxSlots
    BY <1>2 DEF Room
  <2>2. HasRoom(list) \/ f.i \in DOMAIN list
    BY <2>1, RoomLeft DEF HasRoom
  <2> QED
    BY <1>0, <1>1, <2>1, <2>2, RoomLeft DEF HeatersBecome
<1>3. ASSUME NEW i \in DOMAIN heaters
      PROVE  Field(op, i) \in msg.rest \ {f} \/ (i <= f.i /\ ("heat" \notin crowded => i \in DOMAIN new))
  <2>1. CASE i = f.i
    BY <2>1, <1>0, <1>2
  <2>2. CASE i # f.i /\ Left(op, i)
    BY <2>2, FieldIs DEF Left
  <2>3. CASE i # f.i /\ ~Left(op, i)
    <3>1. i <= msg.last /\ ("heat" \notin crowded => i \in DOMAIN list)
      BY <2>3 DEF Upto
    <3>2. Field(op, i) \in Answer(host, msg.list) /\ Field(op, i) # f
      BY <2>3, FieldIs
    <3>3. Precedes(Field(op, i), Field(op, f.i))
      BY <2>3, <3>2, InOrder DEF Left
    <3>4. i < f.i /\ i \in Nat
      BY <3>3, <1>0, Order
    <3>5. i \notin Skipped(msg.last, f.i)
      BY <3>1, <3>4 DEF Skipped
    <3> QED
      BY <3>1, <3>4, <3>5, <1>0 DEF HeatersBecome
  <2> QED
    BY <2>1, <2>2, <2>3
<1>4. ASSUME NEW i \in DOMAIN new, i <= f.i
      PROVE  i \in DOMAIN heaters /\ new[i].heater = heaters[i]
  <2>1. CASE i = f.i
    BY <2>1 DEF HeatersBecome
  <2>2. CASE i # f.i
    <3>1. i \in DOMAIN list /\ i \notin Skipped(msg.last, f.i) /\ i \in Nat
      BY <2>2 DEF HeatersBecome
    <3>2. i <= msg.last
      BY <3>1, <2>2, <1>0, <1>4 DEF Skipped
    <3> QED
      BY <2>2, <3>1, <3>2 DEF Upto, HeatersBecome
  <2> QED
    BY <2>1, <2>2
<1> QED
  BY <1>2, <1>3, <1>4 DEF HeatUpto

LEMMA HeatEnded ==
    ASSUME msg.last \in Int, NEW op, NEW list, NEW heaters, NEW new,
           IsFiniteSet(DOMAIN list), DOMAIN list \subseteq Nat,
           IsFiniteSet(DOMAIN heaters), DOMAIN heaters \subseteq Nat,
           Upto(op, list, heaters), Room(list, heaters),
           \A i \in DOMAIN heaters : ~Left(op, i),
           SameHeaters(new, Without(list, AllFollowing(list, msg.last + 1)))
    PROVE  /\ "heat" \notin crowded =>
                 Cardinality(DOMAIN new \cup DOMAIN heaters) <= MaxSlots
           /\ HeatRead(new, heaters)
           /\ \A i \in DOMAIN heaters : i <= msg.last
<1>1. /\ DOMAIN new = {i \in DOMAIN list : i <= msg.last}
      /\ \A i \in DOMAIN new : new[i].heater = list[i].heater
  BY DEF SameHeaters, Without, Restrict, AllFollowing
<1>2. "heat" \notin crowded => Cardinality(DOMAIN new \cup DOMAIN heaters) <= MaxSlots
  <2>1. DOMAIN new \subseteq DOMAIN list \cup DOMAIN heaters
    BY <1>1
  <2> QED
    BY <2>1, RoomLeft DEF Room
<1> QED
  BY <1>1, <1>2 DEF HeatRead, Upto

LEMMA HeatReceived ==
    ASSUME TypeInv, HeatInv, NEW f \in msg.rest, IsNext(f), ReceiveField(f)
    PROVE  HeatInv'
<1>0. /\ DOMAIN beds \subseteq Nat /\ IsFiniteSet(DOMAIN beds)
      /\ DOMAIN host.beds \subseteq Nat /\ IsFiniteSet(DOMAIN host.beds)
      /\ DOMAIN chambers \subseteq Nat /\ IsFiniteSet(DOMAIN chambers)
      /\ DOMAIN host.chambers \subseteq Nat /\ IsFiniteSet(DOMAIN host.chambers)
      /\ host \in Machines
  BY ListsFinite
<1>1. /\ f \in Answer(host, msg.list) /\ msg.list \in ListNames \cup {"status"}
      /\ host' = host /\ crowded' = crowded
      /\ msg'.list = msg.list /\ msg'.rest = msg.rest \ {f}
      /\ f.op \notin {"number", "bed", "chamber", "bedsEnd"} => msg'.last = msg.last
      /\ f.op \in {"bed", "chamber"} => msg'.last = f.i
      /\ f.op = "bedsEnd" => msg'.last = -1
  BY Received
<1>2. Fresh("heat")' => Fresh("heat")
  BY OtherLists, Constants
<1>3. Fresh("heat") => msg.list # "heat"
  BY Constants DEF Fresh, TypeInv, MessageInv, NoMessage
<1>4. /\ msg.list = "heat" <=> f.op \in {"bed", "bedsEnd", "chamber", "chambersEnd"}
      /\ msg.list = "heat" => f = Field(f.op, f.i)
      /\ f.op \in {"bedsEnd", "chambersEnd"} => f.i = 0
      /\ f.op = "bed" => f.i \in DOMAIN host.beds
      /\ f.op = "chamber" => f.i \in DOMAIN host.chambers
  BY <1>0, <1>1, AnswerIs, Constants DEF SpindleOps, OtherToolOps
<1>5. CASE msg.list # "heat"
  <2>1. SameBeds /\ SameChambers
    BY <1>4, <1>5, OtherLists
  <2>2. Fresh("heat") =>
            /\ "beds" \in Ended(host) => HeatRead(beds', host.beds)
            /\ "chambers" \in Ended(host) => HeatRead(chambers', host.chambers)
    BY <2>1 DEF HeatInv, HeatRead, SameBeds, SameChambers, SameHeaters
  <2> QED
    BY <1>1, <1>2, <1>5, <2>2 DEF HeatInv, HeatRead
<1>6. CASE msg.list = "heat"
  <2>1. /\ msg.last \in Int
        /\ Room(beds, host.beds) /\ Room(chambers, host.chambers)
        /\ Left("bedsEnd", 0) => Upto("bed", beds, host.beds)
        /\ ~Left("bedsEnd", 0) =>
              /\ "beds" \in Ended(host) => HeatRead(beds, host.beds)
              /\ Upto("chamber", chambers, host.chambers)
    BY <1>6 DEF HeatInv
  <2>2. /\ \A i \in DOMAIN host.beds : Field("bed", i) \in Answer(host, "heat")
        /\ \A i \in DOMAIN host.chambers : Field("chamber", i) \in Answer(host, "heat")
        /\ "beds" \in Ended(host) => Field("bedsEnd", 0) \in Answer(host, "heat")
        /\ DOMAIN host.beds # {} => "beds" \in Ended(host)
    BY <1>0, AnswerHas, EndedAre
  <2>3. ~Fresh("heat")'
    BY <1>2, <1>3, <1>6
  <2>4. msg.rest \ {f} = {} <=> f = Field("chambersEnd", 0)
    BY <1>6, LastIs, Constants DEF End
  <2>5. CASE f.op = "bed"
    <3>1. Left("bedsEnd", 0) /\ Left("bedsEnd", 0)'
      <4>1. Field("bedsEnd", 0) # f
        BY <2>5, FieldIs
      <4>2. ~Precedes(Field("bedsEnd", 0), f)
        BY <1>0, <1>4, <1>6, <2>5, Order
      <4>3. Field("bedsEnd", 0) \in msg.rest
        BY <1>4, <1>6, <2>2, <2>5, <4>1, <4>2, InOrder
      <4> QED
        BY <1>1, <4>1, <4>3 DEF Left
    <3>2. HeatersBecome(beds', beds, f.i, host.beds[f.i], Skipped(msg.last, f.i))
      BY <2>5, ActionOf, BedDoes
    <3>3. HeatUpto("bed", beds', host.beds, f)
      <4>1. /\ f = Field("bed", f.i) /\ f.i \in DOMAIN host.beds
            /\ msg'.last = f.i /\ Upto("bed", beds, host.beds)
            /\ \A i \in DOMAIN host.beds : Field("bed", i) \in Answer(host, "heat")
        BY <1>1, <1>4, <1>6, <2>1, <2>2, <2>5, <3>1
      <4> QED
        BY <1>0, <1>1, <1>6, <2>1, <3>2, <4>1, HeatAdded
    <3>4. DOMAIN chambers' = DOMAIN chambers
      BY <2>5, OtherLists DEF SameChambers, SameHeaters
    <3>5. msg'.rest # {}
      BY <3>1 DEF Left
    <3>6. f.i \in Int /\ msg'.last = f.i
      BY <1>0, <1>1, <1>4, <2>5
    <3> QED
      BY <1>1, <2>1, <2>3, <3>1, <3>3, <3>4, <3>5, <3>6 DEF HeatInv, Room, Upto, Left, HeatUpto
  <2>6. CASE f.op = "bedsEnd"
    <3>1. f = Field("bedsEnd", 0) /\ Left("bedsEnd", 0) /\ ~Left("bedsEnd", 0)'
      BY <1>1, <1>4, <1>6, <2>6 DEF Left
    <3>2. ASSUME NEW i \in DOMAIN host.beds PROVE ~Left("bed", i)
      <4>1. Field("bed", i) # f
        BY <2>6, FieldIs
      <4> QED
        BY <1>0, <3>1, <4>1, Order DEF Left, IsNext
    <3>3. SameHeaters(beds', Without(beds, AllFollowing(beds, msg.last + 1)))
      BY <2>6, ActionOf, BedsEndDoes
    <3>4. /\ "heat" \notin crowded =>
                Cardinality(DOMAIN beds' \cup DOMAIN host.beds) <= MaxSlots
          /\ HeatRead(beds', host.beds)
      BY <1>0, <2>1, <3>1, <3>2, <3>3, HeatEnded
    <3>5. SameChambers
      BY <2>6, OtherLists
    <3>6. ASSUME NEW i \in DOMAIN host.chambers PROVE Left("chamber", i)'
      <4>1. Field("chamber", i) # f
        BY <2>6, FieldIs
      <4>2. Field("chamber", i) \in msg.rest
        BY <1>0, <1>6, <2>2, <3>1, <4>1, InOrder, Order
      <4> QED
        BY <1>1, <4>1, <4>2 DEF Left
    <3>7. msg'.rest # {}
      BY <1>1, <2>4, <2>6, FieldIs
    <3>8. msg'.last = -1 /\ -1 \in Int /\ DOMAIN chambers' \subseteq Nat
      BY <1>0, <1>1, <2>6, <3>5 DEF SameChambers, SameHeaters
    <3>9. \A i \in DOMAIN chambers' : ~(i <= -1)
      BY <3>8
    <3> QED
      BY <1>1, <2>1, <2>3, <3>1, <3>4, <3>5, <3>6, <3>7, <3>8, <3>9
         DEF HeatInv, Room, Upto, HeatRead, SameChambers, SameHeaters
  <2>7. CASE f.op = "chamber"
    <3>1. ~Left("bedsEnd", 0) /\ ~Left("bedsEnd", 0)'
      <4>1. Field("bedsEnd", 0) # f
        BY <2>7, FieldIs
      <4>2. ~Precedes(f, Field("bedsEnd", 0))
        BY <1>0, <1>4, <1>6, <2>7, Order
      <4> QED
        BY <1>1, <4>1, <4>2 DEF Left, IsNext
    <3>2. HeatersBecome(chambers', chambers, f.i, host.chambers[f.i],
                        Skipped(msg.last, f.i))
      BY <2>7, ActionOf, ChamberDoes
    <3>3. HeatUpto("chamber", chambers', host.chambers, f)
      <4>1. /\ f = Field("chamber", f.i) /\ f.i \in DOMAIN host.chambers
            /\ msg'.last = f.i /\ Upto("chamber", chambers, host.chambers)
            /\ \A i \in DOMAIN host.chambers : Field("chamber", i) \in Answer(host, "heat")
        BY <1>1, <1>4, <1>6, <2>1, <2>2, <2>7, <3>1
      <4> QED
        BY <1>0, <1>1, <1>6, <2>1, <3>2, <4>1, HeatAdded
    <3>4. SameBeds
      BY <2>7, OtherLists
    <3>5. msg'.rest # {}
      BY <1>1, <2>4, <2>7, FieldIs
    <3>6. f.i \in Int /\ msg'.last = f.i
      BY <1>0, <1>1, <1>4, <2>7
    <3>7. /\ "beds" \in Ended(host) => HeatRead(beds', host.beds)
          /\ DOMAIN beds' = DOMAIN beds
      BY <2>1, <3>1, <3>4 DEF HeatRead, SameBeds, SameHeaters
    <3> QED
      BY <1>1, <2>1, <2>3, <3>1, <3>3, <3>5, <3>6, <3>7
         DEF HeatInv, Room, Upto, HeatRead, Left, HeatUpto
  <2>8. CASE f.op = "chambersEnd"
    <3>1. f = Field("chambersEnd", 0) /\ msg'.rest = {} /\ msg'.last = msg.last
      BY <1>1, <1>4, <1>6, <2>4, <2>8
    <3>2. \A i : ~Left("bedsEnd", 0)' /\ ~Left("chamber", i)'
      BY <3>1 DEF Left
    <3>3. ~Left("bedsEnd", 0) /\ \A i \in DOMAIN host.chambers : ~Left("chamber", i)
      BY <1>1, <3>1, FieldIs DEF Left
    <3>4. SameHeaters(chambers', Without(chambers, AllFollowing(chambers, msg.last + 1)))
      BY <2>8, ActionOf, ChambersEndDoes
    <3>5. /\ "heat" \notin crowded =>
                Cardinality(DOMAIN chambers' \cup DOMAIN host.chambers) <= MaxSlots
          /\ HeatRead(chambers', host.chambers)
          /\ \A i \in DOMAIN host.chambers : i <= msg.last
      BY <1>0, <2>1, <3>3, <3>4, HeatEnded
    <3>6. SameBeds
      BY <2>8, OtherLists
    <3>7. /\ "beds" \in Ended(host) => HeatRead(beds', host.beds)
          /\ DOMAIN beds' = DOMAIN beds
      BY <2>1, <3>3, <3>6 DEF HeatRead, SameBeds, SameHeaters
    <3> QED
      BY <1>1, <2>1, <2>3, <3>1, <3>2, <3>5, <3>7 DEF HeatInv, Room, Upto, HeatRead
  <2> QED
    BY <1>4, <1>6, <2>5, <2>6, <2>7, <2>8
<1> QED
  BY <1>5, <1>6

LEMMA HeatQuiet ==
    ASSUME TypeInv, TypeInv', HeatInv, Quiet
    PROVE  HeatInv'
<1>1. SameHeaters(beds', beds) /\ SameHeaters(chambers', chambers) /\ crowded' = crowded
  BY DEF Quiet, SameBeds, SameChambers
<1>2. CASE msg'.list = "heat"
  <2>1. msg' = msg /\ host' = host /\ msg.list = "heat"
    BY <1>2, Constants DEF Quiet, NoMessage
  <2>2. ~Fresh("heat")'
    BY <1>2, Constants DEF Fresh, TypeInv, MessageInv, NoMessage
  <2> QED
    BY <1>1, <2>1, <2>2 DEF HeatInv, Room, Upto, HeatRead, Left, SameHeaters
<1>3. CASE msg'.list # "heat"
  <2>1. ASSUME Fresh("heat")'
        PROVE  /\ host'.beds = host.beds /\ host'.chambers = host.chambers
               /\ "beds" \in Ended(host') => HeatRead(beds, host.beds)
               /\ "chambers" \in Ended(host') => HeatRead(chambers, host.chambers)
    <3>1. /\ host'.beds = host.beds /\ host'.chambers = host.chambers
          /\ "beds" \in Ended(host') => "beds" \in Ended(host)
          /\ "chambers" \in Ended(host') => "chambers" \in Ended(host)
      BY <2>1, EndedSame DEF Quiet, TypeInv
    <3>2. CASE Fresh("heat")
      BY <3>1, <3>2 DEF HeatInv
    <3>3. CASE msg.list = "heat" /\ msg.rest = {}
      BY <3>1, <3>3 DEF HeatInv, Left
    <3> QED
      BY <2>1, <3>2, <3>3, Constants DEF Quiet
  <2> QED
    BY <1>1, <1>3, <2>1 DEF HeatInv, HeatRead, SameHeaters
<1> QED
  BY <1>2, <1>3

LEMMA HeatRequested ==
    ASSUME TypeInv, HeatInv, RequestList
    PROVE  HeatInv'
<1>0. /\ DOMAIN beds \subseteq Nat /\ IsFiniteSet(DOMAIN beds)
      /\ DOMAIN host.beds \subseteq Nat /\ IsFiniteSet(DOMAIN host.beds)
      /\ DOMAIN chambers \subseteq Nat /\ IsFiniteSet(DOMAIN chambers)
      /\ DOMAIN host.chambers \subseteq Nat /\ IsFiniteSet(DOMAIN host.chambers)
      /\ host \in Machines
  BY ListsFinite
<1>1. PICK l \in ListNames :
          /\ seqState[l] = "due"
          /\ \A n \in ListNames : seqState'[n] = "ok" <=> seqState[n] = "ok"
          /\ msg'.list = l /\ msg'.rest = Answer(host, l) /\ msg'.last = -1
          /\ crowded' = IF Crowding(l) THEN crowded \cup {l} ELSE crowded \ {l}
          /\ UNCHANGED <<host, changed, lists>>
  BY RequestListDoes
<1>2. UNCHANGED <<beds, chambers>>
  BY <1>1 DEF lists
<1>3. CASE l = "heat"
  <2>1. ~Fresh("heat")'
    BY <1>1, <1>3 DEF Fresh
  <2>2. ASSUME "heat" \notin crowded'
        PROVE  /\ Cardinality(DOMAIN beds \cup DOMAIN host.beds) <= MaxSlots
               /\ Cardinality(DOMAIN chambers \cup DOMAIN host.chambers) <= MaxSlots
    <3>1. ~Crowding("heat")
      BY <1>1, <1>3, <2>2
    <3>2. /\ ~(Cardinality(DOMAIN beds \cup DOMAIN host.beds) > MaxSlots)
          /\ ~(Cardinality(DOMAIN chambers \cup DOMAIN host.chambers) > MaxSlots)
      BY <3>1 DEF Crowding
    <3>3. /\ Cardinality(DOMAIN beds \cup DOMAIN host.beds) \in Nat
          /\ Cardinality(DOMAIN chambers \cup DOMAIN host.chambers) \in Nat
      BY <1>0, FS_Union, FS_CardinalityType
    <3> QED
      BY <3>2, <3>3, Constants
  <2>3. /\ \A b \in DOMAIN host.beds : Left("bed", b)'
        /\ \A c \in DOMAIN host.chambers : Left("chamber", c)'
        /\ "beds" \in Ended(host) => Left("bedsEnd", 0)'
        /\ "chambers" \in Ended(host) => msg'.rest # {}
    BY <1>0, <1>1, <1>3, AnswerHas DEF Left
  <2>4. /\ msg'.last = -1 /\ -1 \in Int
        /\ \A b \in DOMAIN beds : ~(b <= -1)
        /\ \A c \in DOMAIN chambers : ~(c <= -1)
    BY <1>0, <1>1
  <2> QED
    BY <1>1, <1>2, <2>1, <2>2, <2>3, <2>4 DEF HeatInv, Room, Upto
<1>4. CASE l # "heat"
  <2>1. Fresh("heat")' => Fresh("heat")
    BY <1>1, Constants DEF Fresh
  <2>2. "heat" \in crowded' <=> "heat" \in crowded
    BY <1>1, <1>4
  <2> QED
    BY <1>1, <1>2, <1>4, <2>1, <2>2 DEF HeatInv, HeatRead
<1> QED
  BY <1>3, <1>4

LEMMA HeatKept == TypeInv /\ TypeInv' /\ HeatInv /\ [Next]_vars => HeatInv'
<1> SUFFICES ASSUME TypeInv, TypeInv', HeatInv, [Next]_vars PROVE HeatInv'
  OBVIOUS
<1>1. CASE SetInt
  <2>1. /\ UNCHANGED <<host, changed, seqState, msg, crowded>>
        /\ SameHeaters(beds', beds) /\ SameHeaters(chambers', chambers)
    BY <1>1, SetIntKeeps DEF SameBeds, SameChambers
  <2> QED
    BY <2>1 DEF HeatInv, Room, Upto, HeatRead, Left, Fresh, SameHeaters
<1> QED
  BY <1>1, Steps, HeatQuiet, HeatRequested, HeatReceived

LEMMA HeatInit == Init => HeatInv
BY Constants DEF Init, HeatInv, NoMessage, Fresh

-----------------------------------------------------------------------------
(* Lists that ever held anything *)

(* Nothing is created that is not the machine's.                            *)
LEMMA ListsGrow ==
    ASSUME TypeInv, ToolInv, NEW f \in msg.rest, IsNext(f), ReceiveField(f)
    PROVE  /\ DOMAIN tools' \subseteq DOMAIN tools \cup DOMAIN host.tools
           /\ DOMAIN spindles' \subseteq DOMAIN spindles \cup host.spindles
           /\ DOMAIN beds' \subseteq DOMAIN beds \cup DOMAIN host.beds
           /\ DOMAIN chambers' \subseteq DOMAIN chambers \cup DOMAIN host.chambers
<1>0. host \in Machines /\ f \in Answer(host, msg.list)
      /\ msg.list \in ListNames \cup {"status"}
  BY Received DEF TypeInv
<1>1. DOMAIN tools' \subseteq DOMAIN tools \cup DOMAIN host.tools
  <2>1. CASE f.op \in ToolChanges
    BY <2>1, ToolChangesDo DEF ToolsBecome
  <2> QED
    BY <2>1, ToolsStay
<1>2. DOMAIN spindles' \subseteq DOMAIN spindles \cup host.spindles
  <2>1. CASE f.op = "spActive"
    <3>1. SpindlesBecome(f.i, Skipped(lastSpindle, f.i)) /\ f.i \in host.spindles
      BY <2>1, ActionOf, SpActiveDoes, SpindleFieldOf
    <3> QED
      BY <3>1 DEF SpindlesBecome
  <2>2. CASE f.op = "spCurrent"
    <3>1. SpindlesBecome(f.i, {}) /\ f.i \in host.spindles
      BY <2>2, ActionOf, SpCurrentDoes, SpindleFieldOf
    <3> QED
      BY <3>1 DEF SpindlesBecome
  <2>3. CASE f.op = "spindlesEnd"
    <3>1. SpindlesBecome(-1, AllFollowing(spindles, lastSpindle + 1) \cup {-1})
      BY <2>3, ActionOf, SpindlesEndDoes
    <3> QED
      BY <3>1 DEF SpindlesBecome
  <2>4. CASE f.op \notin {"spActive", "spCurrent", "spindlesEnd"}
    BY <2>4, OtherLists
  <2> QED
    BY <2>1, <2>2, <2>3, <2>4
<1>3. DOMAIN beds' \subseteq DOMAIN beds \cup DOMAIN host.beds
  <2>1. CASE f.op = "bed"
    <3>1. f.i \in DOMAIN host.beds
      BY <1>0, <2>1, AnswerIs DEF SpindleOps, OtherToolOps
    <3>2. HeatersBecome(beds', beds, f.i, host.beds[f.i], Skipped(msg.last, f.i))
      BY <2>1, ActionOf, BedDoes
    <3> QED
      BY <3>1, <3>2 DEF HeatersBecome
  <2>2. CASE f.op = "bedsEnd"
    <3>1. SameHeaters(beds', Without(beds, AllFollowing(beds, msg.last + 1)))
      BY <2>2, ActionOf, BedsEndDoes
    <3> QED
      BY <3>1 DEF SameHeaters, Without, Restrict
  <2>3. CASE f.op \notin {"bed", "bedsEnd"}
    BY <2>3, OtherLists DEF SameBeds, SameHeaters
  <2> QED
    BY <2>1, <2>2, <2>3
<1>4. DOMAIN chambers' \subseteq DOMAIN chambers \cup DOMAIN host.chambers
  <2>1. CASE f.op = "chamber"
    <3>1. f.i \in DOMAIN host.chambers
      BY <1>0, <2>1, AnswerIs DEF SpindleOps, OtherToolOps
    <3>2. HeatersBecome(chambers', chambers, f.i, host.chambers[f.i],
                        Skipped(msg.last, f.i))
      BY <2>1, ActionOf, ChamberDoes
    <3> QED
      BY <3>1, <3>2 DEF HeatersBecome
  <2>2. CASE f.op = "chambersEnd"
    <3>1. SameHeaters(chambers', Without(chambers, AllFollowing(chambers, msg.last + 1)))
      BY <2>2, ActionOf, ChambersEndDoes
    <3> QED
      BY <3>1 DEF SameHeaters, Without, Restrict
  <2>3. CASE f.op \notin {"chamber", "chambersEnd"}
    BY <2>3, OtherLists DEF SameChambers, SameHeaters
  <2> QED
    BY <2>1, <2>2, <2>3
<1> QED
  BY <1>1, <1>2, <1>3, <1>4

LEMMA InUseNext ==
    /\ InUse' \subseteq {"tools", "spindles", "beds", "chambers"}
    /\ "tools" \in InUse' <=> DOMAIN tools' # {}
    /\ "spindles" \in InUse' <=> DOMAIN spindles' # {}
    /\ "beds" \in InUse' <=> DOMAIN beds' # {}
    /\ "chambers" \in InUse' <=> DOMAIN chambers' # {}
BY DEF InUse, Nonempty

LEMMA UsedMarked == UsedInv /\ [Next]_vars => used' = used \cup InUse'
<1>1. UNCHANGED vars => used' = used /\ InUse' = InUse
  BY DEF vars, lists, InUse
<1> QED
  BY <1>1 DEF Next, UsedInv

LEMMA UsedIs ==
    ASSUME TypeInv, UsedInv, ToolInv, [Next]_vars
    PROVE  /\ used \subseteq used' /\ used' \subseteq used \cup Ended(host)
           /\ Quiet \/ RequestList \/ SetInt => used' = used
<1>0. host \in Machines /\ used' = used \cup InUse'
  BY UsedMarked DEF TypeInv
<1>1. Quiet \/ RequestList \/ SetInt => used' = used
  <2>1. Quiet \/ RequestList \/ SetInt =>
            /\ DOMAIN tools' = DOMAIN tools /\ DOMAIN spindles' = DOMAIN spindles
            /\ DOMAIN beds' = DOMAIN beds /\ DOMAIN chambers' = DOMAIN chambers
    <3>1. CASE Quiet
      BY <3>1 DEF Quiet, SameTools, SameBeds, SameChambers, SameHeaters
    <3>2. CASE RequestList
      BY <3>2, RequestListDoes DEF lists
    <3>3. CASE SetInt
      BY <3>3, SetIntKeeps DEF SameBeds, SameChambers, SameHeaters
    <3> QED
      BY <3>1, <3>2, <3>3
  <2> QED
    BY <1>0, <2>1, InUseIs, InUseNext DEF UsedInv
<1>2. ASSUME NEW f \in msg.rest, IsNext(f), ReceiveField(f)
      PROVE  used' \subseteq used \cup Ended(host)
  BY <1>0, <1>2, ListsGrow, InUseIs, InUseNext, EndedAre DEF UsedInv
<1> QED
  BY <1>0, <1>1, <1>2, Steps

-----------------------------------------------------------------------------
(* The columns *)

LEMMA ShownWhenLaidOut ==
    ASSUME TypeInv', UsedInv', SpindleInv', ToolInv', PointerInv', LaidOut, AllRead'
    PROVE  Shown'
<1>1. \A l \in ListNames :
          Unheld(l)' \/ Fresh(l)' \/ (msg'.list = l /\ msg'.rest = {})
  BY DEF AllRead, Whole, Fresh
<1>2. used' \subseteq Ended(host')
  BY DEF AllRead, LeftOver
<1>3. /\ DOMAIN spindles' # {} => "spindles" \in used' /\ ~Unheld("spindles")'
      /\ DOMAIN tools' # {} => "tools" \in used' /\ ~Unheld("tools")'
  BY InUseNext DEF UsedInv, Unheld
<1>4. DOMAIN spindles' \subseteq host'.spindles
  <2>1. CASE DOMAIN spindles' = {}
    BY <2>1
  <2>2. CASE DOMAIN spindles' # {}
    <3>1. /\ Fresh("spindles")' \/ (msg'.list = "spindles" /\ msg'.rest = {})
          /\ "spindles" \in Ended(host')
      BY <1>1, <1>2, <1>3, <2>2, Constants
    <3> QED
      BY <3>1 DEF SpindleInv
  <2> QED
    BY <2>1, <2>2
<1>5. ASSUME NEW t \in DOMAIN tools' PROVE Pointed(t)'
  <2>1. /\ Fresh("tools")' \/ (msg'.list = "tools" /\ msg'.rest = {})
        /\ "tools" \in Ended(host') /\ unfound' = {}
    BY <1>1, <1>2, <1>3, <1>5, Constants DEF AllRead
  <2>2. t \in DOMAIN host'.tools
    BY <1>5, <2>1 DEF ToolInv
  <2>3. CASE Fresh("tools")'
    BY <1>5, <2>1, <2>2, <2>3 DEF PointerInv
  <2>4. CASE msg'.list = "tools" /\ msg'.rest = {}
    <3>1. ~Left("spindle", t)'
      BY <2>4 DEF Left
    <3> QED
      BY <1>5, <2>1, <2>2, <2>4, <3>1 DEF PointerInv
  <2> QED
    BY <2>1, <2>3, <2>4
<1>6. ASSUME NEW c \in Slots, columns'[c].shown, columns'[c].field.kind = "rpm"
      PROVE  columns'[c].field.index \in host'.spindles \cap DOMAIN spindles'
  <2> DEFINE x == columns'[c].field
  <2>1. PICK t \in DOMAIN tools' :
            /\ tools'[t].spindle # Null
            /\ tools'[t].spindle \in Range(spindles') => x.index \in DOMAIN spindles'
    BY <1>6 DEF LaidOut, FieldOf
  <2>2. Pointed(t)'
    BY <1>5
  <2>3. tools'[t].spindle \in Range(spindles')
    BY <2>1, <2>2 DEF Pointed, Range
  <2> QED
    BY <1>4, <2>1, <2>3
<1> QED
  BY <1>6 DEF Shown, IsThere, LaidOut, FieldOf

LEMMA ShownStill ==
    ASSUME Shown, columns' = columns, combined' = combined,
           DOMAIN spindles \cap host.spindles \subseteq DOMAIN spindles' \cap host'.spindles,
           DOMAIN tools \subseteq DOMAIN tools', SlotsKept,
           \A t \in DOMAIN tools : DOMAIN tools[t].heaters \subseteq DOMAIN tools'[t].heaters,
           DOMAIN beds' = DOMAIN beds, DOMAIN chambers' = DOMAIN chambers
    PROVE  Shown'
BY DEF Shown, IsThere, SlotsKept

(* Every list has been read: the page has just been laid out, or they had   *)
(* been before and this is one of the steps that may follow.                *)
ListsStay ==
    /\ UNCHANGED <<spindles, beds, chambers, columns, combined>>
    /\ DOMAIN tools' = DOMAIN tools
    /\ \A t \in DOMAIN tools : /\ tools'[t].heaters = tools[t].heaters
                               /\ tools'[t].spindle = tools[t].spindle
                               /\ tools'[t].slot = tools[t].slot
    /\ DOMAIN spindles \cap host.spindles \subseteq host'.spindles
    /\ Calm' => Calm

(* What is created is in a list that holds something from then on.          *)
LEMMA Creates ==
    ASSUME TypeInv, UsedInv, NEW f \in msg.rest, IsNext(f), ReceiveField(f),
           used' = used \cup InUse'
    PROVE  /\ f.op \in ToolChanges => "tools" \in used'
           /\ f.op \in SpindleOps => "spindles" \in used'
           /\ f.op = "bed" => "beds" \in used'
           /\ f.op = "chamber" => "chambers" \in used'
<1>0. /\ DOMAIN tools # {} => "tools" \in used
      /\ DOMAIN spindles # {} => "spindles" \in used
      /\ DOMAIN beds # {} => "beds" \in used
      /\ DOMAIN chambers # {} => "chambers" \in used
  BY InUseIs DEF UsedInv
<1>1. \A list : DOMAIN list = {} => HasRoom(list)
  BY FS_EmptySet, Constants DEF HasRoom
<1>2. ASSUME f.op \in ToolChanges PROVE "tools" \in used'
  <2>1. DOMAIN tools = {} => DOMAIN tools' # {}
    BY <1>1, <1>2, ToolChangesDo DEF ToolsBecome
  <2> QED
    BY <1>0, <2>1, InUseNext
<1>3. ASSUME f.op \in SpindleOps PROVE "spindles" \in used'
  <2>0. DOMAIN spindles \subseteq Nat /\ host.spindles \subseteq Nat /\ lastSpindle \in Int
    BY ListsFinite
  <2>1. \E S : SpindlesBecome(f.i, S) /\ f.i \notin S
    <3>1. CASE f.op = "spActive"
      <4>1. SpindlesBecome(f.i, Skipped(lastSpindle, f.i)) /\ f.i \in host.spindles
        BY <3>1, ActionOf, SpActiveDoes, SpindleFieldOf
      <4>2. f.i \notin Skipped(lastSpindle, f.i)
        BY <2>0, <4>1 DEF Skipped
      <4> QED
        BY <4>1, <4>2
    <3>2. CASE f.op = "spCurrent"
      BY <3>2, ActionOf, SpCurrentDoes
    <3> QED
      BY <1>3, <3>1, <3>2 DEF SpindleOps
  <2>2. DOMAIN spindles = {} => DOMAIN spindles' # {}
    BY <1>1, <2>1 DEF SpindlesBecome
  <2> QED
    BY <1>0, <2>2, InUseNext
<1>4. \A i \in Nat : i \notin Skipped(msg.last, i)
  BY DEF Skipped
<1>5. /\ f.op = "bed" => f.i \in DOMAIN host.beds
      /\ f.op = "chamber" => f.i \in DOMAIN host.chambers
  BY Received, AnswerIs DEF TypeInv, SpindleOps, OtherToolOps
<1>6. ASSUME f.op = "bed" PROVE "beds" \in used'
  <2>1. HeatersBecome(beds', beds, f.i, host.beds[f.i], Skipped(msg.last, f.i))
    BY <1>6, ActionOf, BedDoes
  <2>2. f.i \notin Skipped(msg.last, f.i)
    BY <1>4, <1>5, <1>6, ListsFinite
  <2>3. DOMAIN beds = {} => DOMAIN beds' # {}
    BY <1>1, <2>1, <2>2 DEF HeatersBecome
  <2> QED
    BY <1>0, <2>3, InUseNext
<1>7. ASSUME f.op = "chamber" PROVE "chambers" \in used'
  <2>1. HeatersBecome(chambers', chambers, f.i, host.chambers[f.i],
                      Skipped(msg.last, f.i))
    BY <1>7, ActionOf, ChamberDoes
  <2>2. f.i \notin Skipped(msg.last, f.i)
    BY <1>4, <1>5, <1>7, ListsFinite
  <2>3. DOMAIN chambers = {} => DOMAIN chambers' # {}
    BY <1>1, <2>1, <2>2 DEF HeatersBecome
  <2> QED
    BY <1>0, <2>3, InUseNext
<1> QED
  BY <1>2, <1>3, <1>6, <1>7

LEMMA ReadReceived ==
    ASSUME TypeInv, UsedInv, NEW f \in msg.rest, IsNext(f), ReceiveField(f),
           used' = used \cup InUse', AllRead'
    PROVE  LaidOut \/ (AllRead /\ (msg.list = "status" \/ ListsStay))
<1>0. host \in Machines /\ msg # NoMessage /\ used \subseteq used'
  BY DEF TypeInv, NoMessage
<1>1. /\ f \in Answer(host, msg.list) /\ msg.list \in ListNames \cup {"status"}
      /\ UNCHANGED <<host, initialized, combined, crowded, meddled>>
      /\ msg'.list = msg.list /\ msg'.rest = msg.rest \ {f}
      /\ f.op # "seqs" => UNCHANGED <<changed, seqState>>
      /\ f.op # "spindle" => UNCHANGED unfound
  BY Received
<1>a. initialized /\ LeftOver = {} /\ \A l \in ListNames : Unheld(l)' => Unheld(l)
  BY <1>0, <1>1 DEF AllRead, LeftOver, Unheld
<1>2. CASE msg.list \in ListNames
  <2>1. seqState[msg.list] = "due" /\ f.op # "seqs"
    <3>1. seqState[msg.list] = "due"
      BY <1>0, <1>2 DEF TypeInv, MessageInv
    <3>2. msg.list # "status"
      BY <1>2, Constants
    <3> QED
      BY <1>0, <1>1, <3>1, <3>2, AnswerIs DEF SpindleOps, OtherToolOps
  <2>2. CASE f = End(msg.list)
    <3>1. CASE msg.list = "heat"
      BY <1>a, <2>2, <3>1, FieldIs, ActionOf, ChambersEndDoes DEF End, LayoutIf
    <3>2. CASE msg.list = "tools"
      BY <1>a, <2>2, <3>2, FieldIs, ActionOf, ToolsEndDoes DEF End, LayoutIf
    <3>3. CASE msg.list = "spindles"
      BY <1>a, <2>2, <3>3, FieldIs, ActionOf, SpindlesEndDoes DEF End, LayoutIf
    <3> QED
      BY <1>2, <3>1, <3>2, <3>3, Constants
  <2>3. CASE f # End(msg.list)
    <3>1. Unheld(msg.list)' /\ ~Whole(msg.list)'
      BY <1>1, <1>2, <2>1, <2>3, LastIs DEF AllRead, Whole
    <3>u. IF msg.list = "heat" THEN used' \cap {"beds", "chambers"} = {}
          ELSE msg.list \notin used'
      BY <1>1, <3>1 DEF Unheld
    <3>v. Unheld(msg.list)
      BY <1>0, <3>u DEF Unheld
    <3>2. f.op \in {"number", "bedsEnd"}
      <4>1. /\ f.op \in {"active"} \cup OtherToolOps => msg.list = "tools"
            /\ f.op \in SpindleOps => msg.list = "spindles"
            /\ f.op \in {"bed", "chamber"} => msg.list = "heat"
            /\ f.op \in {"toolsEnd", "spindlesEnd", "chambersEnd"} => f = End(msg.list)
            /\ f.op \in {"active", "toolsEnd", "spindlesEnd", "bed", "chamber",
                         "bedsEnd", "chambersEnd"} \cup OtherToolOps \cup SpindleOps
        BY <1>0, <1>1, <1>2, <2>1, AnswerIs, Constants DEF End, SpindleOps, OtherToolOps
      <4>2. OtherToolOps \subseteq ToolChanges \cup {"number"} /\ "active" \in ToolChanges
        BY DEF OtherToolOps, ToolChanges
      <4>3. /\ msg.list = "tools" => "tools" \notin used'
            /\ msg.list = "spindles" => "spindles" \notin used'
            /\ msg.list = "heat" => "beds" \notin used' /\ "chambers" \notin used'
        BY <3>u
      <4>4. f.op \notin ToolChanges \cup SpindleOps \cup {"bed", "chamber"}
        BY <4>1, <4>2, <4>3, Creates DEF ToolChanges
      <4> QED
        BY <2>3, <4>1, <4>2, <4>4
    <3>3. CASE f.op = "bedsEnd"
      BY <1>a, <3>3, ActionOf, BedsEndDoes DEF LayoutIf
    <3>4. CASE f.op = "number"
      <4>1. msg.list = "tools"
        BY <1>0, <1>1, <3>4, AnswerIs DEF SpindleOps, OtherToolOps
      <4>2. "tools" \notin used' /\ DOMAIN tools = {} /\ DOMAIN tools' = {}
        <5>1. "tools" \notin used' /\ "tools" \notin used
          BY <1>0, <3>u, <4>1
        <5> QED
          BY <5>1, InUseIs, InUseNext DEF UsedInv
      <4>3. UNCHANGED <<spindles, beds, chambers, columns>>
        BY <3>4, ActionOf, NumberDoes DEF OtherListsSame
      <4>4. AllRead
        <5>1. ASSUME NEW l \in ListNames PROVE Unheld(l) \/ Whole(l)
          <6>1. Unheld(l)' \/ Whole(l)'
            BY DEF AllRead
          <6>2. l # msg.list => (Whole(l)' => Whole(l))
            BY <1>1, <2>1 DEF Whole
          <6>3. l = msg.list => Unheld(l)
            BY <3>v
          <6> QED
            BY <1>a, <6>1, <6>2, <6>3
        <5>2. Unheld("tools")
          BY <3>v, <4>1
        <5> QED
          BY <1>a, <5>1, <5>2 DEF AllRead
      <4>5. Calm' => Calm
        BY <1>0, <1>1, Constants DEF Calm, Unheld, TypeInv
      <4> QED
        BY <1>1, <4>2, <4>3, <4>4, <4>5 DEF ListsStay
    <3> QED
      BY <3>2, <3>3, <3>4
  <2> QED
    BY <2>2, <2>3
<1>3. CASE msg.list = "status"
  <2>1. f.op \in {"seqs", "active"} \cup SpindleOps
    BY <1>0, <1>1, <1>3, AnswerIs, Constants
  <2>2. Unheld("tools") \/ unfound = {}
    BY <1>1, <1>a, <2>1, Constants DEF AllRead, SpindleOps
  <2>3. ASSUME NEW l \in ListNames PROVE Unheld(l) \/ Whole(l)
    <3> SUFFICES ASSUME ~Unheld(l) PROVE Whole(l)
      OBVIOUS
    <3>1. seqState'[l] = "ok" /\ l \notin changed'
      BY <1>1, <1>3, <1>a, Constants DEF AllRead, Whole
    <3>2. CASE f.op = "seqs"
      BY <3>1, <3>2, ActionOf DEF ReceiveSeqs, Whole
    <3>3. CASE f.op # "seqs"
      BY <1>1, <3>1, <3>3 DEF Whole
    <3> QED
      BY <3>2, <3>3
  <2> QED
    BY <1>3, <1>a, <2>2, <2>3 DEF AllRead
<1> QED
  BY <1>1, <1>2, <1>3

LEMMA ReadSteps ==
    ASSUME TypeInv, UsedInv, ToolInv, TypeInv', UsedInv', [Next]_vars, AllRead'
    PROVE  \/ LaidOut
           \/ AllRead /\ (ListsStay \/ SetInt)
           \/ /\ AllRead /\ msg.list = "status"
              /\ \E f \in msg.rest : IsNext(f) /\ ReceiveField(f)
<1>0. host \in Machines /\ host' \in Machines /\ NoMessage.list \notin ListNames
  BY Constants DEF TypeInv, NoMessage
<1> DEFINE Goal == \/ LaidOut
                   \/ AllRead /\ (ListsStay \/ SetInt)
                   \/ /\ AllRead /\ msg.list = "status"
                      /\ \E f \in msg.rest : IsNext(f) /\ ReceiveField(f)
<1> SUFFICES Goal
  OBVIOUS
<1>1. ASSUME NEW f \in msg.rest, IsNext(f), ReceiveField(f) PROVE Goal
  BY <1>1, UsedMarked, ReadReceived
<1>u. Quiet \/ RequestList \/ SetInt => used' = used
  BY UsedIs
<1>q. ~RequestList /\ ~Receive /\ ~SetInt => used' = used
  BY <1>u, QuietSteps
(* A step that leaves the machine and the lists as they are.                *)
<1>2. ASSUME UNCHANGED <<lists, columns, combined, crowded, meddled, host, initialized,
                         unfound>>,
             used' = used, \A l \in ListNames : Whole(l)' => Whole(l)
      PROVE  Goal
  <2>1. AllRead
    BY <1>2 DEF AllRead, LeftOver, Unheld
  <2>2. ListsStay
    BY <1>2 DEF ListsStay, Calm, Unheld, lists
  <2> QED
    BY <2>1, <2>2
<1> HIDE DEF Goal
<1>3. CASE Reconfigure
  <2>1. /\ UNCHANGED <<msg, seqState, columns, combined, lists, initialized, unfound,
                       crowded, meddled>>
        /\ msg = NoMessage /\ changed' = changed \cup Differing(host, host')
    BY <1>3 DEF Reconfigure, history
  <2>2. used' = used
    <3>1. ~Receive
      BY <2>1 DEF Receive, NoMessage
    <3>2. host' # host
      BY <1>3 DEF Reconfigure
    <3>3. ~RequestList /\ ~SetInt
      BY <3>2 DEF RequestList, SetInt, protocol
    <3> QED
      BY <1>q, <3>1, <3>3
  <2>3. ASSUME NEW l \in ListNames, ~Unheld(l)
        PROVE  Whole(l) /\ l \notin Differing(host, host')
    BY <1>0, <2>1, <2>2, <2>3 DEF AllRead, Whole, Unheld
  <2>4. ASSUME NEW l \in used PROVE l \in Ended(host)
    <3>1. l \in Ended(host') /\ l \in {"tools", "spindles", "beds", "chambers"}
      BY <2>2, <2>4 DEF AllRead, LeftOver, UsedInv, EndOf
    <3>2. CASE l \in {"beds", "chambers"}
      <4>1. "heat" \notin Differing(host, host')
        BY <2>3, <2>4, <3>2, Constants DEF Unheld
      <4>2. host.beds = host'.beds /\ host.chambers = host'.chambers
        BY <4>1 DEF Differing
      <4> QED
        BY <1>0, <3>1, <3>2, <4>2, EndedSame
    <3>3. CASE l \in {"tools", "spindles"}
      <4>1. l \notin Differing(host, host')
        BY <2>3, <2>4, <3>3, Constants DEF Unheld
      <4>2. host[l] = host'[l]
        BY <3>3, <4>1 DEF Differing
      <4> QED
        BY <1>0, <3>1, <3>3, <4>2, EndedSame
    <3> QED
      BY <3>1, <3>2, <3>3
  <2>5. AllRead
    BY <2>1, <2>2, <2>3, <2>4 DEF AllRead, LeftOver, Unheld
  <2>6. DOMAIN spindles \cap host.spindles \subseteq host'.spindles
    <3>1. CASE DOMAIN spindles = {}
      BY <3>1
    <3>2. CASE DOMAIN spindles # {}
      <4>1. "spindles" \notin Differing(host, host')
        BY <2>3, <3>2, InUseIs, Constants DEF UsedInv, Unheld
      <4> QED
        BY <4>1 DEF Differing
    <3> QED
      BY <3>1, <3>2
  <2>7. ListsStay
    BY <2>1, <2>2, <2>6 DEF ListsStay, Calm, Unheld, lists
  <2> QED
    BY <2>5, <2>7 DEF Goal
<1>4. CASE RequestList
  <2>1. PICK l \in ListNames :
            /\ seqState'[l] = "due" /\ msg'.list = l /\ msg'.rest = Answer(host, l)
            /\ \A n \in ListNames : seqState'[n] = "ok" <=> seqState[n] = "ok"
            /\ crowded' = IF Crowding(l) THEN crowded \cup {l} ELSE crowded \ {l}
            /\ meddled' = (meddled /\ l # "tools")
            /\ unfound' = IF l = "tools" THEN {} ELSE unfound
            /\ UNCHANGED <<host, changed, initialized, lists, columns, combined>>
    BY <1>4, RequestListDoes
  <2>2. used' = used /\ initialized /\ LeftOver = {}
    BY <1>4, <1>u, <2>1 DEF AllRead, LeftOver
  <2>3. Unheld(l)
    <3>1. CASE Unheld(l)'
      BY <2>2, <3>1 DEF Unheld
    <3>2. CASE Whole(l)'
      <4>1. Answer(host, l) = {}
        BY <2>1, <3>2 DEF Whole
      <4>2. /\ l = "heat" => "chambers" \notin Ended(host)
            /\ l = "tools" => "tools" \notin Ended(host)
            /\ l = "spindles" => "spindles" \notin Ended(host)
        BY <1>0, <4>1, AnswerHas
      <4> QED
        BY <1>0, <2>2, <4>2, EndedAre, Constants DEF Unheld, LeftOver
    <3> QED
      BY <3>1, <3>2 DEF AllRead
  <2>4. ASSUME NEW n \in ListNames PROVE Unheld(n) \/ Whole(n)
    <3>1. Unheld(n)' \/ Whole(n)'
      BY DEF AllRead
    <3>2. n # l /\ Whole(n)' => Whole(n)
      BY <2>1 DEF Whole
    <3> QED
      BY <2>2, <2>3, <3>1, <3>2 DEF Unheld
  <2>5. Unheld("tools") \/ (l # "tools" /\ unfound' = unfound)
    BY <2>1, <2>3
  <2>6. AllRead
    BY <2>2, <2>4, <2>5 DEF AllRead, Unheld
  <2>7. Calm' => Calm
    <3> SUFFICES ASSUME Calm' PROVE Calm
      OBVIOUS
    <3>1. \A n \in crowded : Unheld(n)
      BY <2>1, <2>2, <2>3 DEF Calm, Unheld
    <3>2. Unheld("tools") \/ ~meddled
      BY <2>1, <2>2, <2>5 DEF Calm, Unheld
    <3> QED
      BY <3>1, <3>2 DEF Calm
  <2>8. ListsStay
    BY <2>1, <2>7 DEF ListsStay, lists
  <2> QED
    BY <2>6, <2>8 DEF Goal
<1>5. CASE RequestStatus
  <2>1. /\ LayoutIf(~initialized)
        /\ UNCHANGED <<host, changed, combined, unfound, crowded, meddled>>
        /\ msg'.list = "status"
        /\ \A n \in ListNames : seqState'[n] = "ok" <=> seqState[n] = "ok"
    BY <1>5, RequestStatusDoes DEF RequestStatus, history
  <2>2. CASE ~initialized
    <3>1. LaidOut
      BY <2>1, <2>2, Zenon DEF LayoutIf
    <3> QED
      BY <3>1 DEF Goal
  <2>3. CASE initialized
    <3>1. \A l \in ListNames : Whole(l)' => Whole(l)
      BY <2>1, Constants DEF Whole
    <3>2. UNCHANGED <<lists, columns, initialized>>
      BY <1>5, <2>3 DEF RequestStatus, SeenIf, lists
    <3>3. used' = used
      BY <3>2, UsedMarked DEF lists, InUse, UsedInv
    <3> QED
      BY <1>2, <2>1, <3>1, <3>2, <3>3
  <2> QED
    BY <2>2, <2>3
<1>6. CASE RequestTimeout
  <2>1. /\ UNCHANGED <<host, changed, seqState, columns, combined, lists, initialized,
                       unfound, crowded, meddled>>
        /\ msg'.list = "status"
    BY <1>6 DEF RequestTimeout, protocol, Started
  <2>2. \A l \in ListNames : Whole(l)' => Whole(l)
    BY <2>1, Constants DEF Whole
  <2>3. used' = used
    BY <2>1, UsedMarked DEF lists, InUse, UsedInv
  <2> QED
    BY <1>2, <2>1, <2>2, <2>3
<1>7. CASE Reconnect
  BY <1>7 DEF Reconnect, AllRead
<1>8. CASE CutShort
  <2>1. /\ UNCHANGED <<host, changed, columns, combined, lists, initialized, unfound,
                       crowded, meddled>>
        /\ msg' = NoMessage
        /\ \A l \in ListNames : seqState'[l] = "ok" => seqState[l] = "ok"
    BY <1>8 DEF CutShort, TypeInv
  <2>2. \A l \in ListNames : Whole(l)' => Whole(l)
    BY <1>0, <2>1 DEF Whole
  <2>3. used' = used
    BY <2>1, UsedMarked DEF lists, InUse, UsedInv
  <2> QED
    BY <1>2, <2>1, <2>2, <2>3
<1>9. CASE EndReceivedMessage
  <2>1. /\ UNCHANGED <<host, changed, columns, combined, lists, initialized, unfound,
                       crowded, meddled>>
        /\ msg' = NoMessage /\ msg.rest = {}
        /\ \A l \in ListNames : seqState'[l] = "ok" => seqState[l] = "ok" \/ msg.list = l
    BY <1>9 DEF EndReceivedMessage, TypeInv, history
  <2>2. \A l \in ListNames : Whole(l)' => Whole(l)
    BY <1>0, <2>1 DEF Whole
  <2>3. used' = used
    BY <2>1, UsedMarked DEF lists, InUse, UsedInv
  <2> QED
    BY <1>2, <2>1, <2>2, <2>3
<1>10. CASE Adjust \/ PopupsCleared \/ UNCHANGED vars
  <2>1. UNCHANGED <<host, changed, seqState, msg, columns, combined, lists, initialized,
                    unfound, crowded, meddled>>
    BY <1>10 DEF Adjust, PopupsCleared, vars, protocol, history
  <2>2. \A l \in ListNames : Whole(l)' => Whole(l)
    BY <2>1 DEF Whole
  <2>3. used' = used
    BY <2>1, UsedMarked DEF lists, InUse, UsedInv
  <2> QED
    BY <1>2, <2>1, <2>2, <2>3
<1>11. CASE SetInt
  <2>1. UNCHANGED <<host, changed, seqState, msg, unfound, initialized>> /\ used' = used
    BY <1>11, <1>u, SetIntKeeps
  <2>2. AllRead
    BY <2>1 DEF AllRead, Whole, LeftOver, Unheld
  <2> QED
    BY <1>11, <2>2 DEF Goal
<1>12. CASE ChangeHeaterCombineType
  BY <1>12, CombineDoes DEF LayoutIf, Goal
<1> QED
  BY <1>1, <1>3, <1>4, <1>5, <1>6, <1>7, <1>8, <1>9, <1>10, <1>11, <1>12, ReceiveIs
     DEF Next, Step, Poll, User

LEMMA SeenReceived ==
    ASSUME TypeInv, SpindleInv, Shown, msg.list = "status",
           NEW f \in msg.rest, IsNext(f), ReceiveField(f)
    PROVE  Shown'
<1>0. host \in Machines
  BY DEF TypeInv
<1>1. f \in Answer(host, msg.list) /\ UNCHANGED <<host, combined>>
  BY Received
<1>2. f.op \in {"seqs", "active"} \cup SpindleOps
  BY <1>0, <1>1, AnswerIs, Constants
<1>3. SameBeds /\ SameChambers /\ DOMAIN spindles \cap host.spindles \subseteq DOMAIN spindles'
  BY <1>2, OtherLists, SpindlesStay DEF SpindleOps
<1>4. DOMAIN beds' = DOMAIN beds /\ DOMAIN chambers' = DOMAIN chambers
  BY <1>3 DEF SameBeds, SameChambers, SameHeaters
<1>5. CASE f.op = "active"
  <2>1. ToolsBecome(f.i, ActiveIs(f.i)) /\ SlotsKept /\ columns' = columns
    BY <1>5, ActionOf, ActiveDoes
  <2>2. OldTool(f.i) \in Tools
    BY OldToolIs
  <2>3. DOMAIN OldTool(f.i).heaters \subseteq DOMAIN ActiveIs(f.i).heaters
    BY <2>2, HeatersCreated DEF ActiveIs
  <2>4. \A t \in DOMAIN tools : DOMAIN tools[t].heaters \subseteq DOMAIN tools'[t].heaters
    BY <2>1, <2>3 DEF ToolsBecome, OldTool
  <2>5. DOMAIN tools \subseteq DOMAIN tools'
    BY <2>1 DEF ToolsBecome
  <2> QED
    BY <1>1, <1>3, <1>4, <2>1, <2>4, <2>5, ShownStill
<1>6. CASE f.op # "active"
  <2>1. UNCHANGED <<tools, columns>>
    <3>1. CASE f.op = "seqs"
      BY <3>1, ActionOf DEF ReceiveSeqs, lists
    <3>2. CASE f.op \in SpindleOps
      BY <3>2, ActionOf, SpActiveDoes, SpCurrentDoes DEF SpindleOps
    <3> QED
      BY <1>2, <1>6, <3>1, <3>2
  <2> QED
    BY <1>1, <1>3, <1>4, <2>1, ShownStill DEF SlotsKept
<1> QED
  BY <1>5, <1>6

LEMMA SeenKept ==
    /\ TypeInv /\ UsedInv /\ SpindleInv /\ ToolInv /\ SeenInv
    /\ TypeInv' /\ UsedInv' /\ SpindleInv' /\ ToolInv' /\ PointerInv'
    /\ [Next]_vars
    => SeenInv'
<1> SUFFICES ASSUME TypeInv, UsedInv, SpindleInv, ToolInv, SeenInv, TypeInv', UsedInv',
                    SpindleInv', ToolInv', PointerInv', [Next]_vars, AllRead'
             PROVE  Shown'
  BY DEF SeenInv
<1>1. CASE LaidOut
  BY <1>1, ShownWhenLaidOut
<1>2. CASE AllRead /\ ListsStay
  BY <1>2, ShownStill DEF SeenInv, ListsStay, SlotsKept
<1>3. CASE AllRead /\ SetInt
  <2>1. /\ UNCHANGED <<host, combined, spindles, columns>>
        /\ SameBeds /\ SameChambers
    BY <1>3, SetIntKeeps
  <2>2. /\ DOMAIN tools \subseteq DOMAIN tools' /\ SlotsKept
        /\ \A t \in DOMAIN tools : DOMAIN tools[t].heaters \subseteq DOMAIN tools'[t].heaters
    <3>1. CASE tools' = tools
      BY <3>1 DEF SlotsKept
    <3>2. CASE tools' # tools
      <4> DEFINE t == columns[adjusting.slot].field.index
                 x == GetOrCreateHeaters(tools[t], {HeaterPlace(t)})
      <4>1. t \in DOMAIN tools /\ SlotsKept /\ ToolsBecome(t, x)
        BY <1>3, <3>2, SetIntDoes
      <4>2. tools[t] \in Tools
        BY <4>1, Listed DEF TypeInv, ToolLists
      <4>3. DOMAIN tools[t].heaters \subseteq DOMAIN x.heaters
        BY <4>2, HeatersCreated
      <4> QED
        BY <4>1, <4>3 DEF ToolsBecome
    <3> QED
      BY <3>1, <3>2
  <2> QED
    BY <1>3, <2>1, <2>2, ShownStill DEF SeenInv, SameBeds, SameChambers, SameHeaters
<1>4. ASSUME AllRead, msg.list = "status",
             NEW f \in msg.rest, IsNext(f), ReceiveField(f)
      PROVE  Shown'
  BY <1>4, SeenReceived DEF SeenInv
<1> QED
  BY <1>1, <1>2, <1>3, <1>4, ReadSteps

LEMMA SeenInit == Init => SeenInv
BY DEF Init, SeenInv, AllRead

LEMMA TouchReceived ==
    ASSUME TypeInv, TouchInv, NEW f \in msg.rest, IsNext(f), ReceiveField(f),
           LeftOver = {} => LeftOver' = {}
    PROVE  TouchInv'
<1> SUFFICES ASSUME adjusting'.touched # NotAdjusting.touched PROVE TouchInv'
  BY DEF TouchInv
<1>0. host \in Machines /\ NoMessage.list = "none"
  BY DEF TypeInv, NoMessage
<1>1. /\ f \in Answer(host, msg.list) /\ msg.list \in ListNames \cup {"status"}
      /\ UNCHANGED <<initialized, adjusting>>
      /\ msg'.list = msg.list
      /\ f.op # "seqs" => UNCHANGED <<changed, seqState>>
      /\ f.op # "spindle" => UNCHANGED unfound
  BY Received
<1>2. /\ initialized /\ changed = {} /\ unfound = {} /\ LeftOver = {}
      /\ \A l \in ListNames : seqState[l] = "ok"
      /\ msg.list \in {"none", "status"}
      /\ columns[adjusting.slot].shown
      /\ columns[adjusting.slot].field = adjusting.touched
  BY <1>1 DEF TouchInv
<1>3. msg.list = "status"
  BY <1>1, <1>2, Constants
<1>4. f.op \in {"seqs", "active"} \cup SpindleOps
  BY <1>0, <1>1, <1>3, AnswerIs, Constants
<1>5. CASE f.op = "seqs"
  BY <1>1, <1>2, <1>5, ActionOf DEF ReceiveSeqs, TouchInv
<1>6. CASE f.op # "seqs"
  <2>1. columns' = columns
    BY <1>4, <1>6, ActionOf, ActiveDoes, SpActiveDoes, SpCurrentDoes DEF SpindleOps
  <2> QED
    BY <1>1, <1>2, <1>4, <1>6, <2>1 DEF TouchInv, SpindleOps
<1> QED
  BY <1>5, <1>6

LEMMA TouchKept ==
    TypeInv /\ UsedInv /\ ToolInv /\ TypeInv' /\ TouchInv /\ [Next]_vars => TouchInv'
<1> SUFFICES ASSUME TypeInv, UsedInv, ToolInv, TypeInv', TouchInv, [Next]_vars,
                    adjusting'.touched # NotAdjusting.touched
             PROVE  TouchInv'
  BY DEF TouchInv
<1> DEFINE Read ==
        /\ initialized /\ changed = {} /\ unfound = {} /\ LeftOver = {}
        /\ \A l \in ListNames : seqState[l] = "ok"
        /\ msg.list \in {"none", "status"}
        /\ columns[adjusting.slot].shown
        /\ columns[adjusting.slot].field = adjusting.touched
<1>0. adjusting' # NotAdjusting
  OBVIOUS
<1>l. host' = host /\ LeftOver = {} => LeftOver' = {}
  BY UsedIs DEF LeftOver
<1>1. ASSUME NEW f \in msg.rest, IsNext(f), ReceiveField(f) PROVE TouchInv'
  BY <1>1, <1>l, TouchReceived, Received
<1>2. adjusting' = adjusting => Read
  BY DEF TouchInv
<1>3. CASE Reconfigure
  <2>1. adjusting' = Disturbed /\ adjusting # NotAdjusting
    BY <1>0, <1>3 DEF Reconfigure, Disturbed
  <2>2. adjusting' = [adjusting EXCEPT !.touched = NotAdjusting.touched]
    BY <2>1 DEF Disturbed
  <2>3. adjusting = [slot |-> adjusting.slot, touched |-> adjusting.touched]
    BY <2>1 DEF TypeInv, AdjustInv
  <2>4. adjusting'.touched = NotAdjusting.touched
    BY <2>2, <2>3
  <2> QED
    BY <2>4
<1>4. CASE RequestList
  <2>1. \E l \in ListNames : seqState[l] = "due" /\ adjusting' = adjusting
    BY <1>4, RequestListDoes
  <2> QED
    BY <1>2, <2>1
<1>5. CASE RequestStatus
  <2>1. /\ UNCHANGED <<host, changed, unfound, adjusting>> /\ initialized' = TRUE
        /\ LayoutIf(~initialized) /\ msg'.list = "status"
        /\ \A n \in ListNames : seqState'[n] = "ok" <=> seqState[n] = "ok"
    BY <1>5, RequestStatusDoes
  <2>2. columns' = columns
    BY <1>2, <2>1, Zenon DEF LayoutIf
  <2> QED
    BY <1>2, <1>l, <2>1, <2>2 DEF TouchInv
<1>6. CASE RequestTimeout
  <2>1. /\ UNCHANGED <<host, changed, unfound, adjusting, initialized, seqState, columns>>
        /\ msg'.list = "status"
    BY <1>6 DEF RequestTimeout, protocol, Started
  <2> QED
    BY <1>2, <1>l, <2>1 DEF TouchInv
<1>7. CASE Reconnect
  BY <1>0, <1>7 DEF Reconnect
<1>8. CASE CutShort \/ EndReceivedMessage
  <2>1. /\ UNCHANGED <<host, changed, unfound, adjusting, initialized, columns>>
        /\ msg # NoMessage /\ msg'.list = "none"
        /\ msg.list = "status" => seqState' = seqState
    BY <1>8 DEF CutShort, EndReceivedMessage, history, NoMessage
  <2>2. msg.list = "status"
    BY <1>2, <2>1, Constants DEF TypeInv, MessageInv
  <2> QED
    BY <1>2, <1>l, <2>1, <2>2 DEF TouchInv
<1>9. CASE Adjust
  <2>1. PICK c \in Slots :
            /\ columns[c].shown
            /\ adjusting' = [slot |-> c,
                   touched |-> IF /\ IsSettled /\ LeftOver = {}
                                  /\ ~meddled /\ unfound = {}
                               THEN columns[c].field ELSE NotAdjusting.touched]
    BY <1>9 DEF Adjust
  <2>2. /\ UNCHANGED <<host, changed, unfound, initialized, seqState, columns, msg>>
    BY <1>9 DEF Adjust, protocol, history
  <2>3. IsSettled /\ LeftOver = {} /\ unfound = {} /\ adjusting'.slot = c
        /\ adjusting'.touched = columns[c].field
    BY <2>1
  <2> QED
    BY <1>l, <2>1, <2>2, <2>3 DEF TouchInv, IsSettled, NoMessage
<1>10. CASE PopupsCleared \/ SetInt \/ ChangeHeaterCombineType
  BY <1>0, <1>10, SetIntDoes, CombineDoes DEF PopupsCleared
<1>11. CASE UNCHANGED vars
  <2>1. UNCHANGED <<host, changed, unfound, adjusting, initialized, seqState, columns,
                    msg>>
    BY <1>11 DEF vars, protocol, history
  <2> QED
    BY <1>2, <1>l, <2>1 DEF TouchInv
<1> QED
  BY <1>1, <1>3, <1>4, <1>5, <1>6, <1>7, <1>8, <1>9, <1>10, <1>11, ReceiveIs
     DEF Next, Step, Poll, User

LEMMA TouchInit == Init => TouchInv
BY DEF Init, TouchInv

LEMMA TouchedIsThere == TypeInv /\ SeenInv /\ TouchInv => AdjustedIsTouched
<1> SUFFICES ASSUME TypeInv, SeenInv, TouchInv, adjusting.touched # NotAdjusting.touched
             PROVE  AdjustedIsTouched
  BY DEF AdjustedIsTouched
<1>1. adjusting # NotAdjusting
  OBVIOUS
<1>2. adjusting.slot \in Slots
  BY <1>1 DEF TypeInv, AdjustInv
<1>3. AllRead
  BY DEF TouchInv, AllRead, Whole
<1>4. IsThere(columns[adjusting.slot].field, adjusting.slot)
  BY <1>2, <1>3 DEF SeenInv, Shown, TouchInv
<1> QED
  BY <1>4 DEF TouchInv, IsThere, AdjustedIsTouched, HeaterPlace

-----------------------------------------------------------------------------
(* Heaters *)

LEMMA NumberIs ==
    ASSUME TypeInv, NEW t \in DOMAIN host.tools
    PROVE  Len(host.tools[t].heaters) \in Nat
           /\ (host.tools[t].heaters = <<>> => Len(host.tools[t].heaters) = 0)
BY OfMachines DEF TypeInv

(* The heaters of a tool that have been read stay, and no other follows.    *)
LEMMA HeatersStay ==
    ASSUME TypeInv, ToolInv, NEW f \in msg.rest, IsNext(f), ReceiveField(f),
           NEW t \in DOMAIN tools, t \in DOMAIN host.tools,
           ~(f.op = "heaters" /\ f.i = t)
    PROVE  /\ t \in DOMAIN tools'
           /\ NumbersRead(t) => NumbersRead(t)'
           /\ HeatersRead(t) => HeatersRead(t)'
<1> DEFINE n == Len(host.tools[t].heaters)
<1>0. n \in Nat /\ host' = host /\ Places \subseteq Int
  BY NumberIs, Received, Constants DEF Places
<1>1. t \in DOMAIN tools'
  BY ToolsStay
<1>2. tools[t] \in Tools /\ OldTool(t) = tools[t]
  BY Listed DEF TypeInv, ToolLists, OldTool
<1> DEFINE Stays(x) ==
        /\ \A i \in DOMAIN tools[t].heaters :
              i < n => i \in DOMAIN x.heaters /\ x.heaters[i] = tools[t].heaters[i]
        /\ n \notin DOMAIN tools[t].heaters => n \notin DOMAIN x.heaters
<1>3. Stays(tools'[t])
  <2>1. ASSUME NEW x, ToolsBecome(f.i, x), f.i = t => Stays(x) PROVE Stays(tools'[t])
    BY <1>0, <1>1, <2>1 DEF ToolsBecome
  <2>2. CASE f.op = "active"
    <3>1. f.i = t => Stays(ActiveIs(f.i))
      <4>1. /\ DOMAIN ActiveIs(t).heaters
                  = DOMAIN tools[t].heaters \cup (0 .. n - 1 \cap Places)
            /\ \A i \in DOMAIN tools[t].heaters :
                  ActiveIs(t).heaters[i] = tools[t].heaters[i]
        BY <1>2, HeatersCreated DEF ActiveIs
      <4> QED
        BY <1>0, <4>1
    <3> QED
      BY <2>1, <2>2, <3>1, ActionOf, ActiveDoes
  <2>3. CASE f.op \in {"extruders", "offsets"}
    BY <1>2, <2>1, <2>3, ActionOf, OtherFieldDoes
  <2>4. CASE f.op = "heaters"
    BY <1>1, <2>4, ActionOf, HeatersDo DEF ToolsBecome
  <2>5. CASE f.op = "heatersEnd"
    <3>1. f.i = t => Stays(ShortenedIs(f.i))
      <4>1. /\ DOMAIN ShortenedIs(t).heaters \subseteq DOMAIN tools[t].heaters \ {n}
            /\ \A i \in DOMAIN tools[t].heaters : i < n => i \in DOMAIN ShortenedIs(t).heaters
            /\ \A i \in DOMAIN ShortenedIs(t).heaters :
                  ShortenedIs(t).heaters[i] = tools[t].heaters[i]
        <5>1. ShortenedIs(t) = RemoveHeatersFrom(tools[t], n)
          BY <1>2 DEF ShortenedIs
        <5> HIDE DEF n
        <5> QED
          BY <1>0, <1>2, <5>1, HeatersRemoved
      <4> QED
        BY <4>1
    <3> QED
      BY <2>1, <2>5, <3>1, ActionOf, HeatersEndDoes
  <2>6. CASE f.op = "spindle"
    <3>1. f.i = t => PointedIs(f.i).heaters = tools[t].heaters
      BY <1>2, ToolFieldsAre
    <3> QED
      BY <2>1, <2>6, <3>1, ActionOf, SpindleDoes
  <2>7. CASE f.op = "number"
    <3>1. SameTools(Without(tools, Skipped(msg.last, f.i)))
      BY <2>7, ActionOf, NumberDoes
    <3> QED
      BY <1>1, <3>1 DEF SameTools, Without, Restrict
  <2>8. CASE f.op = "toolsEnd"
    <3>1. SameTools(Without(tools, AllFollowing(tools, msg.last + 1)))
      BY <2>8, ActionOf, ToolsEndDoes
    <3> QED
      BY <1>1, <3>1 DEF SameTools, Without, Restrict
  <2>9. CASE f.op \notin ToolChanges \cup {"number", "toolsEnd"}
    BY <2>9, OtherLists DEF SameTools
  <2> QED
    BY <2>2, <2>3, <2>4, <2>5, <2>6, <2>7, <2>8, <2>9 DEF ToolChanges
<1>4. NumbersRead(t) => NumbersRead(t)'
  BY <1>0, <1>3 DEF NumbersRead
<1>5. HeatersRead(t) => HeatersRead(t)'
  BY <1>0, <1>3, <1>4 DEF HeatersRead
<1> QED
  BY <1>1, <1>4, <1>5

LEMMA HeatersReceived ==
    ASSUME TypeInv, ToolInv, HeatersInv, NEW f \in msg.rest, IsNext(f), ReceiveField(f)
    PROVE  HeatersInv'
<1>0. /\ DOMAIN tools \subseteq Nat /\ DOMAIN host.tools \subseteq Nat
      /\ host \in Machines /\ IsFiniteSet(DOMAIN tools) /\ IsFiniteSet(DOMAIN host.tools)
  BY ListsFinite
<1>1. /\ f \in Answer(host, msg.list) /\ msg.list \in ListNames \cup {"status"}
      /\ UNCHANGED <<host, crowded, meddled>>
      /\ msg'.list = msg.list /\ msg'.rest = msg.rest \ {f}
  BY Received
<1> SUFFICES ASSUME ~meddled, "tools" \notin crowded
             PROVE  /\ msg.list = "tools" => \A t \in DOMAIN host.tools :
                          /\ \/ Left("heaters", t)' \/ host.tools[t].heaters = <<>>
                             \/ t \in DOMAIN tools' /\ NumbersRead(t)'
                          /\ Left("heatersEnd", t)' \/ (t \in DOMAIN tools' /\ HeatersRead(t)')
                    /\ Fresh("tools")' => \A t \in DOMAIN tools' \cap DOMAIN host.tools :
                          HeatersRead(t)'
  BY <1>1 DEF HeatersInv
<1>2. ASSUME NEW t \in DOMAIN host.tools, f = Field("heaters", t), msg.list = "tools"
      PROVE  t \in DOMAIN tools' /\ NumbersRead(t)'
  <2>1. f.op = "heaters" /\ f.i = t
    BY <1>2, FieldIs
  <2>2. ToolsBecome(t, NumberedIs(t))
    BY <2>1, ActionOf, HeatersDo
  <2>3. OldTool(t) \in Tools
    BY OldToolIs
  <2>4. \A i \in Places : i < Len(host.tools[t].heaters) =>
            /\ i \in DOMAIN NumberedIs(t).heaters
            /\ NumberedIs(t).heaters[i] = host.tools[t].heaters[i + 1]
    BY <1>0, <2>3, HeatersNumbered DEF NumberedIs
  <2>5. t \in DOMAIN tools'
    <3>1. HasRoom(tools) \/ t \in DOMAIN tools
      BY <1>0, <1>2, RoomLeft DEF ToolInv, HasRoom
    <3> QED
      BY <2>2, <3>1 DEF ToolsBecome
  <2> QED
    BY <1>1, <2>2, <2>4, <2>5 DEF ToolsBecome, NumbersRead
<1>3. ASSUME NEW t \in DOMAIN host.tools, f = Field("heatersEnd", t), msg.list = "tools"
      PROVE  t \in DOMAIN tools' /\ HeatersRead(t)'
  <2> DEFINE n == Len(host.tools[t].heaters)
             old == OldTool(t)
  <2>0. n \in Nat /\ (host.tools[t].heaters = <<>> => n = 0) /\ Places \subseteq Nat
    BY NumberIs, Constants DEF Places
  <2>1. f.op = "heatersEnd" /\ f.i = t
    BY <1>3, FieldIs
  <2>2. ToolsBecome(t, ShortenedIs(t)) /\ old \in Tools
    BY <2>1, ActionOf, HeatersEndDoes, OldToolIs
  <2>3. ~Left("heaters", t)
    <3>1. Field("heaters", t) # f
      BY <2>1, FieldIs
    <3>2. ~Precedes(f, Field("heaters", t))
      BY <1>0, <1>3, Order
    <3> QED
      BY <3>1, <3>2 DEF IsNext, Left
  <2>4. \A i \in Places : i < n =>
            i \in DOMAIN old.heaters /\ old.heaters[i] = host.tools[t].heaters[i + 1]
    <3>1. CASE host.tools[t].heaters = <<>>
      BY <2>0, <3>1
    <3>2. CASE t \in DOMAIN tools /\ NumbersRead(t)
      BY <3>2 DEF NumbersRead, OldTool
    <3> QED
      BY <1>3, <2>3, <3>1, <3>2 DEF HeatersInv
  <2>5. /\ DOMAIN ShortenedIs(t).heaters \subseteq DOMAIN old.heaters \ {n}
        /\ \A i \in DOMAIN old.heaters : i < n => i \in DOMAIN ShortenedIs(t).heaters
        /\ \A i \in DOMAIN ShortenedIs(t).heaters : ShortenedIs(t).heaters[i] = old.heaters[i]
    BY <2>0, <2>2, HeatersRemoved DEF ShortenedIs
  <2>6. t \in DOMAIN tools'
    <3>1. HasRoom(tools) \/ t \in DOMAIN tools
      BY <1>0, <1>3, RoomLeft DEF ToolInv, HasRoom
    <3> QED
      BY <2>2, <3>1 DEF ToolsBecome
  <2>7. tools'[t].heaters = ShortenedIs(t).heaters
    BY <2>2, <2>6 DEF ToolsBecome
  <2>8. NumbersRead(t)'
    BY <1>1, <2>4, <2>5, <2>7 DEF NumbersRead
  <2> QED
    BY <1>1, <2>5, <2>6, <2>7, <2>8 DEF HeatersRead
<1>4. ASSUME msg.list = "tools", NEW t \in DOMAIN host.tools
      PROVE  /\ \/ Left("heaters", t)' \/ host.tools[t].heaters = <<>>
                \/ t \in DOMAIN tools' /\ NumbersRead(t)'
             /\ Left("heatersEnd", t)' \/ (t \in DOMAIN tools' /\ HeatersRead(t)')
  <2>1. f = Field(f.op, f.i)
    BY <1>0, <1>1, AnswerIs
  <2>2. CASE f = Field("heaters", t)
    <3>1. Left("heatersEnd", t)'
      <4>1. Field("heatersEnd", t) # f /\ Field("heatersEnd", t) \in Answer(host, msg.list)
        BY <1>0, <1>4, <2>2, AnswerHas, FieldIs
      <4>2. ~Precedes(Field("heatersEnd", t), f)
        BY <1>0, <2>2, Order
      <4> QED
        BY <1>1, <4>1, <4>2, InOrder DEF Left
    <3> QED
      BY <1>2, <1>4, <2>2, <3>1
  <2>3. CASE f = Field("heatersEnd", t)
    <3>1. t \in DOMAIN tools' /\ HeatersRead(t)'
      BY <1>3, <1>4, <2>3
    <3> QED
      BY <3>1 DEF HeatersRead
  <2>4. CASE f # Field("heaters", t) /\ f # Field("heatersEnd", t)
    <3>1. /\ Left("heaters", t) => Left("heaters", t)'
          /\ Left("heatersEnd", t) => Left("heatersEnd", t)'
      BY <1>1, <2>4 DEF Left
    <3>2. ~(f.op = "heaters" /\ f.i = t)
      BY <2>1, <2>4
    <3>3. t \in DOMAIN tools =>
              /\ t \in DOMAIN tools'
              /\ NumbersRead(t) => NumbersRead(t)'
              /\ HeatersRead(t) => HeatersRead(t)'
      BY <3>2, HeatersStay
    <3> QED
      BY <1>4, <3>1, <3>3 DEF HeatersInv
  <2> QED
    BY <2>2, <2>3, <2>4
<1>5. ASSUME Fresh("tools")', NEW t \in DOMAIN tools' \cap DOMAIN host.tools
      PROVE  HeatersRead(t)'
  <2>1. Fresh("tools")
    BY <1>5, OtherLists, Constants
  <2>2. msg.list # "tools"
    BY <2>1, Constants DEF Fresh, TypeInv, MessageInv, NoMessage
  <2>3. t \in DOMAIN tools
    BY <2>1 DEF ToolInv
  <2>4. f.op # "heaters"
    BY <1>0, <1>1, <2>2, AnswerIs DEF SpindleOps, OtherToolOps
  <2> QED
    BY <2>1, <2>3, <2>4, HeatersStay DEF HeatersInv
<1> QED
  BY <1>4, <1>5

LEMMA HeatersQuiet ==
    ASSUME TypeInv, TypeInv', ToolInv, HeatersInv, Quiet
    PROVE  HeatersInv'
<1>1. /\ DOMAIN tools' = DOMAIN tools /\ UNCHANGED <<crowded, meddled>>
      /\ \A t \in DOMAIN tools : tools'[t].heaters = tools[t].heaters
  BY DEF Quiet, SameTools
<1>2. ASSUME host'.tools = host.tools, NEW t \in DOMAIN tools
      PROVE  /\ NumbersRead(t) => NumbersRead(t)'
             /\ HeatersRead(t) => HeatersRead(t)'
  BY <1>1, <1>2 DEF NumbersRead, HeatersRead
<1> SUFFICES ASSUME ~meddled, "tools" \notin crowded
             PROVE  HeatersInv'
  BY <1>1 DEF HeatersInv
<1>3. CASE msg'.list = "tools"
  <2>1. msg' = msg /\ host' = host /\ msg.list = "tools"
    BY <1>3, Constants DEF Quiet, NoMessage
  <2>2. ~Fresh("tools")'
    BY <1>3, Constants DEF Fresh, TypeInv, MessageInv, NoMessage
  <2> QED
    BY <1>1, <1>2, <2>1, <2>2 DEF HeatersInv, Left
<1>4. CASE msg'.list # "tools"
  <2>1. ASSUME Fresh("tools")', NEW t \in DOMAIN tools \cap DOMAIN host'.tools
        PROVE  HeatersRead(t)'
    <3>1. host'.tools = host.tools
      BY <2>1 DEF Quiet
    <3>2. CASE Fresh("tools")
      BY <1>2, <2>1, <3>1, <3>2 DEF HeatersInv
    <3>3. CASE msg.list = "tools" /\ msg.rest = {}
      BY <1>2, <2>1, <3>1, <3>3 DEF HeatersInv, ToolInv, Left
    <3> QED
      BY <2>1, <3>2, <3>3, Constants DEF Quiet
  <2> QED
    BY <1>1, <1>4, <2>1 DEF HeatersInv
<1> QED
  BY <1>3, <1>4

LEMMA HeatersRequested ==
    ASSUME TypeInv, HeatersInv, RequestList
    PROVE  HeatersInv'
<1>1. PICK l \in ListNames :
          /\ seqState[l] = "due"
          /\ \A n \in ListNames : seqState'[n] = "ok" <=> seqState[n] = "ok"
          /\ msg'.list = l /\ msg'.rest = Answer(host, l)
          /\ crowded' = IF Crowding(l) THEN crowded \cup {l} ELSE crowded \ {l}
          /\ meddled' = (meddled /\ l # "tools")
          /\ UNCHANGED <<host, changed, lists>>
  BY RequestListDoes
<1>2. tools' = tools /\ host \in Machines
  BY <1>1 DEF lists, TypeInv
<1>3. CASE l = "tools"
  <2>1. ~Fresh("tools")'
    BY <1>1, <1>3 DEF Fresh
  <2>2. \A t \in DOMAIN host.tools :
            /\ host.tools[t].heaters # <<>> => Left("heaters", t)'
            /\ Left("heatersEnd", t)'
    BY <1>1, <1>2, <1>3, AnswerHas DEF Left
  <2> QED
    BY <1>1, <2>1, <2>2 DEF HeatersInv
<1>4. CASE l # "tools"
  <2>1. Fresh("tools")' => Fresh("tools")
    BY <1>1, Constants DEF Fresh
  <2>2. ("tools" \in crowded' <=> "tools" \in crowded) /\ (meddled => meddled')
    BY <1>1, <1>4
  <2> QED
    BY <1>1, <1>2, <1>4, <2>1, <2>2 DEF HeatersInv, HeatersRead, NumbersRead
<1> QED
  BY <1>3, <1>4

(* Heaters that are there are not created.                                  *)
LEMMA NoneCreated ==
    ASSUME NEW tool \in Tools, NEW places, places \cap Places \subseteq DOMAIN tool.heaters
    PROVE  GetOrCreateHeaters(tool, places).heaters = tool.heaters
<1>1. PICK y : /\ y = GetOrCreateHeaters(tool, places) /\ y \in Tools
               /\ DOMAIN y.heaters = DOMAIN tool.heaters \cup (places \cap Places)
               /\ \A i \in DOMAIN tool.heaters : y.heaters[i] = tool.heaters[i]
  BY HeatersCreated
<1>2. DOMAIN y.heaters = DOMAIN tool.heaters
  BY <1>1
<1>3. /\ y.heaters \in [DOMAIN y.heaters -> Heaters]
      /\ tool.heaters \in [DOMAIN tool.heaters -> Heaters]
  BY <1>1, ToolIs
<1>4. y.heaters = [i \in DOMAIN y.heaters |-> y.heaters[i]]
  BY <1>3
<1>5. tool.heaters = [i \in DOMAIN tool.heaters |-> tool.heaters[i]]
  BY <1>3
<1>6. [i \in DOMAIN y.heaters |-> y.heaters[i]]
         = [i \in DOMAIN tool.heaters |-> tool.heaters[i]]
  BY <1>1, <1>2
<1> QED
  BY <1>1, <1>4, <1>5, <1>6

(* A value set for a field that was touched creates no heater.              *)
LEMMA HeatersStaySet ==
    ASSUME TypeInv, SeenInv, TouchInv, SetInt,
           adjusting.touched # NotAdjusting.touched
    PROVE  \A t \in DOMAIN tools : tools'[t].heaters = tools[t].heaters
<1>1. CASE tools' = tools
  BY <1>1
<1>2. CASE tools' # tools
  <2> DEFINE t == columns[adjusting.slot].field.index
             x == GetOrCreateHeaters(tools[t], {HeaterPlace(t)})
  <2>1. /\ columns[adjusting.slot].field.kind = "tool" /\ t \in DOMAIN tools
        /\ ToolsBecome(t, x)
    BY <1>2, SetIntDoes
  <2>2. tools[t] \in Tools
    BY <2>1, Listed DEF TypeInv, ToolLists
  <2>3. HeaterPlace(t) \in DOMAIN tools[t].heaters
    BY <2>1, TouchedIsThere DEF AdjustedIsTouched
  <2>4. x.heaters = tools[t].heaters
    BY <2>2, <2>3, NoneCreated
  <2> HIDE DEF x
  <2> QED
    BY <2>1, <2>4 DEF ToolsBecome
<1> QED
  BY <1>1, <1>2

LEMMA HeatersSet ==
    ASSUME TypeInv, SeenInv, TouchInv, HeatersInv, SetInt
    PROVE  HeatersInv'
<1>1. /\ DOMAIN tools' = DOMAIN tools
      /\ UNCHANGED <<host, changed, seqState, msg, crowded>>
      /\ meddled' = (meddled \/ adjusting.touched = NotAdjusting.touched)
  BY SetIntKeeps, SetIntDoes
<1> SUFFICES ASSUME ~meddled, adjusting.touched # NotAdjusting.touched
             PROVE  HeatersInv'
  BY <1>1 DEF HeatersInv
<1>2. \A t \in DOMAIN tools : tools'[t].heaters = tools[t].heaters
  BY HeatersStaySet
<1> QED
  BY <1>1, <1>2 DEF HeatersInv, HeatersRead, NumbersRead, Left, Fresh

LEMMA HeatersKept ==
    /\ TypeInv /\ ToolInv /\ SeenInv /\ TouchInv /\ HeatersInv
    /\ TypeInv' /\ [Next]_vars
    => HeatersInv'
<1> SUFFICES ASSUME TypeInv, ToolInv, SeenInv, TouchInv, HeatersInv, TypeInv', [Next]_vars
             PROVE  HeatersInv'
  OBVIOUS
<1> QED
  BY Steps, HeatersQuiet, HeatersRequested, HeatersReceived, HeatersSet

LEMMA HeatersInit == Init => HeatersInv
BY Constants DEF Init, HeatersInv, NoMessage, Fresh

-----------------------------------------------------------------------------
(* The layout *)

LEMMA PlacedStill ==
    ASSUME Placed, combined' = combined, UNCHANGED <<spindles, beds, chambers, columns>>,
           DOMAIN tools' = DOMAIN tools,
           \A t \in DOMAIN tools : /\ tools'[t].heaters = tools[t].heaters
                                   /\ tools'[t].spindle = tools[t].spindle
                                   /\ tools'[t].slot = tools[t].slot
    PROVE  Placed'
<1> DEFINE things == Things(tools, beds, chambers)
           At(x) == Start(x, tools, beds, chambers, combined)
           OwnedBy(x, c) == Owns(x, c, tools, beds, chambers, combined)
<1>1. \A t \in DOMAIN tools : ToolWidth(tools'[t], combined) = ToolWidth(tools[t], combined)
  BY DEF ToolWidth, NumHeaters
<1>2. /\ Things(tools', beds, chambers) = things
      /\ \A x \in things : Start(x, tools', beds, chambers, combined) = At(x)
      /\ \A x, c : Owns(x, c, tools', beds, chambers, combined) <=> OwnedBy(x, c)
  BY <1>1, PlacesDepend
<1>3. ASSUME NEW x \in things
      PROVE  /\ SlotOf(x, tools', beds, chambers) = SlotOf(x, tools, beds, chambers)
             /\ \A junk : AdjustEvent(x, tools', spindles, junk)
                             = AdjustEvent(x, tools, spindles, junk)
  <2>1. x.kind \in {"tool", "bed", "chamber"} /\ (x.kind = "tool" => x.index \in DOMAIN tools)
    BY DEF Things, Thing
  <2> HIDE DEF things
  <2>2. \A junk : AdjustEvent(x, tools', spindles, junk) = AdjustEvent(x, tools, spindles, junk)
    BY <2>1, EventDepends
  <2> QED
    BY <2>1, <2>2 DEF SlotOf
<1>4. ASSUME NEW x, NEW c, OwnedBy(x, c),
             ColumnIs(columns[c], c, x, tools, spindles, beds, chambers, combined)
      PROVE  ColumnIs(columns[c], c, x, tools', spindles, beds, chambers, combined)
  <2>1. x \in things
    BY <1>4 DEF Owns
  <2> HIDE DEF things
  <2> QED
    BY <1>2, <1>3, <1>4, <2>1, Zenon DEF ColumnIs
<1> HIDE DEF things, At, OwnedBy
<1>5. ASSUME NEW c \in Slots
      PROVE  \/ \E x : /\ Owns(x, c, tools', beds, chambers, combined)
                       /\ ColumnIs(columns[c], c, x, tools', spindles, beds, chambers,
                                   combined)
             \/ /\ \A x : ~Owns(x, c, tools', beds, chambers, combined)
                /\ ~columns[c].shown /\ ~columns[c].button.shown
  <2>1. \/ \E x : /\ OwnedBy(x, c)
                  /\ ColumnIs(columns[c], c, x, tools, spindles, beds, chambers, combined)
        \/ (\A x : ~OwnedBy(x, c)) /\ ~columns[c].shown /\ ~columns[c].button.shown
    BY DEF Placed, PlacedAs, OwnedBy
  <2> QED
    BY <1>2, <1>4, <2>1, Zenon
<1>6. ASSUME NEW x \in things, At(x) \in Slots
      PROVE  SlotOf(x, tools, beds, chambers) = At(x)
  BY <1>6 DEF Placed, PlacedAs, things, At
<1>7. PlacedAs(tools', spindles, beds, chambers, combined, columns)
  BY <1>2, <1>3, <1>5, <1>6 DEF PlacedAs
<1> QED
  BY <1>7 DEF Placed

(* Live values of a machine that has been read add nothing to it.           *)
LEMMA PlacedReceived ==
    ASSUME TypeInv, TypeInv', UsedInv, SpindleInv, ToolInv, HeatersInv, Placed,
           used' = used \cup InUse', AllRead', Calm', msg.list = "status",
           NEW f \in msg.rest, IsNext(f), ReceiveField(f)
    PROVE  Placed'
<1>0. host \in Machines
  BY DEF TypeInv
<1>1. /\ f \in Answer(host, msg.list) /\ UNCHANGED <<host, combined, crowded, meddled>>
      /\ msg'.list = msg.list
      /\ f.op # "seqs" => UNCHANGED <<changed, seqState>>
  BY Received, Constants
<1>2. f.op \in {"seqs", "active"} \cup SpindleOps
  BY <1>0, <1>1, AnswerIs, Constants
<1>3. ASSUME NEW l \in {"tools", "spindles"}, l \in used', f.op # "seqs"
      PROVE  /\ Fresh(l) /\ l \in Ended(host) /\ l \notin crowded
             /\ l = "tools" => ~meddled
  <2>1. l \in ListNames /\ ~Unheld(l)'
    BY <1>3, Constants DEF Unheld
  <2>2. l \in Ended(host) /\ Whole(l)'
    BY <1>1, <1>3, <2>1 DEF AllRead, LeftOver
  <2>3. Fresh(l)
    BY <1>1, <1>3, <2>1, <2>2, Constants DEF Whole, Fresh
  <2> QED
    BY <1>1, <2>1, <2>2, <2>3 DEF Calm
<1>4. CASE f.op = "seqs"
  BY <1>1, <1>4, ActionOf, PlacedStill DEF ReceiveSeqs, lists
<1>5. CASE f.op \in SpindleOps
  <2>1. /\ UNCHANGED <<tools, beds, chambers, columns>>
        /\ DOMAIN spindles' \subseteq DOMAIN spindles \cup {f.i}
    BY <1>5, ActionOf, SpActiveDoes, SpCurrentDoes DEF SpindleOps, SpindlesBecome
  <2>2. DOMAIN spindles = host.spindles /\ f.i \in host.spindles
    <3>1. "spindles" \in used' /\ f.op # "seqs"
      BY <1>5, Creates DEF SpindleOps
    <3>2. Fresh("spindles") /\ "spindles" \in Ended(host) /\ "spindles" \notin crowded
      BY <1>3, <3>1
    <3>3. f.i \in host.spindles
      BY <1>5, ActionOf, SpindleFieldOf DEF SpindleOps
    <3> QED
      BY <3>2, <3>3 DEF SpindleInv
  <2>3. DOMAIN spindles' = DOMAIN spindles /\ \A s \in DOMAIN spindles : spindles'[s] = spindles[s]
    BY <2>1, <2>2, SpindlesStay
  <2>4. /\ spindles = [s \in DOMAIN spindles |-> spindles[s]]
        /\ spindles' = [s \in DOMAIN spindles' |-> spindles'[s]]
    BY Listed DEF TypeInv, SpindleLists
  <2>5. spindles' = spindles
    BY <2>3, <2>4
  <2> QED
    BY <1>1, <2>1, <2>5, PlacedStill
<1>6. CASE f.op = "active"
  <2> DEFINE t == f.i
             places == 0 .. Len(host.tools[t].heaters) - 1
  <2>1. ToolsBecome(t, ActiveIs(t)) /\ SlotsKept /\ OtherListsSame /\ columns' = columns
    BY <1>6, ActionOf, ActiveDoes
  <2>a. /\ Fresh("tools") /\ "tools" \in Ended(host) /\ "tools" \notin crowded
        /\ ~meddled
    <3>1. "tools" \in used'
      BY <1>6, Creates DEF ToolChanges
    <3> QED
      BY <1>3, <1>6, <3>1
  <2>2. t \in DOMAIN host.tools /\ DOMAIN tools = DOMAIN host.tools
    BY <1>6, <2>a, ActionOf, ToolFieldOf DEF ToolInv
  <2>3. OldTool(t) = tools[t] /\ tools[t] \in Tools
    BY <2>2, OldToolIs DEF OldTool
  <2>4. Len(host.tools[t].heaters) \in Nat /\ NumbersRead(t)
    BY <2>a, <2>2, NumberIs DEF HeatersInv, HeatersRead
  <2>5. places \cap Places \subseteq DOMAIN tools[t].heaters
    BY <2>4, Constants DEF NumbersRead, Places
  <2>6. ActiveIs(t) = GetOrCreateHeaters(tools[t], places)
    BY <2>3 DEF ActiveIs
  <2> HIDE DEF places
  <2>7. ActiveIs(t).heaters = tools[t].heaters /\ ActiveIs(t).spindle = tools[t].spindle
    BY <2>3, <2>5, <2>6, NoneCreated, HeatersCreated
  <2>8. /\ DOMAIN tools' = DOMAIN tools
        /\ \A u \in DOMAIN tools : /\ tools'[u].heaters = tools[u].heaters
                                   /\ tools'[u].spindle = tools[u].spindle
                                   /\ tools'[u].slot = tools[u].slot
    BY <2>1, <2>2, <2>7 DEF ToolsBecome, SlotsKept
  <2> QED
    BY <1>1, <2>1, <2>8, PlacedStill DEF OtherListsSame
<1> QED
  BY <1>2, <1>4, <1>5, <1>6

LEMMA PlacedKept ==
    /\ TypeInv /\ UsedInv /\ SpindleInv /\ ToolInv /\ SeenInv /\ TouchInv /\ HeatersInv
    /\ PlacedInv /\ TypeInv' /\ UsedInv' /\ [Next]_vars
    => PlacedInv'
<1> SUFFICES ASSUME TypeInv, UsedInv, SpindleInv, ToolInv, SeenInv, TouchInv, HeatersInv,
                    PlacedInv, TypeInv', UsedInv', [Next]_vars, AllRead', Calm'
             PROVE  Placed'
  BY DEF PlacedInv
<1>1. CASE LaidOut
  BY <1>1 DEF LaidOut, Placed
<1>2. CASE AllRead /\ ListsStay
  BY <1>2, PlacedStill DEF PlacedInv, ListsStay
<1>3. CASE AllRead /\ SetInt
  <2>0. /\ used' = used /\ UNCHANGED crowded
        /\ meddled' = (meddled \/ adjusting.touched = NotAdjusting.touched)
    BY <1>3, UsedIs, SetIntKeeps, SetIntDoes
  <2>1. OtherListsSame /\ UNCHANGED <<columns, combined>> /\ (tools' = tools \/ SlotsKept)
    BY <1>3, SetIntDoes
  <2>2. DOMAIN tools' = DOMAIN tools /\ Calm
    BY <1>3, <2>0, SetIntKeeps DEF Calm, Unheld
  <2>3. \A t \in DOMAIN tools : /\ tools'[t].heaters = tools[t].heaters
                                /\ tools'[t].spindle = tools[t].spindle
                                /\ tools'[t].slot = tools[t].slot
    <3>1. CASE DOMAIN tools = {}
      BY <3>1
    <3>2. CASE DOMAIN tools # {}
      <4>1. ~Unheld("tools")'
        BY <2>0, <3>2, InUseIs DEF Unheld, UsedInv
      <4>2. adjusting.touched # NotAdjusting.touched
        BY <2>0, <4>1 DEF Calm
      <4> QED
        BY <1>3, <2>1, <4>2, SetIntKeeps, HeatersStaySet DEF SlotsKept
    <3> QED
      BY <3>1, <3>2
  <2> QED
    BY <1>3, <2>1, <2>2, <2>3, PlacedStill DEF PlacedInv, OtherListsSame
<1>4. ASSUME AllRead, msg.list = "status",
             NEW f \in msg.rest, IsNext(f), ReceiveField(f)
      PROVE  Placed'
  <2>1. UNCHANGED <<crowded, meddled>>
    BY <1>4, Received
  <2>2. used' = used \cup InUse'
    BY UsedMarked
  <2>3. Calm
    BY <2>1, <2>2 DEF Calm, Unheld
  <2> QED
    BY <1>4, <2>2, <2>3, PlacedReceived DEF PlacedInv
<1> QED
  BY <1>1, <1>2, <1>3, <1>4, ReadSteps

LEMMA PlacedInit == Init => PlacedInv
BY DEF Init, PlacedInv, AllRead

-----------------------------------------------------------------------------
(* What the lists promise *)

LEMMA Smaller ==
    ASSUME NEW a \in Nat, NEW b \in Nat
    PROVE  Min({a, b}) \in {a, b} /\ Min({a, b}) <= a /\ Min({a, b}) <= b
<1>1. \E m \in {a, b} : \A k \in {a, b} : m <= k
  OBVIOUS
<1> QED
  BY <1>1 DEF Min

LEMMA HeatersAre ==
    ASSUME TypeInv, NEW t \in DOMAIN tools, t \in DOMAIN host.tools, HeatersRead(t)
    PROVE  HeatersOf(tools[t]) = Held(host.tools[t].heaters)
<1> DEFINE hs == host.tools[t].heaters
<1>1. /\ tools[t] \in Tools /\ MaxHeatersPerTool \in Nat /\ Len(hs) \in Nat
      /\ hs \in Seq(Nat)
  BY Listed, Constants, OfMachines DEF TypeInv, ToolLists
<1>2. PICK n \in {MaxHeatersPerTool, Len(hs)} :
          /\ n = Min({MaxHeatersPerTool, Len(hs)})
          /\ n <= MaxHeatersPerTool /\ n <= Len(hs)
  BY <1>1, Smaller
<1>3. n \in Nat /\ n \in 0 .. MaxHeatersPerTool
  BY <1>1, <1>2
<1>4. ASSUME NEW i \in 0 .. n - 1
      PROVE  i \in DOMAIN tools[t].heaters /\ tools[t].heaters[i] = hs[i + 1]
  <2>1. i \in Places /\ i < Len(hs)
    BY <1>1, <1>2, <1>3 DEF Places
  <2> QED
    BY <2>1 DEF HeatersRead, NumbersRead
<1>5. n \notin DOMAIN tools[t].heaters
  <2>1. CASE n = Len(hs)
    BY <2>1 DEF HeatersRead
  <2>2. CASE n = MaxHeatersPerTool
    BY <1>1, <2>2, ToolIs DEF Places
  <2> QED
    BY <1>2, <2>1, <2>2
<1>6. NumHeaters(tools[t]) = n
  BY <1>1, <1>3, <1>4, <1>5, HeaterCount
<1>7. HeatersOf(tools[t]) = [i \in 1 .. n |-> hs[i]]
  <2>1. ASSUME NEW i \in 1 .. n PROVE tools[t].heaters[i - 1] = hs[i]
    <3>1. i - 1 \in 0 .. n - 1 /\ (i - 1) + 1 = i
      BY <1>3
    <3> QED
      BY <1>4, <3>1
  <2> QED
    BY <1>6, <2>1 DEF HeatersOf
<1>8. Held(hs) = [i \in 1 .. n |-> hs[i]]
  BY <1>1, <1>2, <1>3 DEF Held
<1> QED
  BY <1>7, <1>8

LEMMA SettledNumbers ==
    ASSUME TypeInv, UsedInv, SpindleInv, ToolInv, HeatInv, IsSettled, crowded = {}
    PROVE  /\ Fresh("tools") /\ Fresh("spindles") /\ Fresh("heat")
           /\ "tools" \notin LeftOver => DOMAIN tools = DOMAIN host.tools
           /\ "spindles" \notin LeftOver => DOMAIN spindles = host.spindles
           /\ "beds" \notin LeftOver =>
                 /\ DOMAIN beds = DOMAIN host.beds
                 /\ \A b \in DOMAIN beds : beds[b].heater = host.beds[b]
           /\ "chambers" \notin LeftOver =>
                 /\ DOMAIN chambers = DOMAIN host.chambers
                 /\ \A c \in DOMAIN chambers : chambers[c].heater = host.chambers[c]
<1>1. Fresh("tools") /\ Fresh("spindles") /\ Fresh("heat")
  BY Constants DEF IsSettled, Fresh
<1>2. host \in Machines
  BY DEF TypeInv
(* A list whose end is not noticed is empty, on both sides.                 *)
<1>3. ASSUME NEW l, l \notin LeftOver, l \notin Ended(host) PROVE l \notin used
  BY <1>3 DEF LeftOver
<1>4. ASSUME "tools" \notin LeftOver PROVE DOMAIN tools = DOMAIN host.tools
  <2>1. CASE "tools" \in Ended(host)
    BY <1>1, <2>1 DEF ToolInv
  <2>2. CASE "tools" \notin Ended(host)
    BY <1>2, <1>3, <1>4, <2>2, EndedAre, InUseIs DEF UsedInv
  <2> QED
    BY <2>1, <2>2
<1>5. ASSUME "spindles" \notin LeftOver PROVE DOMAIN spindles = host.spindles
  <2>1. CASE "spindles" \in Ended(host)
    BY <1>1, <2>1 DEF SpindleInv
  <2>2. CASE "spindles" \notin Ended(host)
    BY <1>2, <1>3, <1>5, <2>2, EndedAre, InUseIs DEF UsedInv
  <2> QED
    BY <2>1, <2>2
<1>6. ASSUME "beds" \notin LeftOver
      PROVE  /\ DOMAIN beds = DOMAIN host.beds
             /\ \A b \in DOMAIN beds : beds[b].heater = host.beds[b]
  <2>1. CASE "beds" \in Ended(host)
    BY <1>1, <2>1 DEF HeatInv, HeatRead
  <2>2. CASE "beds" \notin Ended(host)
    BY <1>2, <1>3, <1>6, <2>2, EndedAre, InUseIs DEF UsedInv
  <2> QED
    BY <2>1, <2>2
<1>7. ASSUME "chambers" \notin LeftOver
      PROVE  /\ DOMAIN chambers = DOMAIN host.chambers
             /\ \A c \in DOMAIN chambers : chambers[c].heater = host.chambers[c]
  <2>1. CASE "chambers" \in Ended(host)
    BY <1>1, <2>1 DEF HeatInv, HeatRead
  <2>2. CASE "chambers" \notin Ended(host)
    BY <1>2, <1>3, <1>7, <2>2, EndedAre, InUseIs DEF UsedInv
  <2> QED
    BY <2>1, <2>2
<1> QED
  BY <1>1, <1>4, <1>5, <1>6, <1>7

LEMMA SettledAreHosts ==
    /\ TypeInv /\ UsedInv /\ SpindleInv /\ ToolInv /\ HeatInv /\ PointerInv /\ HeatersInv
    => ListsAreHosts
<1> SUFFICES ASSUME TypeInv, UsedInv, SpindleInv, ToolInv, HeatInv, PointerInv, HeatersInv,
                    IsSettled, crowded = {}
             PROVE  /\ "tools" \in LeftOver \/ ToolsAreHosts
                    /\ "spindles" \in LeftOver \/ DOMAIN spindles = host.spindles
                    /\ \/ "beds" \in LeftOver
                       \/ [b \in DOMAIN beds |-> beds[b].heater] = host.beds
                    /\ \/ "chambers" \in LeftOver
                       \/ [c \in DOMAIN chambers |-> chambers[c].heater] = host.chambers
  BY DEF ListsAreHosts
<1>1. /\ host \in Machines /\ DOMAIN spindles \subseteq Nat
      /\ host.beds \in [DOMAIN host.beds -> Nat]
      /\ host.chambers \in [DOMAIN host.chambers -> Nat]
  BY ListsFinite, ObjectModelAssumption DEF ObjectModelAssumption
<1>2. ASSUME "beds" \notin LeftOver
      PROVE  [b \in DOMAIN beds |-> beds[b].heater] = host.beds
  <2>1. /\ DOMAIN beds = DOMAIN host.beds
        /\ \A b \in DOMAIN beds : beds[b].heater = host.beds[b]
    BY <1>2, SettledNumbers
  <2> QED
    BY <1>1, <2>1
<1>3. ASSUME "chambers" \notin LeftOver
      PROVE  [c \in DOMAIN chambers |-> chambers[c].heater] = host.chambers
  <2>1. /\ DOMAIN chambers = DOMAIN host.chambers
        /\ \A c \in DOMAIN chambers : chambers[c].heater = host.chambers[c]
    BY <1>3, SettledNumbers
  <2> QED
    BY <1>1, <2>1
<1>4. ASSUME "tools" \notin LeftOver PROVE ToolsAreHosts
  <2>1. DOMAIN tools = DOMAIN host.tools /\ Fresh("tools")
    BY <1>4, SettledNumbers
  <2>2. ASSUME ~meddled, NEW t \in DOMAIN tools
        PROVE  HeatersOf(tools[t]) = Held(host.tools[t].heaters)
    BY <2>1, <2>2, HeatersAre DEF HeatersInv
  <2>3. ASSUME NEW t \in DOMAIN tools \ unfound
        PROVE  IF host.tools[t].spindle = NoSpindle THEN tools[t].spindle = Null
               ELSE tools[t].spindle = spindles[host.tools[t].spindle]
    <3>1. Pointed(t)
      BY <2>1, <2>3 DEF PointerInv
    <3>2. NoSpindle \notin DOMAIN spindles
      BY <1>1 DEF NoSpindle
    <3> QED
      BY <3>1, <3>2 DEF Pointed
  <2> QED
    BY <2>1, <2>2, <2>3 DEF ToolsAreHosts
<1>5. "spindles" \notin LeftOver => DOMAIN spindles = host.spindles
  BY SettledNumbers
<1> QED
  BY <1>2, <1>3, <1>4, <1>5

(* A tool whose spindle was found points at one there is.                   *)
LEMMA PointersFound ==
    TypeInv /\ UsedInv /\ ToolInv /\ PointerInv => PointersLive
<1> SUFFICES ASSUME TypeInv, UsedInv, ToolInv, PointerInv, NEW t \in DOMAIN tools,
                    tools[t].spindle \notin {Null} \cup Range(spindles),
                    seqState["tools"] = "ok", "tools" \notin changed, t \notin unfound,
                    "tools" \notin LeftOver
             PROVE  FALSE
  BY DEF PointersLive
<1>0. "tools" \in Ended(host)
  BY InUseIs DEF UsedInv, LeftOver
<1>1. Pointed(t)
  BY <1>0 DEF PointerInv, ToolInv, Fresh
<1> QED
  BY <1>1 DEF Pointed, Range

-----------------------------------------------------------------------------
(* The page *)

(* The panel agrees with the machine: its lists are the machine's, and the  *)
(* page is laid out for them.                                               *)
Matches ==
    /\ TypeInv /\ Placed
    /\ DOMAIN tools = DOMAIN host.tools /\ DOMAIN spindles = host.spindles
    /\ DOMAIN beds = DOMAIN host.beds /\ DOMAIN chambers = DOMAIN host.chambers
    /\ \A b \in DOMAIN beds : beds[b].heater = host.beds[b]
    /\ \A c \in DOMAIN chambers : chambers[c].heater = host.chambers[c]
    /\ \A t \in DOMAIN tools :
          /\ HeatersRead(t)
          /\ HeatersOf(tools[t]) = Held(host.tools[t].heaters)
          /\ IF host.tools[t].spindle = NoSpindle THEN tools[t].spindle = Null
             ELSE tools[t].spindle = spindles[host.tools[t].spindle]

(* The columns of a thing, and the heater whose temperature one shows.      *)
Here == Things(tools, beds, chambers)
Wide(x) == WidthOf(x, tools, combined)
From(x) == Start(x, tools, beds, chambers, combined)
HeaterAt(x, n) ==
    CASE x.kind = "bed" -> beds[x.index].heater
      [] x.kind = "chamber" -> chambers[x.index].heater
      [] x.kind = "tool" ->
            IF host.tools[x.index].spindle # NoSpindle
               \/ host.tools[x.index].heaters = <<>> THEN -1
            ELSE tools[x.index].heaters[n - 1]

LEMMA ToolShown ==
    ASSUME Matches, NEW t \in DOMAIN tools
    PROVE  LET x == Thing("tool", t)
               tool == host.tools[t]
           IN  /\ x \in Here /\ x.kind = "tool" /\ x.index = t
               /\ tool.spindle # NoSpindle =>
                     /\ Wide(x) = 1
                     /\ \A junk : AdjustEvent(x, tools, spindles, junk)
                                     = Thing("rpm", tool.spindle)
               /\ tool.spindle = NoSpindle /\ tool.heaters = <<>> =>
                     /\ Wide(x) = 1
                     /\ \A junk : AdjustEvent(x, tools, spindles, junk)
                                     = Thing("none", -1)
               /\ tool.heaters = <<>> => NumHeaters(tools[t]) = 0
               /\ tool.heaters # <<>> => 0 \in DOMAIN tools[t].heaters
               /\ tool.spindle = NoSpindle /\ tool.heaters # <<>> =>
                     /\ NumHeaters(tools[t]) \in Nat \ {0}
                     /\ Wide(x) = IF combined THEN 1 ELSE NumHeaters(tools[t])
                     /\ DOMAIN Held(tool.heaters) = 1 .. NumHeaters(tools[t])
                     /\ \A i \in 1 .. NumHeaters(tools[t]) :
                           tools[t].heaters[i - 1] = tool.heaters[i]
                     /\ \A junk : AdjustEvent(x, tools, spindles, junk) = x
<1> DEFINE x == Thing("tool", t)
           tool == host.tools[t]
           hs == host.tools[t].heaters
<1>1. /\ host \in Machines /\ t \in DOMAIN host.tools
      /\ tools[t] \in Tools /\ spindles \in SpindleLists
      /\ HeatersRead(t)
      /\ HeatersOf(tools[t]) = Held(hs)
      /\ IF tool.spindle = NoSpindle THEN tools[t].spindle = Null
         ELSE tools[t].spindle = spindles[tool.spindle]
  BY Listed DEF Matches, TypeInv, ToolLists
<1>2. x \in Here /\ x.kind = "tool" /\ x.index = t
  BY DEF Here, Things, Thing
<1>3. /\ hs \in Seq(Nat) /\ Len(hs) \in Nat
      /\ tool.spindle \in host.spindles \cup {NoSpindle}
  BY <1>1, OfMachines
<1>4. hs = <<>> <=> Len(hs) = 0
  BY <1>3
<1>5. Wide(x) = ToolWidth(tools[t], combined)
  BY <1>2 DEF Wide, WidthOf
<1>6. ASSUME tool.spindle # NoSpindle
      PROVE  /\ Wide(x) = 1
             /\ \A junk : AdjustEvent(x, tools, spindles, junk) = Thing("rpm", tool.spindle)
  <2> DEFINE s == tool.spindle
             Same(q) == q \in DOMAIN spindles /\ spindles[q] = tools[t].spindle
  <2>1. /\ s \in DOMAIN spindles /\ tools[t].spindle = spindles[s]
        /\ spindles \in [DOMAIN spindles -> Cells] /\ IsInjective(spindles)
    BY <1>1, <1>3, <1>6, Listed DEF Matches, SpindleLists
  <2>2. tools[t].spindle # Null /\ tools[t].spindle \in Range(spindles)
    BY <2>1, Constants DEF Range
  <2>3. Wide(x) = 1
    BY <1>5, <2>2 DEF ToolWidth
  <2>4. \A q \in DOMAIN spindles : spindles[q] = tools[t].spindle <=> q = s
    BY <2>1 DEF IsInjective
  <2>5. (CHOOSE q \in DOMAIN spindles : spindles[q] = tools[t].spindle) = s
    BY <2>1, <2>4
  <2>6. ASSUME NEW junk
        PROVE  AdjustEvent(x, tools, spindles, junk) = Thing("rpm", s)
    BY <1>2, <2>2, <2>5, Zenon DEF AdjustEvent
  <2> QED
    BY <2>3, <2>6
<1>7. ASSUME hs = <<>> PROVE 0 \notin DOMAIN tools[t].heaters /\ NumHeaters(tools[t]) = 0
  <2>1. 0 \notin DOMAIN tools[t].heaters
    BY <1>1, <1>4, <1>7 DEF HeatersRead
  <2>2. 0 \in 0 .. MaxHeatersPerTool /\ \A i \in 0 .. 0 - 1 : i \in DOMAIN tools[t].heaters
    BY Constants
  <2> QED
    BY <1>1, <2>1, <2>2, HeaterCount
<1>8. ASSUME tool.spindle = NoSpindle, hs = <<>>
      PROVE  /\ Wide(x) = 1
             /\ \A junk : AdjustEvent(x, tools, spindles, junk) = Thing("none", -1)
  <2>1. tools[t].spindle = Null /\ 0 \notin DOMAIN tools[t].heaters
    BY <1>1, <1>7, <1>8
  <2>2. Wide(x) = 1
    BY <1>5, <2>1 DEF ToolWidth
  <2>3. ASSUME NEW junk PROVE AdjustEvent(x, tools, spindles, junk) = Thing("none", -1)
    BY <1>2, <2>1, Zenon DEF AdjustEvent
  <2> QED
    BY <2>2, <2>3
<1>9. ASSUME hs # <<>> PROVE 0 \in DOMAIN tools[t].heaters
  <2>1. 0 \in Places /\ 0 < Len(hs)
    BY <1>3, <1>4, <1>9, Constants DEF Places
  <2> QED
    BY <1>1, <2>1 DEF HeatersRead, NumbersRead
<1>10. ASSUME tool.spindle = NoSpindle, hs # <<>>
       PROVE  /\ NumHeaters(tools[t]) \in Nat \ {0}
              /\ Wide(x) = IF combined THEN 1 ELSE NumHeaters(tools[t])
              /\ DOMAIN Held(hs) = 1 .. NumHeaters(tools[t])
              /\ \A i \in 1 .. NumHeaters(tools[t]) : tools[t].heaters[i - 1] = hs[i]
              /\ \A junk : AdjustEvent(x, tools, spindles, junk) = x
  <2> DEFINE n == NumHeaters(tools[t])
  <2>1. tools[t].spindle = Null /\ 0 \in DOMAIN tools[t].heaters
    BY <1>1, <1>9, <1>10
  <2>2. Wide(x) = IF combined THEN 1 ELSE n
    BY <1>5, <2>1 DEF ToolWidth
  <2>3. ASSUME NEW junk PROVE AdjustEvent(x, tools, spindles, junk) = x
    BY <1>2, <2>1, Zenon DEF AdjustEvent
  <2>4. n \in Nat /\ DOMAIN HeatersOf(tools[t]) = 1 .. n
    BY <1>1, HeaterCount DEF HeatersOf
  <2>5. DOMAIN Held(hs) = 1 .. n
    BY <1>1, <2>4
  <2>6. PICK m \in {MaxHeatersPerTool, Len(hs)} :
            m = Min({MaxHeatersPerTool, Len(hs)}) /\ m <= MaxHeatersPerTool /\ m <= Len(hs)
    BY <1>3, Constants, Smaller
  <2>7. m \in Nat \ {0}
    BY <1>3, <1>4, <1>10, <2>6, Constants
  <2>8. Held(hs) = [i \in 1 .. m |-> hs[i]]
    BY <1>3, <2>6, <2>7 DEF Held
  <2>9. 1 .. n = 1 .. m
    BY <2>5, <2>8
  <2>10. n # 0
    BY <2>4, <2>7, <2>9
  <2>11. ASSUME NEW i \in 1 .. n PROVE tools[t].heaters[i - 1] = hs[i]
    <3>1. HeatersOf(tools[t])[i] = tools[t].heaters[i - 1]
      BY <2>11 DEF HeatersOf
    <3>2. Held(hs)[i] = hs[i]
      BY <2>8, <2>9
    <3> QED
      BY <1>1, <3>1, <3>2
  <2> QED
    BY <2>2, <2>3, <2>4, <2>5, <2>10, <2>11
<1> QED
  BY <1>2, <1>6, <1>7, <1>8, <1>9, <1>10

(* Each column of the page is one a thing has on the panel, ...             *)
LEMMA ColumnOf ==
    ASSUME Matches, NEW w \in Page
    PROVE  /\ w = Column(w.thing, w.nth, w.adjusts, w.heater)
           /\ w.thing \in Here /\ w.nth \in 1 .. Wide(w.thing)
           /\ \A junk : AdjustEvent(w.thing, tools, spindles, junk) = w.adjusts
           /\ w.heater = HeaterAt(w.thing, w.nth)
<1>1. CASE \E b \in DOMAIN host.beds : w = BedColumn(b)
  <2>1. PICK b \in DOMAIN host.beds : w = BedColumn(b)
    BY <1>1
  <2>2. /\ w = Column(w.thing, w.nth, w.adjusts, w.heater)
        /\ w.thing = Thing("bed", b) /\ w.nth = 1 /\ w.adjusts = w.thing
        /\ w.heater = host.beds[b]
    BY <2>1 DEF BedColumn, Column
  <2>3. w.thing.kind = "bed" /\ w.thing.index = b
    BY <2>2 DEF Thing
  <2>4. b \in DOMAIN beds /\ beds[b].heater = host.beds[b]
    BY DEF Matches
  <2>5. w.thing \in Here
    BY <2>2, <2>4 DEF Here, Things
  <2>6. Wide(w.thing) = 1
    BY <2>3 DEF Wide, WidthOf
  <2>7. ASSUME NEW junk
        PROVE  AdjustEvent(w.thing, tools, spindles, junk) = w.adjusts
    BY <2>2, <2>3 DEF AdjustEvent
  <2>8. w.heater = HeaterAt(w.thing, w.nth)
    BY <2>2, <2>3, <2>4 DEF HeaterAt
  <2> QED
    BY <2>2, <2>5, <2>6, <2>7, <2>8
<1>2. CASE \E c \in DOMAIN host.chambers : w = ChamberColumn(c)
  <2>1. PICK c \in DOMAIN host.chambers : w = ChamberColumn(c)
    BY <1>2
  <2>2. /\ w = Column(w.thing, w.nth, w.adjusts, w.heater)
        /\ w.thing = Thing("chamber", c) /\ w.nth = 1 /\ w.adjusts = w.thing
        /\ w.heater = host.chambers[c]
    BY <2>1 DEF ChamberColumn, Column
  <2>3. w.thing.kind = "chamber" /\ w.thing.index = c
    BY <2>2 DEF Thing
  <2>4. c \in DOMAIN chambers /\ chambers[c].heater = host.chambers[c]
    BY DEF Matches
  <2>5. w.thing \in Here
    BY <2>2, <2>4 DEF Here, Things
  <2>6. Wide(w.thing) = 1
    BY <2>3 DEF Wide, WidthOf
  <2>7. ASSUME NEW junk
        PROVE  AdjustEvent(w.thing, tools, spindles, junk) = w.adjusts
    BY <2>2, <2>3 DEF AdjustEvent
  <2>8. w.heater = HeaterAt(w.thing, w.nth)
    BY <2>2, <2>3, <2>4 DEF HeaterAt
  <2> QED
    BY <2>2, <2>5, <2>6, <2>7, <2>8
<1>3. CASE \E t \in DOMAIN host.tools : w \in ToolColumns(t)
  <2>1. PICK t \in DOMAIN host.tools : w \in ToolColumns(t)
    BY <1>3
  <2> DEFINE x == Thing("tool", t)
             tool == host.tools[t]
  <2>2. t \in DOMAIN tools
    BY DEF Matches
  <2>3. x \in Here /\ x.kind = "tool" /\ x.index = t
    BY <2>2, ToolShown
  <2>4. \E i, e, h : w = Column(x, i, e, h)
    <3>1. CASE tool.spindle # NoSpindle
      BY <2>1, <3>1 DEF ToolColumns
    <3>2. CASE tool.spindle = NoSpindle /\ tool.heaters = <<>>
      BY <2>1, <3>2 DEF ToolColumns
    <3>3. CASE tool.spindle = NoSpindle /\ tool.heaters # <<>>
      BY <2>1, <3>3 DEF ToolColumns
    <3> QED
      BY <3>1, <3>2, <3>3
  <2>5. w = Column(w.thing, w.nth, w.adjusts, w.heater) /\ w.thing = x
    BY <2>4 DEF Column
  <2>6. CASE tool.spindle # NoSpindle
    <3>1. w = Column(x, 1, Thing("rpm", tool.spindle), -1)
      BY <2>1, <2>6 DEF ToolColumns
    <3>2. w.nth = 1 /\ w.adjusts = Thing("rpm", tool.spindle) /\ w.heater = -1
      BY <3>1 DEF Column
    <3>3. /\ Wide(x) = 1
          /\ \A junk : AdjustEvent(x, tools, spindles, junk) = w.adjusts
      BY <2>2, <2>6, <3>2, ToolShown
    <3>4. HeaterAt(x, w.nth) = -1
      BY <2>3, <2>6 DEF HeaterAt
    <3> QED
      BY <2>3, <2>5, <3>2, <3>3, <3>4
  <2>7. CASE tool.spindle = NoSpindle /\ tool.heaters = <<>>
    <3>1. w = Column(x, 1, Thing("none", -1), -1)
      BY <2>1, <2>7 DEF ToolColumns
    <3>2. w.nth = 1 /\ w.adjusts = Thing("none", -1) /\ w.heater = -1
      BY <3>1 DEF Column
    <3>3. /\ Wide(x) = 1
          /\ \A junk : AdjustEvent(x, tools, spindles, junk) = w.adjusts
      BY <2>2, <2>7, <3>2, ToolShown
    <3>4. HeaterAt(x, w.nth) = -1
      BY <2>3, <2>7 DEF HeaterAt
    <3> QED
      BY <2>3, <2>5, <3>2, <3>3, <3>4
  <2>8. CASE tool.spindle = NoSpindle /\ tool.heaters # <<>>
    <3>1. /\ NumHeaters(tools[t]) \in Nat \ {0}
          /\ Wide(x) = IF combined THEN 1 ELSE NumHeaters(tools[t])
          /\ DOMAIN Held(tool.heaters) = 1 .. NumHeaters(tools[t])
          /\ \A i \in 1 .. NumHeaters(tools[t]) :
                tools[t].heaters[i - 1] = tool.heaters[i]
          /\ \A junk : AdjustEvent(x, tools, spindles, junk) = x
      BY <2>2, <2>8, ToolShown
    <3>2. PICK i \in IF combined THEN {1} ELSE DOMAIN Held(tool.heaters) :
              w = Column(x, i, x, tool.heaters[i])
      BY <2>1, <2>8 DEF ToolColumns
    <3>3. i \in 1 .. Wide(x) /\ i \in 1 .. NumHeaters(tools[t])
      BY <3>1, <3>2
    <3>4. w.nth = i /\ w.adjusts = x /\ w.heater = tool.heaters[i]
      BY <3>2 DEF Column
    <3>5. HeaterAt(x, i) = tools[t].heaters[i - 1]
      BY <2>3, <2>8 DEF HeaterAt
    <3> QED
      BY <2>3, <2>5, <3>1, <3>3, <3>4, <3>5
  <2> QED
    BY <2>6, <2>7, <2>8
<1>4. \/ \E b \in DOMAIN host.beds : w = BedColumn(b)
      \/ \E c \in DOMAIN host.chambers : w = ChamberColumn(c)
      \/ \E t \in DOMAIN host.tools : w \in ToolColumns(t)
  BY Zenon DEF Page
<1> QED
  BY <1>1, <1>2, <1>3, <1>4

(* ... there is one for each, ...                                           *)
LEMMA ColumnFor ==
    ASSUME Matches, NEW x \in Here
    PROVE  /\ Wide(x) \in Nat \ {0}
           /\ \A n \in 1 .. Wide(x) : \E w \in Page : w.thing = x /\ w.nth = n
<1>1. /\ x.kind \in {"tool", "bed", "chamber"} /\ x = Thing(x.kind, x.index)
      /\ x.kind = "tool" => x.index \in DOMAIN tools
      /\ x.kind = "bed" => x.index \in DOMAIN beds
      /\ x.kind = "chamber" => x.index \in DOMAIN chambers
  BY ThingsAre DEF Here, Matches, TypeInv
<1>2. CASE x.kind = "bed"
  <2>0. x.index \in DOMAIN host.beds
    BY <1>1, <1>2 DEF Matches
  <2>1. BedColumn(x.index) \in Page
    BY <2>0, Zenon DEF Page
  <2>2. BedColumn(x.index).thing = x /\ BedColumn(x.index).nth = 1
    BY <1>1, <1>2 DEF BedColumn, Column
  <2>3. Wide(x) = 1
    BY <1>2 DEF Wide, WidthOf
  <2> QED
    BY <2>1, <2>2, <2>3
<1>3. CASE x.kind = "chamber"
  <2>0. x.index \in DOMAIN host.chambers
    BY <1>1, <1>3 DEF Matches
  <2>1. ChamberColumn(x.index) \in Page
    BY <2>0, Zenon DEF Page
  <2>2. ChamberColumn(x.index).thing = x /\ ChamberColumn(x.index).nth = 1
    BY <1>1, <1>3 DEF ChamberColumn, Column
  <2>3. Wide(x) = 1
    BY <1>3 DEF Wide, WidthOf
  <2> QED
    BY <2>1, <2>2, <2>3
<1>4. CASE x.kind = "tool"
  <2> DEFINE t == x.index
             tool == host.tools[t]
  <2>1. t \in DOMAIN tools /\ x = Thing("tool", t)
    BY <1>1, <1>4
  <2>6. t \in DOMAIN host.tools
    BY <2>1 DEF Matches
  <2>2. ToolColumns(t) \subseteq Page
    BY <2>6, Zenon DEF Page
  <2>3. CASE tool.spindle # NoSpindle
    <3>1. Column(x, 1, Thing("rpm", tool.spindle), -1) \in ToolColumns(t)
      BY <2>1, <2>3 DEF ToolColumns
    <3>2. Wide(x) = 1
      BY <2>1, <2>3, ToolShown
    <3> QED
      BY <2>2, <3>1, <3>2 DEF Column
  <2>4. CASE tool.spindle = NoSpindle /\ tool.heaters = <<>>
    <3>1. Column(x, 1, Thing("none", -1), -1) \in ToolColumns(t)
      BY <2>1, <2>4 DEF ToolColumns
    <3>2. Wide(x) = 1
      BY <2>1, <2>4, ToolShown
    <3> QED
      BY <2>2, <3>1, <3>2 DEF Column
  <2>5. CASE tool.spindle = NoSpindle /\ tool.heaters # <<>>
    <3>1. /\ NumHeaters(tools[t]) \in Nat \ {0}
          /\ Wide(x) = IF combined THEN 1 ELSE NumHeaters(tools[t])
          /\ DOMAIN Held(tool.heaters) = 1 .. NumHeaters(tools[t])
      BY <2>1, <2>5, ToolShown
    <3>2. ASSUME NEW n \in 1 .. Wide(x)
          PROVE  \E w \in Page : w.thing = x /\ w.nth = n
      <4>1. n \in IF combined THEN {1} ELSE DOMAIN Held(tool.heaters)
        BY <3>1
      <4>2. Column(x, n, x, tool.heaters[n]) \in ToolColumns(t)
        BY <2>1, <2>5, <4>1 DEF ToolColumns
      <4> QED
        BY <2>2, <4>2 DEF Column
    <3>3. Wide(x) \in Nat \ {0}
      BY <3>1
    <3> QED
      BY <3>2, <3>3
  <2> QED
    BY <2>3, <2>4, <2>5
<1> QED
  BY <1>1, <1>2, <1>3, <1>4

(* ... and only one.                                                        *)
LEMMA OneColumn ==
    ASSUME Matches, NEW v \in Page, NEW w \in Page, v.thing = w.thing, v.nth = w.nth
    PROVE  v = w
<1>1. /\ v = Column(v.thing, v.nth, v.adjusts, v.heater)
      /\ v.adjusts = AdjustEvent(v.thing, tools, spindles, -1)
      /\ v.heater = HeaterAt(v.thing, v.nth)
  BY ColumnOf
<1>2. /\ w = Column(w.thing, w.nth, w.adjusts, w.heater)
      /\ w.adjusts = AdjustEvent(w.thing, tools, spindles, -1)
      /\ w.heater = HeaterAt(w.thing, w.nth)
  BY ColumnOf
<1>3. v.adjusts = w.adjusts /\ v.heater = w.heater
  BY <1>1, <1>2
<1> QED
  BY <1>1, <1>2, <1>3

(* The columns are in the order of the things on the panel.                 *)
LEMMA GroupOf ==
    ASSUME Matches, NEW x \in Here
    PROVE  /\ Turn(x, beds, chambers) \in 1 .. 5
           /\ \A i \in 1 .. 5 : x \in Groups[i] <=> i = Turn(x, beds, chambers)
<1>1. /\ x.kind \in {"tool", "bed", "chamber"} /\ x = Thing(x.kind, x.index)
      /\ x.kind = "tool" => x.index \in DOMAIN tools
      /\ x.kind = "bed" => x.index \in DOMAIN beds
      /\ x.kind = "chamber" => x.index \in DOMAIN chambers
  BY ThingsAre DEF Here, Matches, TypeInv
<1> DEFINE B == DOMAIN host.beds
           C == DOMAIN host.chambers
           T == DOMAIN host.tools
           b == FirstOf(B)
           c == FirstOf(C)
           G1 == {Thing("bed", i) : i \in b}
           G2 == {Thing("tool", i) : i \in T}
           G3 == {Thing("chamber", i) : i \in c}
           G4 == {Thing("bed", i) : i \in B \ b}
           G5 == {Thing("chamber", i) : i \in C \ c}
<1>2. DOMAIN tools = T /\ DOMAIN beds = B /\ DOMAIN chambers = C
  BY DEF Matches
<1>3. \A i \in B : i \in b <=> First(beds, i)
  BY <1>2 DEF FirstOf, First
<1>4. \A i \in C : i \in c <=> First(chambers, i)
  BY <1>2 DEF FirstOf, First
<1>5. b \subseteq B /\ c \subseteq C
  BY DEF FirstOf
<1>6. /\ Groups[1] = G1 /\ Groups[2] = G2 /\ Groups[3] = G3 /\ Groups[4] = G4
      /\ Groups[5] = G5
  BY DEF Groups
<1> HIDE DEF B, C, T, b, c
<1>7. CASE x.kind = "tool"
  <2>1. x \in G2
    BY <1>1, <1>2, <1>7
  <2>2. x \notin G1 /\ x \notin G3 /\ x \notin G4 /\ x \notin G5
    BY <1>7 DEF Thing
  <2>3. Turn(x, beds, chambers) = 2
    BY <1>7 DEF Turn
  <2> HIDE DEF G1, G2, G3, G4, G5
  <2> QED
    BY <1>6, <2>1, <2>2, <2>3
<1>8. CASE x.kind = "bed" /\ x.index \in b
  <2>1. x \in G1
    BY <1>1, <1>8
  <2>2. x \notin G2 /\ x \notin G3 /\ x \notin G4 /\ x \notin G5
    BY <1>8 DEF Thing
  <2>3. Turn(x, beds, chambers) = 1
    BY <1>3, <1>5, <1>8 DEF Turn
  <2> HIDE DEF G1, G2, G3, G4, G5
  <2> QED
    BY <1>6, <2>1, <2>2, <2>3
<1>9. CASE x.kind = "bed" /\ x.index \notin b
  <2>1. x \in G4
    BY <1>1, <1>2, <1>9
  <2>2. x \notin G1 /\ x \notin G2 /\ x \notin G3 /\ x \notin G5
    BY <1>9 DEF Thing
  <2>3. Turn(x, beds, chambers) = 4
    BY <1>1, <1>2, <1>3, <1>9 DEF Turn
  <2> HIDE DEF G1, G2, G3, G4, G5
  <2> QED
    BY <1>6, <2>1, <2>2, <2>3
<1>10. CASE x.kind = "chamber" /\ x.index \in c
  <2>1. x \in G3
    BY <1>1, <1>10
  <2>2. x \notin G1 /\ x \notin G2 /\ x \notin G4 /\ x \notin G5
    BY <1>10 DEF Thing
  <2>3. Turn(x, beds, chambers) = 3
    BY <1>4, <1>5, <1>10 DEF Turn
  <2> HIDE DEF G1, G2, G3, G4, G5
  <2> QED
    BY <1>6, <2>1, <2>2, <2>3
<1>11. CASE x.kind = "chamber" /\ x.index \notin c
  <2>1. x \in G5
    BY <1>1, <1>2, <1>11
  <2>2. x \notin G1 /\ x \notin G2 /\ x \notin G3 /\ x \notin G4
    BY <1>11 DEF Thing
  <2>3. Turn(x, beds, chambers) = 5
    BY <1>1, <1>2, <1>4, <1>11 DEF Turn
  <2> HIDE DEF G1, G2, G3, G4, G5
  <2> QED
    BY <1>6, <2>1, <2>2, <2>3
<1> QED
  BY <1>1, <1>7, <1>8, <1>9, <1>10, <1>11

LEMMA LeftIs ==
    ASSUME Matches, NEW v \in Page, NEW w \in Page
    PROVE  LeftOf(v, w) <=> \/ v.thing = w.thing /\ v.nth < w.nth
                            \/ Before(v.thing, w.thing, beds, chambers)
<1>1. /\ Turn(v.thing, beds, chambers) \in 1 .. 5
      /\ \A i \in 1 .. 5 : v.thing \in Groups[i] <=> i = Turn(v.thing, beds, chambers)
  BY ColumnOf, GroupOf
<1>2. /\ Turn(w.thing, beds, chambers) \in 1 .. 5
      /\ \A i \in 1 .. 5 : w.thing \in Groups[i] <=> i = Turn(w.thing, beds, chambers)
  BY ColumnOf, GroupOf
<1> QED
  BY <1>1, <1>2 DEF LeftOf, Before

(* A column is where the layout puts it.                                    *)
LEMMA PlaceIs ==
    ASSUME Matches, NEW w \in Page
    PROVE  /\ IsFiniteSet({v \in Page : LeftOf(v, w)})
           /\ From(w.thing) \in Nat /\ w.nth \in Nat \ {0}
           /\ Place(w) = From(w.thing) + (w.nth - 1)
<1> DEFINE x == w.thing
           n == w.nth - 1
           L == {v \in Page : LeftOf(v, w)}
           A == TakenBefore(x, tools, beds, chambers, combined)
           B == {x} \X (0 .. n - 1)
           f == [v \in L |-> <<v.thing, v.nth - 1>>]
<1>1. /\ tools \in ToolLists /\ beds \in BedLists /\ chambers \in ChamberLists
      /\ combined \in BOOLEAN
  BY DEF Matches, TypeInv
<1>2. /\ x \in Here /\ w.nth \in 1 .. Wide(x)
  BY ColumnOf
<1>3. /\ Wide(x) \in Nat /\ IsFiniteSet(A)
      /\ From(x) \in Nat /\ From(x) = Cardinality(A)
  BY <1>1, <1>2, PlacesAre DEF Here, Wide, From, Start
<1>4. n \in Nat /\ w.nth \in Nat \ {0} /\ w.nth = n + 1
  BY <1>2, <1>3
<1>5. \A p : p \in A <=> \E y \in Here :
             Before(y, x, beds, chambers) /\ p \in {y} \X (0 .. Wide(y) - 1)
  BY DEF TakenBefore, Here, Wide
<1>6. ASSUME NEW p \in A PROVE p[1] # x
  <2>1. PICK y \in Here :
            Before(y, x, beds, chambers) /\ p \in {y} \X (0 .. Wide(y) - 1)
    BY <1>5
  <2>2. y # x
    BY <1>1, <1>2, <2>1, ThingsOrdered DEF Here
  <2> QED
    BY <2>1, <2>2
<1>7. ASSUME NEW v \in L
      PROVE  /\ f[v] = <<v.thing, v.nth - 1>> /\ f[v] \in A \cup B
             /\ v \in Page /\ v.nth \in Nat
  <2>1. /\ v \in Page /\ v.thing \in Here /\ v.nth \in 1 .. Wide(v.thing)
    BY ColumnOf
  <2>2. v.nth \in Nat /\ v.nth - 1 \in 0 .. Wide(v.thing) - 1
    BY <2>1, ColumnFor
  <2>3. \/ v.thing = x /\ v.nth < w.nth
        \/ Before(v.thing, x, beds, chambers)
    BY <2>1, LeftIs
  <2>4. CASE v.thing = x /\ v.nth < w.nth
    <3>1. v.nth - 1 \in 0 .. n - 1
      BY <1>4, <2>2, <2>4
    <3> QED
      BY <2>1, <2>2, <2>4, <3>1
  <2>5. CASE Before(v.thing, x, beds, chambers)
    <3>1. <<v.thing, v.nth - 1>> \in A
      BY <1>5, <2>1, <2>2, <2>5
    <3> QED
      BY <2>1, <2>2, <3>1
  <2> QED
    BY <2>3, <2>4, <2>5
<1>8. ASSUME NEW p \in A \cup B PROVE \E v \in L : f[v] = p
  <2>0. PICK y \in Here : \E i \in 0 .. Wide(y) - 1 :
            /\ p = <<y, i>>
            /\ (y = x /\ i + 1 < w.nth) \/ Before(y, x, beds, chambers)
    <3>1. CASE p \in A
      <4>1. PICK y \in Here :
                Before(y, x, beds, chambers) /\ p \in {y} \X (0 .. Wide(y) - 1)
        BY <1>5, <3>1
      <4>2. PICK i \in 0 .. Wide(y) - 1 : p = <<y, i>>
        BY <4>1
      <4> QED
        BY <4>1, <4>2
    <3>2. CASE p \in B
      <4>1. PICK i \in 0 .. n - 1 : p = <<x, i>>
        BY <3>2
      <4>2. i \in 0 .. Wide(x) - 1 /\ i + 1 < w.nth
        BY <1>2, <1>3, <1>4
      <4> QED
        BY <1>2, <4>1, <4>2
    <3> QED
      BY <1>8, <3>1, <3>2
  <2>1. PICK i \in 0 .. Wide(y) - 1 :
            /\ p = <<y, i>>
            /\ (y = x /\ i + 1 < w.nth) \/ Before(y, x, beds, chambers)
    BY <2>0
  <2>2. i + 1 \in 1 .. Wide(y) /\ (i + 1) - 1 = i
    BY ColumnFor
  <2>3. PICK v \in Page : v.thing = y /\ v.nth = i + 1
    BY <2>2, ColumnFor
  <2>4. v \in L
    BY <2>1, <2>3, LeftIs
  <2> QED
    BY <2>1, <2>2, <2>3, <2>4, <1>7
<1>9. f \in [L -> A \cup B]
  BY <1>7
<1>10. IsInjective(f)
  <2>1. ASSUME NEW v \in L, NEW u \in L, f[v] = f[u] PROVE v = u
    <3>1. <<v.thing, v.nth - 1>> = <<u.thing, u.nth - 1>>
      BY <1>7, <2>1
    <3>2. v.thing = u.thing /\ v.nth - 1 = u.nth - 1
      BY <3>1
    <3>3. \A a, b \in Nat : a - 1 = b - 1 => a = b
      OBVIOUS
    <3>4. v.nth \in Nat /\ u.nth \in Nat /\ v \in Page /\ u \in Page
      BY <1>7
    <3>5. v.nth = u.nth
      BY <3>2, <3>3, <3>4
    <3> QED
      BY <3>2, <3>4, <3>5, OneColumn
  <2>2. DOMAIN f = L
    OBVIOUS
  <2> QED
    BY <2>1, <2>2 DEF IsInjective
<1> HIDE DEF L, A, f
<1>11. f \in Bijection(L, A \cup B)
  BY <1>8, <1>9, <1>10 DEF Bijection, Injection, Surjection
<1>12. \A p \in A : p[1] # x
  BY <1>6
<1> DEFINE U == A \cup B
<1>13. U = A \cup ({x} \X (0 .. n - 1)) /\ f \in Bijection(L, U)
  BY <1>11
<1>14. IsFiniteSet(L) /\ Cardinality(L) = Cardinality(A) + n
  <2> HIDE DEF n, x, U
  <2> QED
    BY <1>3, <1>4, <1>12, <1>13, Counted
<1> QED
  BY <1>3, <1>4, <1>14 DEF Place, L

(* There are as many places as columns, and each column has one.            *)
LEMMA PageIs ==
    ASSUME Matches
    PROVE  /\ IsFiniteSet(Page) /\ Cardinality(Page) \in Nat
           /\ \A w \in Page : Place(w) \in Nat /\ Place(w) < Cardinality(Page)
           /\ \A v, w \in Page : Place(v) = Place(w) => v = w
<1>1. /\ tools \in ToolLists /\ beds \in BedLists /\ chambers \in ChamberLists
      /\ combined \in BOOLEAN
  BY DEF Matches, TypeInv
<1> DEFINE Lefts(w) == {v \in Page : LeftOf(v, w)}
<1>2. ASSUME NEW w \in Page
      PROVE  /\ w.thing \in Here /\ w.nth \in Nat
             /\ IsFiniteSet(Lefts(w)) /\ Place(w) \in Nat
             /\ Place(w) = Cardinality(Lefts(w)) /\ ~LeftOf(w, w)
  <2>1. /\ w.thing \in Here /\ w.nth \in Nat \ {0} /\ IsFiniteSet(Lefts(w))
        /\ From(w.thing) \in Nat /\ Place(w) = From(w.thing) + (w.nth - 1)
    BY ColumnOf, PlaceIs
  <2>2. ~LeftOf(w, w)
    BY <1>1, <2>1, ThingsOrdered, LeftIs DEF Here
  <2>3. Place(w) = Cardinality(Lefts(w))
    BY DEF Place
  <2>4. Place(w) \in Nat
    BY <2>1
  <2> QED
    BY <2>1, <2>2, <2>3, <2>4
<1>3. ASSUME NEW v \in Page, NEW w \in Page, v # w PROVE LeftOf(v, w) \/ LeftOf(w, v)
  <2>1. CASE v.thing = w.thing
    <3>1. v.nth # w.nth
      BY <1>3, <2>1, OneColumn
    <3>2. v.nth \in Nat /\ w.nth \in Nat
      BY <1>2
    <3>3. v.nth < w.nth \/ w.nth < v.nth
      BY <3>1, <3>2
    <3> QED
      BY <2>1, <3>3, LeftIs
  <2>2. CASE v.thing # w.thing
    BY <1>1, <1>2, <2>2, ThingsOrdered, LeftIs DEF Here
  <2> QED
    BY <2>1, <2>2
<1>4. ASSUME NEW u \in Page, NEW v \in Page, NEW w \in Page, LeftOf(u, v), LeftOf(v, w)
      PROVE  LeftOf(u, w)
  <2> DEFINE Bef(a, b) == Before(a, b, beds, chambers)
  <2>1. /\ u.thing \in Here /\ v.thing \in Here /\ w.thing \in Here
        /\ u.nth \in Nat /\ v.nth \in Nat /\ w.nth \in Nat
    BY <1>2
  <2>2. (u.thing = v.thing /\ u.nth < v.nth) \/ Bef(u.thing, v.thing)
    BY <1>4, LeftIs
  <2>3. (v.thing = w.thing /\ v.nth < w.nth) \/ Bef(v.thing, w.thing)
    BY <1>4, LeftIs
  <2>4. Bef(u.thing, v.thing) /\ Bef(v.thing, w.thing) => Bef(u.thing, w.thing)
    BY <1>1, <2>1, ThingsOrdered DEF Here
  <2> HIDE DEF Bef
  <2>5. (u.thing = w.thing /\ u.nth < w.nth) \/ Bef(u.thing, w.thing)
    BY <2>1, <2>2, <2>3, <2>4
  <2> QED
    BY <2>5, LeftIs DEF Bef
<1>5. ASSUME NEW v \in Page, NEW w \in Page, LeftOf(v, w) PROVE Place(v) # Place(w)
  <2>1. Lefts(v) \in SUBSET Lefts(w) /\ v \in Lefts(w) /\ v \notin Lefts(v)
    BY <1>2, <1>4, <1>5
  <2>2. Lefts(v) # Lefts(w)
    BY <2>1
  <2> HIDE DEF Lefts
  <2>3. Cardinality(Lefts(v)) # Cardinality(Lefts(w))
    BY <1>2, <2>1, <2>2, FS_Subset
  <2> QED
    BY <1>2, <2>3
<1>6. IsFiniteSet(Page)
  <2> DEFINE N == MaxHeatersPerTool + 1
             P == Here \X (0 .. N)
             f == [w \in Page |-> <<w.thing, w.nth>>]
  <2>1. IsFiniteSet(Here) /\ N \in Nat
    BY <1>1, ThingsFinite, Constants DEF Here
  <2>2. ASSUME NEW x \in Here PROVE Wide(x) \in Nat /\ Wide(x) <= N
    <3>1. CASE x.kind = "tool"
      <4>1. tools[x.index] \in Tools
        BY <1>1, <3>1, Listed, ThingsAre DEF ToolLists, Here
      <4> QED
        BY <1>1, <3>1, <4>1, WidthIs DEF Wide, WidthOf
    <3>2. CASE x.kind # "tool"
      BY <3>2, Constants DEF Wide, WidthOf
    <3> QED
      BY <3>1, <3>2
  <2>3. ASSUME NEW w \in Page
        PROVE  f[w] = <<w.thing, w.nth>> /\ f[w] \in P
    <3>1. w.thing \in Here /\ w.nth \in 1 .. Wide(w.thing)
      BY ColumnOf
    <3>2. w.nth \in 0 .. N
      BY <2>1, <2>2, <3>1
    <3> QED
      BY <3>1, <3>2
  <2>4. f \in [Page -> P]
    BY <2>3
  <2>5. ASSUME NEW v \in Page, NEW w \in Page, f[v] = f[w] PROVE v = w
    <3>1. v.thing = w.thing /\ v.nth = w.nth
      BY <2>3, <2>5
    <3> QED
      BY <3>1, OneColumn
  <2>6. DOMAIN f = Page
    OBVIOUS
  <2>7. IsFiniteSet(P)
    <3> HIDE DEF N
    <3>1. IsFiniteSet(0 .. N)
      BY <2>1, FS_Interval
    <3> QED
      BY <2>1, <3>1, FS_Product
  <2> HIDE DEF f, P
  <2>8. f \in Injection(Page, P)
    BY <2>4, <2>5, <2>6 DEF Injection, IsInjective
  <2> QED
    BY <2>7, <2>8, FS_Injection
<1>7. ASSUME NEW w \in Page PROVE Place(w) < Cardinality(Page)
  <2>1. Lefts(w) \in SUBSET (Page \ {w})
    BY <1>2
  <2>2. IsFiniteSet(Page \ {w}) /\ Cardinality(Page \ {w}) = Cardinality(Page) - 1
    BY <1>6, FS_RemoveElement
  <2> HIDE DEF Lefts
  <2>3. Cardinality(Lefts(w)) <= Cardinality(Page \ {w})
    BY <2>1, <2>2, FS_Subset
  <2>4. Cardinality(Page) \in Nat
    BY <1>6, FS_CardinalityType
  <2> QED
    BY <1>2, <2>2, <2>3, <2>4
<1>8. \A v, w \in Page : Place(v) = Place(w) => v = w
  BY <1>3, <1>5
<1>9. Cardinality(Page) \in Nat
  BY <1>6, FS_CardinalityType
<1> QED
  BY <1>2, <1>6, <1>7, <1>8, <1>9

LEMMA AgreesMatches ==
    ASSUME TypeInv, UsedInv, SpindleInv, ToolInv, HeatInv, PointerInv, HeatersInv,
           PlacedInv, Agrees
    PROVE  Matches
<1>1. /\ IsSettled /\ LeftOver = {} /\ crowded = {} /\ ~meddled /\ unfound = {}
      /\ Fresh("tools")
  BY SettledNumbers DEF Agrees
<1>2. /\ DOMAIN tools = DOMAIN host.tools
      /\ \A t \in DOMAIN tools :
            /\ HeatersOf(tools[t]) = Held(host.tools[t].heaters)
            /\ IF host.tools[t].spindle = NoSpindle THEN tools[t].spindle = Null
               ELSE tools[t].spindle = spindles[host.tools[t].spindle]
  BY <1>1, SettledAreHosts DEF ListsAreHosts, ToolsAreHosts
<1>3. /\ DOMAIN spindles = host.spindles
      /\ DOMAIN beds = DOMAIN host.beds /\ DOMAIN chambers = DOMAIN host.chambers
      /\ \A b \in DOMAIN beds : beds[b].heater = host.beds[b]
      /\ \A c \in DOMAIN chambers : chambers[c].heater = host.chambers[c]
  BY <1>1, SettledNumbers
<1>4. \A t \in DOMAIN tools : HeatersRead(t)
  BY <1>1, <1>2 DEF HeatersInv
<1>5. Placed
  BY <1>1 DEF PlacedInv, AllRead, Calm, Whole, IsSettled
<1> QED
  BY <1>2, <1>3, <1>4, <1>5 DEF Matches

LEMMA ColumnsShown ==
    ASSUME Matches
    PROVE  ColumnsOfThings
<1> DEFINE Owner(x, c) == Owns(x, c, tools, beds, chambers, combined)
           Is(c, x) == ColumnIs(columns[c], c, x, tools, spindles, beds, chambers, combined)
<1>1. \A c \in Slots : \/ \E x : Owner(x, c) /\ Is(c, x)
                       \/ /\ \A x : ~Owner(x, c)
                          /\ ~columns[c].shown /\ ~columns[c].button.shown
  BY DEF Matches, Placed, PlacedAs
<1>2. \A x, c : Owner(x, c) <=> x \in Here /\ c \in From(x) .. From(x) + Wide(x) - 1
  BY DEF Owns, Here, From, Wide
<1>3. \A x, c : Is(c, x) =>
          /\ \E junk \in Int : columns[c].field = AdjustEvent(x, tools, spindles, junk)
          /\ columns[c].shown = (columns[c].field.kind # "none")
          /\ c = From(x) => columns[c].button = [thing |-> x, shown |-> TRUE]
  BY Zenon DEF ColumnIs, From
<1> HIDE DEF Owner, Is
(* The column of an owner.                                                  *)
<1>4. ASSUME NEW c \in Slots, NEW x, Owner(x, c)
      PROVE  \E w \in Page : w.thing = x /\ Place(w) = c
  <2>1. x \in Here /\ c \in From(x) .. From(x) + Wide(x) - 1 /\ c \in Nat
    BY <1>2, <1>4, Constants DEF Slots
  <2>2. From(x) \in Nat /\ Wide(x) \in Nat
    BY <2>1, ColumnFor, PlacesAre DEF Matches, TypeInv, From, Here
  <2>3. c - From(x) + 1 \in 1 .. Wide(x)
    BY <2>1, <2>2
  <2>4. PICK w \in Page : w.thing = x /\ w.nth = c - From(x) + 1
    BY <2>1, <2>3, ColumnFor
  <2>5. Place(w) = From(x) + ((c - From(x) + 1) - 1)
    BY <2>4, PlaceIs
  <2>6. Place(w) = c
    BY <2>1, <2>2, <2>5
  <2> QED
    BY <2>4, <2>6
<1>5. ASSUME NEW w \in Page, Place(w) \in Slots PROVE Owner(w.thing, Place(w))
  <2>1. /\ w.thing \in Here /\ w.nth \in 1 .. Wide(w.thing)
        /\ From(w.thing) \in Nat /\ w.nth \in Nat \ {0}
        /\ Place(w) = From(w.thing) + (w.nth - 1)
    BY ColumnOf, PlaceIs
  <2>2. Wide(w.thing) \in Nat
    BY <2>1, ColumnFor
  <2>3. Place(w) \in From(w.thing) .. From(w.thing) + Wide(w.thing) - 1
    BY <2>1, <2>2
  <2> QED
    BY <1>2, <2>1, <2>3
<1>6. ASSUME NEW w \in Page, Place(w) \in Slots
      PROVE  LET column == columns[Place(w)]
             IN  /\ column.field = w.adjusts
                 /\ column.shown = (w.adjusts.kind # "none")
                 /\ w.nth = 1 => column.button = [thing |-> w.thing, shown |-> TRUE]
  <2> DEFINE c == Place(w)
  <2>1. PICK x : Owner(x, c) /\ Is(c, x)
    BY <1>1, <1>5, <1>6
  <2>2. x = w.thing
    BY <1>4, <1>6, <2>1, PageIs
  <2>3. PICK junk \in Int : columns[c].field = AdjustEvent(x, tools, spindles, junk)
    BY <1>3, <2>1
  <2>4. columns[c].field = w.adjusts
    BY <2>2, <2>3, ColumnOf
  <2>5. columns[c].shown = (columns[c].field.kind # "none")
    BY <1>3, <2>1, Zenon
  <2>6. ASSUME w.nth = 1 PROVE columns[c].button = [thing |-> w.thing, shown |-> TRUE]
    <3>0. From(x) \in Nat /\ c = From(x) + (1 - 1)
      BY <2>2, <2>6, PlaceIs
    <3>1. c = From(x)
      BY <3>0
    <3> QED
      BY <1>3, <2>1, <2>2, <3>1
  <2>7. columns[c].shown = (w.adjusts.kind # "none")
    BY <2>4, <2>5, Zenon
  <2> QED
    BY <2>4, <2>6, <2>7, Zenon
<1>7. ASSUME NEW c \in Slots, c >= Cardinality(Page)
      PROVE  ~columns[c].shown /\ ~columns[c].button.shown
  <2>1. ASSUME NEW x, Owner(x, c) PROVE FALSE
    <3>1. PICK w \in Page : w.thing = x /\ Place(w) = c
      BY <1>4, <2>1
    <3>2. Place(w) < Cardinality(Page) /\ Cardinality(Page) \in Nat /\ Place(w) \in Nat
      BY PageIs
    <3> QED
      BY <1>7, <3>1, <3>2
  <2> QED
    BY <1>1, <2>1, Zenon
<1> QED
  BY <1>6, <1>7, Zenon DEF ColumnsOfThings

LEMMA HeatersAreNumbers == Heaters \subseteq Nat
<1>1. ASSUME NEW m \in Machines
      PROVE  UNION ({ToSet(m.tools[t].heaters) : t \in DOMAIN m.tools}
                    \cup {Range(m.beds), Range(m.chambers)}) \subseteq Nat
  <2>1. /\ m.beds \in [DOMAIN m.beds -> Nat] /\ m.chambers \in [DOMAIN m.chambers -> Nat]
        /\ \A t \in DOMAIN m.tools : m.tools[t].heaters \in Seq(Nat)
    BY ObjectModelAssumption DEF ObjectModelAssumption
  <2>2. Range(m.beds) \subseteq Nat /\ Range(m.chambers) \subseteq Nat
    BY <2>1 DEF Range
  <2>3. ASSUME NEW t \in DOMAIN m.tools PROVE ToSet(m.tools[t].heaters) \subseteq Nat
    <3> DEFINE hs == m.tools[t].heaters
    <3>1. hs \in Seq(Nat)
      BY <2>1
    <3> HIDE DEF hs
    <3>2. \A i \in DOMAIN hs : hs[i] \in Nat
      BY <3>1
    <3>3. ToSet(hs) \subseteq Nat
      BY <3>2 DEF ToSet
    <3> QED
      BY <3>3 DEF hs
  <2> QED
    BY <2>2, <2>3
<1> QED
  BY <1>1 DEF Heaters

(* A thing that has columns knows the first of them.                        *)
LEMMA SlotsKnown ==
    ASSUME Matches, Cardinality(Page) <= MaxSlots
    PROVE  /\ \A x \in Here : /\ From(x) \in Slots
                              /\ SlotOf(x, tools, beds, chambers) = From(x)
           /\ \A b \in DOMAIN beds : beds[b].slot = From(Thing("bed", b))
           /\ \A c \in DOMAIN chambers : chambers[c].slot = From(Thing("chamber", c))
           /\ \A t \in DOMAIN tools : tools[t].slot = From(Thing("tool", t))
           /\ Walked(tools) = DOMAIN tools /\ Walked(beds) = DOMAIN beds
           /\ Walked(chambers) = DOMAIN chambers
<1>1. ASSUME NEW x \in Here
      PROVE  From(x) \in Slots /\ SlotOf(x, tools, beds, chambers) = From(x)
  <2>1. Wide(x) \in Nat \ {0}
    BY ColumnFor
  <2>2. PICK w \in Page : w.thing = x /\ w.nth = 1
    BY <2>1, ColumnFor
  <2>3. /\ Place(w) \in Nat /\ Place(w) < Cardinality(Page) /\ Cardinality(Page) \in Nat
        /\ From(x) \in Nat /\ Place(w) = From(x) + (1 - 1)
    BY <2>2, PageIs, PlaceIs
  <2>4. From(x) \in Slots
    BY <2>3, Constants DEF Slots
  <2> QED
    BY <2>4 DEF Matches, Placed, PlacedAs, Here, From
<1>2. ASSUME NEW b \in DOMAIN beds
      PROVE  beds[b].slot = From(Thing("bed", b)) /\ From(Thing("bed", b)) \in Slots
  <2>1. /\ Thing("bed", b) \in Here /\ Thing("bed", b).kind = "bed"
        /\ Thing("bed", b).index = b
    BY DEF Here, Things, Thing
  <2> QED
    BY <1>1, <2>1 DEF SlotOf
<1>3. ASSUME NEW c \in DOMAIN chambers
      PROVE  /\ chambers[c].slot = From(Thing("chamber", c))
             /\ From(Thing("chamber", c)) \in Slots
  <2>1. /\ Thing("chamber", c) \in Here /\ Thing("chamber", c).kind = "chamber"
        /\ Thing("chamber", c).index = c
    BY DEF Here, Things, Thing
  <2> QED
    BY <1>1, <2>1 DEF SlotOf
<1>4. ASSUME NEW t \in DOMAIN tools
      PROVE  tools[t].slot = From(Thing("tool", t)) /\ From(Thing("tool", t)) \in Slots
  <2>1. /\ Thing("tool", t) \in Here /\ Thing("tool", t).kind = "tool"
        /\ Thing("tool", t).index = t
    BY DEF Here, Things, Thing
  <2> QED
    BY <1>1, <2>1 DEF SlotOf
<1>5. \A s \in Slots : s < MaxSlots
  BY Constants DEF Slots
<1> QED
  BY <1>1, <1>2, <1>3, <1>4, <1>5 DEF Walked

LEMMA ToolPlace ==
    ASSUME Matches, NEW t \in DOMAIN tools,
           host.tools[t].spindle = NoSpindle \/ host.tools[t].heaters = <<>>
    PROVE  LET x == Thing("tool", t)
               real == host.tools[t].spindle = NoSpindle /\ host.tools[t].heaters # <<>>
           IN  /\ ~real => ToolPlaces(t) = {}
               /\ real => ToolPlaces(t) = 0 .. Wide(x) - 1
               /\ real => \A n : HeaterAt(x, n) = tools[t].heaters[n - 1]
               /\ ~real => \A n : HeaterAt(x, n) = -1
<1> DEFINE x == Thing("tool", t)
           tool == host.tools[t]
           real == tool.spindle = NoSpindle /\ tool.heaters # <<>>
<1>1. x.kind = "tool" /\ x.index = t
  BY ToolShown
<1>2. ASSUME ~real PROVE ToolPlaces(t) = {}
  <2>1. tool.heaters = <<>>
    BY <1>2
  <2>2. NumHeaters(tools[t]) = 0 /\ HeatersRead(t)
    BY <2>1, ToolShown DEF Matches
  <2>3. 0 \notin DOMAIN tools[t].heaters
    <3>1. Len(tool.heaters) = 0
      BY <2>1
    <3> QED
      BY <2>2, <3>1 DEF HeatersRead
  <2> QED
    BY <2>2, <2>3 DEF ToolPlaces
<1>3. ASSUME real PROVE ToolPlaces(t) = 0 .. Wide(x) - 1
  <2>1. /\ Wide(x) = IF combined THEN 1 ELSE NumHeaters(tools[t])
        /\ 0 \in DOMAIN tools[t].heaters
    BY <1>3, ToolShown
  <2>2. 0 .. 1 - 1 = {0}
    OBVIOUS
  <2>3. CASE combined
    <3>1. ToolPlaces(t) = {0}
      BY <2>1, <2>3 DEF ToolPlaces
    <3>2. Wide(x) = 1
      BY <2>1, <2>3
    <3> QED
      BY <2>2, <3>1, <3>2
  <2>4. CASE ~combined
    BY <2>1, <2>4 DEF ToolPlaces
  <2> QED
    BY <2>3, <2>4
<1>4. ASSUME real, NEW n PROVE HeaterAt(x, n) = tools[t].heaters[n - 1]
  BY <1>1, <1>4 DEF HeaterAt
<1>5. ASSUME ~real, NEW n PROVE HeaterAt(x, n) = -1
  BY <1>1, <1>5 DEF HeaterAt
<1> QED
  BY <1>2, <1>3, <1>4, <1>5

LEMMA TemperaturesShown ==
    ASSUME Matches
    PROVE  TemperaturesInColumns
<1> SUFFICES ASSUME Cardinality(Page) <= MaxSlots,
                    \A t \in DOMAIN host.tools :
                       host.tools[t].spindle = NoSpindle \/ host.tools[t].heaters = <<>>,
                    NEW h \in Heaters
             PROVE  GetHeaterSlots(h) = {Place(w) : w \in {w \in Page : w.heater = h}}
  BY DEF TemperaturesInColumns
<1> DEFINE Shows == {Place(w) : w \in {w \in Page : w.heater = h}}
           OfBeds == {beds[b].slot : b \in {b \in Walked(beds) : beds[b].heater = h}}
           OfChambers == {chambers[c].slot :
                             c \in {c \in Walked(chambers) : chambers[c].heater = h}}
           OfTools == {s \in Slots : \E t \in Walked(tools) :
                          s - tools[t].slot \in ToolPlaces(t)
                          /\ tools[t].heaters[s - tools[t].slot] = h}
<1>0. h # -1 /\ DOMAIN tools = DOMAIN host.tools
  BY HeatersAreNumbers DEF Matches
(* The column of a thing whose temperature is that of h.                    *)
<1>1. ASSUME NEW x \in Here, NEW n \in 1 .. Wide(x), HeaterAt(x, n) = h
      PROVE  From(x) + (n - 1) \in Shows
  <2>1. PICK w \in Page : w.thing = x /\ w.nth = n
    BY ColumnFor
  <2>2. w.heater = h /\ Place(w) = From(x) + (n - 1)
    BY <1>1, <2>1, ColumnOf, PlaceIs
  <2> QED
    BY <2>1, <2>2
<1>2. ASSUME NEW x \in Here PROVE Wide(x) \in Nat \ {0} /\ From(x) \in Nat
  <2>1. From(x) \in Slots
    BY SlotsKnown
  <2> QED
    BY <2>1, ColumnFor, Constants DEF Slots
<1>3. ASSUME NEW b \in DOMAIN beds
      PROVE  /\ Thing("bed", b) \in Here /\ Thing("bed", b).kind = "bed"
             /\ Thing("bed", b).index = b
             /\ \A n : HeaterAt(Thing("bed", b), n) = beds[b].heater
             /\ beds[b].slot = From(Thing("bed", b)) /\ b \in Walked(beds)
  <2>1. /\ Thing("bed", b) \in Here /\ Thing("bed", b).kind = "bed"
        /\ Thing("bed", b).index = b
    BY DEF Here, Things, Thing
  <2> QED
    BY <2>1, SlotsKnown DEF HeaterAt
<1>4. ASSUME NEW c \in DOMAIN chambers
      PROVE  /\ Thing("chamber", c) \in Here /\ Thing("chamber", c).kind = "chamber"
             /\ Thing("chamber", c).index = c
             /\ \A n : HeaterAt(Thing("chamber", c), n) = chambers[c].heater
             /\ chambers[c].slot = From(Thing("chamber", c)) /\ c \in Walked(chambers)
  <2>1. /\ Thing("chamber", c) \in Here /\ Thing("chamber", c).kind = "chamber"
        /\ Thing("chamber", c).index = c
    BY DEF Here, Things, Thing
  <2> QED
    BY <2>1, SlotsKnown DEF HeaterAt
<1>5. ASSUME NEW s \in OfBeds PROVE s \in Shows
  <2>1. PICK b \in DOMAIN beds : beds[b].heater = h /\ s = beds[b].slot
    BY DEF Walked
  <2> DEFINE x == Thing("bed", b)
  <2>2. x \in Here /\ HeaterAt(x, 1) = h /\ s = From(x)
    BY <1>3, <2>1
  <2>3. Wide(x) \in Nat \ {0} /\ From(x) \in Nat
    BY <1>2, <2>2
  <2> HIDE DEF x, Shows
  <2>4. 1 \in 1 .. Wide(x) /\ From(x) + (1 - 1) = From(x)
    BY <2>3
  <2>5. From(x) + (1 - 1) \in Shows
    BY <1>1, <2>2, <2>4
  <2> QED
    BY <2>2, <2>4, <2>5
<1>6. ASSUME NEW s \in OfChambers PROVE s \in Shows
  <2>1. PICK c \in DOMAIN chambers : chambers[c].heater = h /\ s = chambers[c].slot
    BY DEF Walked
  <2> DEFINE x == Thing("chamber", c)
  <2>2. x \in Here /\ HeaterAt(x, 1) = h /\ s = From(x)
    BY <1>4, <2>1
  <2>3. Wide(x) \in Nat \ {0} /\ From(x) \in Nat
    BY <1>2, <2>2
  <2> HIDE DEF x, Shows
  <2>4. 1 \in 1 .. Wide(x) /\ From(x) + (1 - 1) = From(x)
    BY <2>3
  <2>5. From(x) + (1 - 1) \in Shows
    BY <1>1, <2>2, <2>4
  <2> QED
    BY <2>2, <2>4, <2>5
<1>7. ASSUME NEW s \in OfTools PROVE s \in Shows
  <2>1. PICK t \in DOMAIN tools : /\ s - tools[t].slot \in ToolPlaces(t)
                                  /\ tools[t].heaters[s - tools[t].slot] = h
    BY DEF Walked
  <2> DEFINE x == Thing("tool", t)
             n == s - From(x) + 1
  <2>2. x \in Here /\ tools[t].slot = From(x)
    BY ToolShown, SlotsKnown
  <2>3. Wide(x) \in Nat \ {0} /\ From(x) \in Nat /\ s \in Nat
    BY <1>2, <2>2, Constants DEF Slots
  <2>4. /\ s - From(x) \in 0 .. Wide(x) - 1
        /\ \A i : HeaterAt(x, i) = tools[t].heaters[i - 1]
    BY <1>0, <2>1, <2>2, ToolPlace
  <2> HIDE DEF x, Shows
  <2>5. n \in 1 .. Wide(x) /\ n - 1 = s - From(x) /\ From(x) + (n - 1) = s
    BY <2>3, <2>4
  <2>6. HeaterAt(x, n) = h
    BY <2>1, <2>2, <2>4, <2>5
  <2>7. From(x) + (n - 1) \in Shows
    BY <1>1, <2>2, <2>5, <2>6
  <2> QED
    BY <2>5, <2>7
<1>8. ASSUME NEW w \in Page, w.heater = h
      PROVE  Place(w) \in OfBeds \cup OfChambers \cup OfTools
  <2> DEFINE x == w.thing
  <2>1. /\ x \in Here /\ w.nth \in 1 .. Wide(x) /\ HeaterAt(x, w.nth) = h
        /\ Place(w) = From(x) + (w.nth - 1) /\ From(x) \in Nat
        /\ Wide(x) \in Nat
    BY <1>2, <1>8, ColumnOf, PlaceIs
  <2>2. /\ x.kind \in {"tool", "bed", "chamber"} /\ x = Thing(x.kind, x.index)
        /\ x.kind = "tool" => x.index \in DOMAIN tools
        /\ x.kind = "bed" => x.index \in DOMAIN beds
        /\ x.kind = "chamber" => x.index \in DOMAIN chambers
    BY <2>1, ThingsAre DEF Here, Matches, TypeInv
  <2>3. CASE x.kind = "bed"
    <3>1. Wide(x) = 1
      BY <2>3 DEF Wide, WidthOf
    <3>2. Place(w) = From(x)
      BY <2>1, <3>1
    <3>3. /\ x.index \in Walked(beds) /\ beds[x.index].slot = From(x)
          /\ beds[x.index].heater = h
      BY <1>3, <2>1, <2>2, <2>3
    <3>4. Place(w) \in OfBeds
      BY <3>2, <3>3
    <3> QED
      BY <3>4
  <2>4. CASE x.kind = "chamber"
    <3>1. Wide(x) = 1
      BY <2>4 DEF Wide, WidthOf
    <3>2. Place(w) = From(x)
      BY <2>1, <3>1
    <3>3. /\ x.index \in Walked(chambers) /\ chambers[x.index].slot = From(x)
          /\ chambers[x.index].heater = h
      BY <1>4, <2>1, <2>2, <2>4
    <3>4. Place(w) \in OfChambers
      BY <3>2, <3>3
    <3> QED
      BY <3>4
  <2>5. CASE x.kind = "tool"
    <3> DEFINE t == x.index
               s == Place(w)
    <3>1. t \in DOMAIN tools /\ x = Thing("tool", t)
      BY <2>2, <2>5
    <3>2. tools[t].slot = From(x) /\ t \in Walked(tools)
      BY <3>1, SlotsKnown
    <3>3. s \in Slots
      <4>1. s \in Nat /\ s < Cardinality(Page) /\ Cardinality(Page) \in Nat
        BY PageIs
      <4> QED
        BY <4>1, Constants DEF Slots
    <3>4. s - From(x) = w.nth - 1 /\ w.nth - 1 \in 0 .. Wide(x) - 1
      BY <2>1
    <3>5. /\ ToolPlaces(t) = 0 .. Wide(x) - 1
          /\ HeaterAt(x, w.nth) = tools[t].heaters[w.nth - 1]
      BY <1>0, <2>1, <3>1, ToolPlace
    <3>6. s - tools[t].slot \in ToolPlaces(t) /\ tools[t].heaters[s - tools[t].slot] = h
      BY <2>1, <3>2, <3>4, <3>5
    <3>7. Place(w) \in OfTools
      BY <3>2, <3>3, <3>6
    <3> QED
      BY <3>7
  <2> QED
    BY <2>2, <2>3, <2>4, <2>5
<1>9. GetHeaterSlots(h) = OfBeds \cup OfChambers \cup OfTools
  BY DEF GetHeaterSlots
<1> HIDE DEF OfBeds, OfChambers, OfTools
<1>10. \A s \in Shows : s \in OfBeds \cup OfChambers \cup OfTools
  BY <1>8
<1> HIDE DEF Shows
<1>11. GetHeaterSlots(h) = Shows
  BY <1>5, <1>6, <1>7, <1>9, <1>10
<1> QED
  BY <1>11 DEF Shows

LEMMA PageShown ==
    /\ TypeInv /\ UsedInv /\ SpindleInv /\ ToolInv /\ HeatInv /\ PointerInv /\ HeatersInv
    /\ PlacedInv
    => PageShowsMachine
BY AgreesMatches, ColumnsShown, TemperaturesShown DEF PageShowsMachine

-----------------------------------------------------------------------------
(* Theorems *)

IInv == /\ TypeInv /\ UsedInv /\ SpindleInv /\ ToolInv /\ HeatInv /\ PointerInv
        /\ SeenInv /\ TouchInv /\ HeatersInv /\ PlacedInv

LEMMA InvariantInit == Init => IInv
BY InitTypes, InitUsed, SpindlesInit, ToolsInit, HeatInit, PointersInit, SeenInit, TouchInit,
   HeatersInit, PlacedInit DEF IInv

LEMMA InvariantKept == IInv /\ [Next]_vars => IInv'
<1> SUFFICES ASSUME IInv, [Next]_vars PROVE IInv'
  OBVIOUS
<1>1. TypeInv' /\ UsedInv'
  BY NextTypes, NextUsed DEF IInv
<1>2. SpindleInv' /\ ToolInv' /\ HeatInv'
  BY <1>1, SpindlesKept, ToolsKept, HeatKept DEF IInv
<1>3. PointerInv' /\ TouchInv' /\ HeatersInv'
  BY <1>1, <1>2, PointersKept, TouchKept, HeatersKept DEF IInv
<1>4. SeenInv'
  BY <1>1, <1>2, <1>3, SeenKept DEF IInv
<1>5. PlacedInv'
  BY <1>1, PlacedKept DEF IInv
<1> QED
  BY <1>1, <1>2, <1>3, <1>4, <1>5 DEF IInv

LEMMA InvariantHolds == Spec => []IInv
BY InvariantInit, InvariantKept, PTL DEF Spec

(* Once every list has been read since it last changed, what the panel      *)
(* holds is the machine: its tools with their heaters and spindles, its     *)
(* spindles, beds and chambers, whatever came before; of these, a list that *)
(* has become empty is left as it was (ProcessArrayEnd does not know the    *)
(* name of the field then).                                                 *)
THEOREM SettledLists == Spec => []ListsAreHosts
<1>1. IInv => ListsAreHosts
  BY SettledAreHosts DEF IInv
<1> QED
  BY <1>1, InvariantHolds, PTL

(* A tool does not point at a spindle that was deleted once its list has    *)
(* been read, unless the spindle it should point at was not known then or   *)
(* the machine has no tools any more.                                       *)
THEOREM NoDanglingSpindle == Spec => []PointersLive
<1>1. IInv => PointersLive
  BY PointersFound DEF IInv
<1> QED
  BY <1>1, InvariantHolds, PTL

(* As long as the machine does not change, the popup adjusts what was       *)
(* touched, and it is there.                                                *)
THEOREM TouchedIsAdjusted == Spec => []AdjustedIsTouched
<1>1. IInv => AdjustedIsTouched
  BY TouchedIsThere DEF IInv
<1> QED
  BY <1>1, InvariantHolds, PTL

(* Once every list has been read since it last changed, had room, none has  *)
(* become empty, and no spindle was missed nor a value set for a field that *)
(* had moved, each                                                          *)
(* column of the page adjusts what it should, the first column of each      *)
(* thing has its button, and the columns that are left over are hidden      *)
(* (AllToolsSeen); if there is room for all and no tool has both a spindle  *)
(* and heaters, the temperature of a heater is written to the columns that  *)
(* show it and to no other (GetHeaterSlots).                                *)
THEOREM PageIsMachines == Spec => []PageShowsMachine
<1>1. IInv => PageShowsMachine
  BY PageShown DEF IInv
<1> QED
  BY <1>1, InvariantHolds, PTL
=============================================================================
