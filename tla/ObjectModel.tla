----------------------------- MODULE ObjectModel -----------------------------
(***************************************************************************)
(* The panel's copy of the printer's tools, spindles, beds and chambers     *)
(* (PanelDue.cpp and ObjectModel) and the columns of the Control page that  *)
(* display them (AllToolsSeen in UserInterface.cpp).                        *)
(*                                                                          *)
(* The printer's answer to a request for a list is received one array       *)
(* element at a time, between touches of the user: what it names is         *)
(* created, what it leaves out is removed, and at the end the columns are   *)
(* laid out again.  A status answer brings live values, which create what   *)
(* the panel does not know yet, and tells which lists have changed.  Names  *)
(* of fields come in alphabetical order.                                    *)
(*                                                                          *)
(* A spindle is an object in a cell of memory and a tool points at the      *)
(* cell, which may be freed, and used again, while it does.                 *)
(***************************************************************************)
EXTENDS Integers, FiniteSets, SequencesExt

CONSTANTS
    Machines,           \* configurations the printer may have
    FirstMachines,      \* bound: those it has when the panel starts
    MaxSlots,           \* columns of the page, and capacity of each list
    MaxHeatersPerTool,
    Cells,              \* memory for spindles
    Null,               \* a nullptr to a spindle
    Padded,             \* of beds and chambers, the lists whose array the
                        \* printer fills up with -1, which is passed over
    MaxChanges,         \* bound: changes of configuration
    MaxFaults           \* bound: answers that do not arrive whole, reconnections

(* A machine: the heaters and the spindle (or -1) of each tool, by its      *)
(* number; the numbers of the spindles; and the heater of each bed and      *)
(* chamber.                                                                 *)
Machine(ts, ss, bs, cs) ==
    [tools |-> ts, spindles |-> ss, beds |-> bs, chambers |-> cs]
NoSpindle == -1

SpindleIds == UNION {m.spindles : m \in Machines}
ToolIds == UNION {DOMAIN m.tools : m \in Machines}
BedIds == UNION {DOMAIN m.beds : m \in Machines}
ChamberIds == UNION {DOMAIN m.chambers : m \in Machines}
Heaters == {0} \cup UNION {
    UNION ({ToSet(m.tools[t].heaters) : t \in DOMAIN m.tools}
           \cup {Range(m.beds), Range(m.chambers)}) : m \in Machines}

ASSUME ObjectModelAssumption ==
    /\ MaxSlots \in Nat /\ MaxSlots >= 2
    /\ MaxHeatersPerTool \in Nat \ {0}
    /\ {MaxChanges, MaxFaults} \subseteq Nat
    /\ Null \notin Cells
    /\ FirstMachines \subseteq Machines
    /\ Padded \subseteq {"beds", "chambers"}
    /\ ToolIds \cup SpindleIds \cup BedIds \cup ChamberIds \subseteq Nat
    /\ \A m \in Machines :
          /\ \A s \in {m.spindles, DOMAIN m.tools, DOMAIN m.beds,
                      DOMAIN m.chambers} : IsFiniteSet(s)
          /\ m.beds \in [DOMAIN m.beds -> Nat]
          /\ m.chambers \in [DOMAIN m.chambers -> Nat]
          /\ \A t \in DOMAIN m.tools :
                /\ m.tools[t].heaters \in Seq(Nat)
                /\ m.tools[t].spindle \in m.spindles \cup {NoSpindle}

Lists == <<"heat", "tools", "spindles">>    \* in the order of the seqs table
ListNames == Range(Lists)
Slots == 0 .. MaxSlots - 1
NoMessage == [list |-> "none", rest |-> {}, last |-> -1]
NotAdjusting == [slot |-> -1, touched |-> [kind |-> "none", index |-> -1]]

VARIABLES
    host,           \* the printer's machine
    changes,        \* how often it changed
    changed,        \* lists that changed since the last status answer
    seqState,       \* state of each list's entry in the seqs table
    currentReqSeq,  \* place in the table of the last request; 1 for none
    initialized,    \* every list has been asked for since connecting
    msg,            \* the answer being received: of which list, what is left of
                    \* it, and the last bed, chamber or tool
    lastSpindle

VARIABLES
    tools, spindles, beds, chambers,    \* the lists, by number
    columns,        \* what the columns of the Control page show and send
    combined,       \* setting: one column for all heaters of a tool
    adjusting       \* the popup to adjust a value, if it is on display

VARIABLES           \* history, see ListsAreHosts
    faults,
    unfound,        \* tools that did not find their spindle
    crowded,        \* lists that had no room
    meddled,        \* a value was set for a field that had moved
    used            \* lists of the panel that ever held anything

protocol == <<host, changes, changed, seqState, currentReqSeq>>
lists == <<tools, spindles, beds, chambers>>
history == <<faults, unfound, crowded, meddled>>
vars == <<protocol, initialized, msg, lastSpindle, lists, columns, combined,
          adjusting, history, used>>

-----------------------------------------------------------------------------
(* What an answer contains, as the calls it leads to *)

Field(op, i) == [op |-> op, i |-> i]

(* The field's name begins with "result" until the first value of the       *)
(* answer replaces that by the key.  An array that ends before has a name   *)
(* ProcessArrayEnd does not know, so that an empty list is not noticed; for *)
(* the chambers, a value among the beds, which come first, is enough.       *)
Nonempty(numbers) == {l \in DOMAIN numbers : numbers[l] # {}}
HasValues(m) ==
    Nonempty([tools |-> DOMAIN m.tools, spindles |-> m.spindles,
              beds |-> DOMAIN m.beds, chambers |-> DOMAIN m.chambers]) \cup Padded
Ended(m) ==
    HasValues(m) \cup {l \in {"chambers"} : "beds" \in HasValues(m)}
EndOf == [tools |-> "toolsEnd", spindles |-> "spindlesEnd", beds |-> "bedsEnd",
          chambers |-> "chambersEnd"]
EndFields(m, ls) == {Field(EndOf[l], 0) : l \in ls \cap Ended(m)}

(* An empty array within a tool leads to no call but its end's, and other   *)
(* values come before it.  The calls for extruders and fans, which come     *)
(* between, do nothing the one for "active" has not done or tried.          *)
ToolOps(tool) ==
    (IF tool.heaters = <<>> THEN {"extruders"} ELSE {"active", "heaters"})
    \cup {"heatersEnd", "number", "offsets", "spindle"}
ToolFields(m, t) == {Field(op, t) : op \in ToolOps(m.tools[t])}
SpindleFields(m) ==
    {Field(op, s) : op \in {"spActive", "spCurrent"}, s \in m.spindles}

Answer(m, list) ==
    CASE list = "heat" ->
            {Field("bed", b) : b \in DOMAIN m.beds}
            \cup {Field("chamber", c) : c \in DOMAIN m.chambers}
            \cup EndFields(m, {"beds", "chambers"})
      [] list = "tools" ->
            EndFields(m, {"tools"}) \cup UNION {ToolFields(m, t) : t \in DOMAIN m.tools}
      [] list = "spindles" -> SpindleFields(m) \cup EndFields(m, {"spindles"})
      [] list = "status" ->
            {Field("seqs", 0)} \cup SpindleFields(m)
            \cup {Field("active", t) :
                      t \in {t \in DOMAIN m.tools : m.tools[t].heaters # <<>>}}

(* An array comes whole before what follows its end, an element before the  *)
(* next, and the fields of an element in alphabetical order.                *)
Array == [seqs |-> 1, spActive |-> 2, spCurrent |-> 2, spindlesEnd |-> 3,
          extruders |-> 4, active |-> 4, heaters |-> 4, heatersEnd |-> 4,
          number |-> 4, offsets |-> 4, spindle |-> 4, toolsEnd |-> 5,
          bed |-> 6, bedsEnd |-> 7, chamber |-> 8, chambersEnd |-> 9]
Rank == [seqs |-> 1, spActive |-> 1, spCurrent |-> 2, spindlesEnd |-> 1,
         extruders |-> 1, active |-> 2, heaters |-> 3, heatersEnd |-> 4,
         number |-> 5, offsets |-> 6, spindle |-> 7, toolsEnd |-> 1,
         bed |-> 1, bedsEnd |-> 1, chamber |-> 1, chambersEnd |-> 1]
Precedes(f, g) ==
    \/ Array[f.op] < Array[g.op]
    \/ Array[f.op] = Array[g.op] /\ f.i < g.i
    \/ Array[f.op] = Array[g.op] /\ f.i = g.i /\ Rank[f.op] < Rank[g.op]

IsNext(f) == f \in msg.rest /\ \A g \in msg.rest \ {f} : Precedes(f, g)
Consumed(f) == msg' = [msg EXCEPT !.rest = msg.rest \ {f}]
ConsumedAt(f, i) == msg' = [msg EXCEPT !.rest = msg.rest \ {f}, !.last = i]

-----------------------------------------------------------------------------
(* ListHelpers.hpp *)

\* Mutant: a list of any length.
HasRoomAlways(list) == TRUE

HasRoom(list) == Cardinality(DOMAIN list) < MaxSlots

(* A list of at most MaxSlots objects by number; "new" is the object after   *)
(* its Reset.                                                               *)
GetOrCreate(list, index, new) ==
    IF index \in DOMAIN list \/ ~HasRoom(list) THEN list
    ELSE [i \in DOMAIN list \cup {index} |-> IF i = index THEN new ELSE list[i]]
Without(list, S) == Restrict(list, DOMAIN list \ S)

\* Mutant: what follows the one before the last.
AllFollowingLast(list, index) == {i \in DOMAIN list : i >= index - 1}

AllFollowing(list, index) == {i \in DOMAIN list : i >= index}

(* The numbers an answer passed over between two elements.                  *)
Skipped(last, index) == last + 1 .. index - 1

NewTool == [heaters |-> <<>>, spindle |-> Null, slot |-> MaxSlots]
NewBedOrChamber == [heater |-> -1, slot |-> MaxSlots]

(* Tool::heaters by place, with the number of each; a place may be empty    *)
(* below one that is not.  A new heater has number 0.                       *)
NumHeaters(tool) ==
    Cardinality({i \in DOMAIN tool.heaters : 0 .. i \subseteq DOMAIN tool.heaters})
GetOrCreateHeaters(tool, places) ==
    LET old == tool.heaters
        all == DOMAIN old \cup (places \cap 0 .. MaxHeatersPerTool - 1)
    IN  [tool EXCEPT !.heaters =
            [i \in all |-> IF i \in DOMAIN old THEN old[i] ELSE 0]]
RemoveHeatersFrom(tool, from) ==
    [tool EXCEPT !.heaters = Restrict(tool.heaters,
        {i \in DOMAIN tool.heaters :
            i < from \/ ~(from .. i \subseteq DOMAIN tool.heaters)})]

(* Changes a tool that exists or can be created.                            *)
WithTool(t, F(_)) ==
    LET all == GetOrCreate(tools, t, NewTool)
    IN  IF t \in DOMAIN all THEN [all EXCEPT ![t] = F(all[t])] ELSE all

SpindleIn(cell) == {s \in DOMAIN spindles : spindles[s] = cell}
FreeCells == Cells \ Range(spindles)

-----------------------------------------------------------------------------
(* AllToolsSeen *)

Thing(kind, i) == [kind |-> kind, index |-> i]
Things(ts, bs, cs) ==
    {Thing("tool", t) : t \in DOMAIN ts} \cup {Thing("bed", b) : b \in DOMAIN bs}
    \cup {Thing("chamber", c) : c \in DOMAIN cs}

(* The first bed, the tools, the first chamber, other beds and chambers.    *)
First(list, i) == \A j \in DOMAIN list : i <= j
Turn(x, bs, cs) ==
    CASE x.kind = "bed" -> IF First(bs, x.index) THEN 1 ELSE 4
      [] x.kind = "tool" -> 2
      [] x.kind = "chamber" -> IF First(cs, x.index) THEN 3 ELSE 5
Before(x, y, bs, cs) ==
    \/ Turn(x, bs, cs) < Turn(y, bs, cs)
    \/ Turn(x, bs, cs) = Turn(y, bs, cs) /\ x.index < y.index

ToolWidth(tool, comb) ==
    IF tool.spindle # Null \/ 0 \notin DOMAIN tool.heaters \/ comb THEN 1
    ELSE NumHeaters(tool)

\* Mutant: the number of the tool instead of the spindle's.
AdjustEventTool(x, ts, sp, junk) ==
    IF x.kind = "tool" /\ ts[x.index].spindle # Null THEN Thing("rpm", x.index)
    ELSE x

(* What the active and standby fields of a column adjust.  The number of a  *)
(* spindle that was freed is read from memory that is not its own any more. *)
AdjustEvent(x, ts, sp, junk) ==
    IF x.kind # "tool" THEN x
    ELSE IF ts[x.index].spindle # Null THEN
        Thing("rpm", IF ts[x.index].spindle \in Range(sp)
                     THEN CHOOSE s \in DOMAIN sp : sp[s] = ts[x.index].spindle
                     ELSE junk)
    ELSE IF 0 \in DOMAIN ts[x.index].heaters THEN x
    ELSE Thing("none", -1)

Hidden(column) == [column EXCEPT !.shown = FALSE, !.button.shown = FALSE]

(* An object that is not reached keeps its old column: the walk over the    *)
(* tools and the one over further beds end when the page is full.           *)
NoRoom(x, old, bs, cs) ==
    IF Turn(x, bs, cs) \in {1, 3} THEN MaxSlots ELSE old

(* The columns and the lists after AllToolsSeen with the lists given.       *)
AllToolsSeen(ts, sp, bs, cs, comb) ==
    LET things == Things(ts, bs, cs)
        width == [x \in things |->
                    IF x.kind = "tool" THEN ToolWidth(ts[x.index], comb) ELSE 1]
        taken(y) == {y} \X (0 .. width[y] - 1)
        start == [x \in things |-> Cardinality(
                    UNION {taken(y) : y \in {y \in things : Before(y, x, bs, cs)}})]
        slot(x, old) == IF start[x] < MaxSlots THEN start[x]
                        ELSE NoRoom(x, old, bs, cs)
        owner(c) == {x \in things : c \in start[x] .. start[x] + width[x] - 1}
    IN  \E junk \in IF \E t \in DOMAIN ts :
                          ts[t].spindle \notin {Null} \cup Range(sp)
                    THEN SpindleIds \cup {-1} ELSE {-1} :
          /\ tools' = [t \in DOMAIN ts |->
                [ts[t] EXCEPT !.slot = slot(Thing("tool", t), @)]]
          /\ beds' = [b \in DOMAIN bs |->
                [bs[b] EXCEPT !.slot = slot(Thing("bed", b), @)]]
          /\ chambers' = [c \in DOMAIN cs |->
                [cs[c] EXCEPT !.slot = slot(Thing("chamber", c), @)]]
          /\ columns' = [c \in Slots |->
                IF owner(c) = {} THEN Hidden(columns[c])
                ELSE LET x == CHOOSE x \in owner(c) : TRUE
                         event == AdjustEvent(x, ts, sp, junk)
                     IN  [field |-> event, shown |-> event.kind # "none",
                          button |-> IF c = start[x]
                                     THEN [thing |-> x, shown |-> TRUE]
                                     ELSE columns[c].button]]

(* The lists change and, once connected, so do the columns.                 *)
SeenIf(condition, ts, sp, bs, cs) ==
    /\ spindles' = sp
    /\ \/ condition /\ AllToolsSeen(ts, sp, bs, cs, combined)
       \/ ~condition /\ tools' = ts /\ beds' = bs /\ chambers' = cs
          /\ UNCHANGED columns

Init ==
    /\ host \in FirstMachines
    /\ changes = 0
    /\ changed = ListNames
    /\ seqState = [l \in ListNames |-> "due"]
    /\ currentReqSeq = 1
    /\ initialized = FALSE
    /\ msg = NoMessage
    /\ lastSpindle = -1
    /\ tools = <<>> /\ spindles = <<>> /\ beds = <<>> /\ chambers = <<>>
    /\ columns = [c \in Slots |-> [field |-> Thing("none", -1), shown |-> FALSE,
                      button |-> [thing |-> Thing("none", -1), shown |-> FALSE]]]
    /\ combined = FALSE
    /\ adjusting = NotAdjusting
    /\ faults = 0
    /\ unfound = {}
    /\ crowded = {}
    /\ meddled = FALSE
    /\ used = {}

-----------------------------------------------------------------------------
(* The printer *)

Differing(m, n) ==
    (IF m.beds = n.beds /\ m.chambers = n.chambers THEN {} ELSE {"heat"})
    \cup (IF m.tools = n.tools THEN {} ELSE {"tools"})
    \cup (IF m.spindles = n.spindles THEN {} ELSE {"spindles"})
Disturbed == IF adjusting = NotAdjusting THEN adjusting
             ELSE [adjusting EXCEPT !.touched = NotAdjusting.touched]

(* The machine is configured anew.  An answer is a copy of the machine as   *)
(* it is when the request arrives, so a change under way is one after it.   *)
Reconfigure ==
    /\ changes < MaxChanges
    /\ msg = NoMessage
    /\ host' \in Machines \ {host}
    /\ changes' = changes + 1
    /\ changed' = changed \cup Differing(host, host')
    /\ adjusting' = Disturbed
    /\ UNCHANGED <<seqState, currentReqSeq, initialized, msg, lastSpindle, lists,
                   columns, combined, history>>

-----------------------------------------------------------------------------
(* Polling *)

(* GetNextSeq: the entries from the last request on; those in error are      *)
(* skipped this time.                                                       *)
Due(entries) == {i \in entries : seqState[Lists[i]] = "due"}
Retried(entries) ==
    [l \in ListNames |-> IF seqState[l] = "error" /\ \E i \in entries : Lists[i] = l
                         THEN "due" ELSE seqState[l]]
Started(list) == [list |-> list, rest |-> Answer(host, list), last |-> -1]

(* The list has, or will have while it is received, no room for all.        *)
Crowding(list) ==
    LET numbers == CASE list = "heat" -> {DOMAIN beds \cup DOMAIN host.beds,
                                          DOMAIN chambers \cup DOMAIN host.chambers}
                     [] list = "tools" -> {DOMAIN tools \cup DOMAIN host.tools}
                     [] list = "spindles" -> {DOMAIN spindles \cup host.spindles}
    IN  \E ns \in numbers : Cardinality(ns) > MaxSlots

RequestList ==
    /\ msg = NoMessage
    /\ Due(currentReqSeq .. 3) # {}
    /\ LET k == Min(Due(currentReqSeq .. 3))
       IN  /\ currentReqSeq' = k
           /\ seqState' = Retried(currentReqSeq .. k)
           /\ msg' = Started(Lists[k])
           /\ lastSpindle' = IF Lists[k] = "spindles" THEN -1 ELSE lastSpindle
           /\ crowded' = IF Crowding(Lists[k]) THEN crowded \cup {Lists[k]}
                         ELSE crowded \ {Lists[k]}
           /\ meddled' = (meddled /\ Lists[k] # "tools")
           /\ unfound' = IF Lists[k] = "tools" THEN {} ELSE unfound
    /\ UNCHANGED <<host, changes, changed, initialized, lists, columns, combined,
                   adjusting, faults>>

(* No list is left to ask for; the first time, the page is laid out.        *)
RequestStatus ==
    /\ msg = NoMessage
    /\ Due(currentReqSeq .. 3) = {}
    /\ currentReqSeq' = 1
    /\ seqState' = Retried(currentReqSeq .. 3)
    /\ msg' = Started("status")
    /\ SeenIf(~initialized, tools, spindles, beds, chambers)
    /\ initialized' = TRUE
    /\ UNCHANGED <<host, changes, changed, lastSpindle, combined, adjusting,
                   history>>

Fault == faults < MaxFaults /\ faults' = faults + 1

(* No answer came to the last request.                                      *)
RequestTimeout ==
    /\ Fault
    /\ msg = NoMessage
    /\ msg' = Started("status")
    /\ UNCHANGED <<protocol, initialized, lastSpindle, lists, columns, combined,
                   adjusting, unfound, crowded, meddled>>

(* Reconnect, which also takes the popups away.                             *)
Reconnect ==
    /\ Fault
    /\ initialized' = FALSE
    /\ seqState' = [l \in ListNames |-> "due"]
    /\ changed' = ListNames
    /\ adjusting' = NotAdjusting
    /\ UNCHANGED <<host, changes, currentReqSeq, msg, lastSpindle, lists, columns,
                   combined, unfound, crowded, meddled>>

(* The rest of the message is lost on the line, or all of it in an answer   *)
(* that says the printer is out of buffers.                                 *)
CutShort ==
    /\ Fault
    /\ msg # NoMessage
    /\ msg' = NoMessage
    /\ \/ msg.list = "status" /\ UNCHANGED seqState
       \/ /\ msg.list # "status"
          /\ seqState' = [seqState EXCEPT ![msg.list] = "error"]
    /\ UNCHANGED <<host, changes, changed, currentReqSeq, initialized, lastSpindle,
                   lists, columns, combined, adjusting, unfound, crowded, meddled>>

EndReceivedMessage ==
    /\ msg # NoMessage
    /\ msg.rest = {}
    /\ msg' = NoMessage
    /\ \/ msg.list = "status" /\ UNCHANGED seqState
       \/ /\ msg.list # "status"
          /\ seqState' = [seqState EXCEPT ![msg.list] = "ok"]
    /\ UNCHANGED <<host, changes, changed, currentReqSeq, initialized, lastSpindle,
                   lists, columns, combined, adjusting, history>>

-----------------------------------------------------------------------------
(* Elements of an answer (ProcessReceivedValue, ProcessArrayEnd) *)

received == <<host, changes, currentReqSeq, initialized, combined, adjusting,
              history>>
unlisted == <<changed, seqState>>

(* UpdateSeq for each list whose number is not the one known.               *)
ReceiveSeqs(f) ==
    /\ f.op = "seqs"
    /\ Consumed(f)
    /\ seqState' = [l \in ListNames |->
                        IF l \in changed THEN "due" ELSE seqState[l]]
    /\ changed' = {}
    /\ UNCHANGED <<received, lastSpindle, lists, columns>>

OnlyTools(new) ==
    /\ tools' = new
    /\ UNCHANGED <<spindles, beds, chambers, columns>>

(* rcvToolsActive, for each heater; rcvToolsStandby does the same.          *)
UpdateToolTemps(f) ==
    /\ f.op = "active"
    /\ Consumed(f)
    /\ OnlyTools(WithTool(f.i, LAMBDA tool :
                      GetOrCreateHeaters(tool,
                          0 .. Len(host.tools[f.i].heaters) - 1)))
    /\ UNCHANGED <<received, unlisted, lastSpindle>>

(* SetToolExtruder, SetToolFan and SetToolOffset, as far as the list goes.  *)
SetToolExtruderOrOffset(f) ==
    /\ f.op \in {"extruders", "offsets"}
    /\ Consumed(f)
    /\ OnlyTools(WithTool(f.i, LAMBDA tool : tool))
    /\ UNCHANGED <<received, unlisted, lastSpindle>>

(* SetToolHeater for each element of the array.                             *)
Numbered(tool, numbers) ==
    LET new == GetOrCreateHeaters(tool, 0 .. Len(numbers) - 1)
    IN  [new EXCEPT !.heaters = [i \in DOMAIN new.heaters |->
            IF i < Len(numbers) THEN numbers[i + 1] ELSE new.heaters[i]]]
SetToolHeaters(f) ==
    /\ f.op = "heaters"
    /\ Consumed(f)
    /\ OnlyTools(WithTool(f.i, LAMBDA tool : Numbered(tool, host.tools[f.i].heaters)))
    /\ UNCHANGED <<received, unlisted, lastSpindle>>

\* Mutant: the heaters that are gone stay.
RemoveToolHeatersNot(f) ==
    /\ f.op = "heatersEnd"
    /\ Consumed(f)
    /\ OnlyTools(WithTool(f.i, LAMBDA tool : tool))
    /\ UNCHANGED <<received, unlisted, lastSpindle>>

(* The end of the array; the page is laid out if a heater went.             *)
RemoveToolHeaters(f) ==
    /\ f.op = "heatersEnd"
    /\ Consumed(f)
    /\ LET all == WithTool(f.i, LAMBDA tool :
                      RemoveHeatersFrom(tool, Len(host.tools[f.i].heaters)))
           old == GetOrCreate(tools, f.i, NewTool)
       IN  SeenIf(initialized /\ all # old, all, spindles, beds, chambers)
    /\ UNCHANGED <<received, unlisted, lastSpindle>>

ReceiveToolNumber(f) ==
    /\ f.op = "number"
    /\ ConsumedAt(f, f.i)
    /\ OnlyTools(Without(tools, Skipped(msg.last, f.i)))
    /\ UNCHANGED <<received, unlisted, lastSpindle>>

\* Mutant: the tool keeps the spindle it had.
WithSpindleKept(tool, s) ==
    IF s \notin DOMAIN spindles THEN tool
    ELSE [tool EXCEPT !.spindle = spindles[s]]

(* A spindle that the panel does not know changes nothing.                  *)
WithSpindle(tool, s) ==
    IF s = NoSpindle THEN [tool EXCEPT !.spindle = Null]
    ELSE IF s \notin DOMAIN spindles THEN tool
    ELSE [tool EXCEPT !.spindle = spindles[s]]
SetToolSpindle(f) ==
    /\ f.op = "spindle"
    /\ Consumed(f)
    /\ LET s == host.tools[f.i].spindle
       IN  /\ OnlyTools(WithTool(f.i, LAMBDA tool : WithSpindle(tool, s)))
           /\ unfound' = IF s \in DOMAIN spindles \cup {NoSpindle} THEN unfound
                         ELSE unfound \cup {f.i}
    /\ UNCHANGED <<host, changes, currentReqSeq, initialized, combined, adjusting,
                   faults, crowded, meddled, unlisted, lastSpindle>>

EndOfTools(f) ==
    /\ f.op = "toolsEnd"
    /\ Consumed(f)
    /\ SeenIf(initialized, Without(tools, AllFollowing(tools, msg.last + 1)),
              spindles, beds, chambers)
    /\ UNCHANGED <<received, unlisted, lastSpindle>>

(* A new spindle takes a free cell; which, is the allocator's choice.       *)
CreateSpindle(s) ==
    IF s \in DOMAIN spindles \/ ~HasRoom(spindles) THEN {spindles}
    ELSE {GetOrCreate(spindles, s, c) : c \in FreeCells}

(* Also in a status answer.  What is removed there is decided with the      *)
(* lastSpindle left from before.                                            *)
SetSpindleActive(f) ==
    /\ f.op = "spActive"
    /\ Consumed(f)
    /\ \E sp \in CreateSpindle(f.i) :
          spindles' = Without(sp, Skipped(lastSpindle, f.i))
    /\ lastSpindle' = f.i
    /\ UNCHANGED <<received, unlisted, tools, beds, chambers, columns>>

(* The fields after "active": current, max, min and state.                  *)
SetSpindleCurrent(f) ==
    /\ f.op = "spCurrent"
    /\ Consumed(f)
    /\ spindles' \in CreateSpindle(f.i)
    /\ UNCHANGED <<received, unlisted, lastSpindle, tools, beds, chambers, columns>>

EndOfSpindles(f) ==
    /\ f.op = "spindlesEnd"
    /\ Consumed(f)
    /\ SeenIf(initialized, tools,
              Without(spindles, AllFollowing(spindles, lastSpindle + 1)),
              beds, chambers)
    /\ UNCHANGED <<received, unlisted, lastSpindle>>

(* SetBedOrChamberHeater, and what the answer skipped.                      *)
WithHeater(list, i, heater) ==
    LET all == GetOrCreate(list, i, NewBedOrChamber)
        set == IF i \in DOMAIN all THEN [all EXCEPT ![i].heater = heater] ELSE all
    IN  Without(set, Skipped(msg.last, i))
SetBedHeater(f) ==
    /\ f.op = "bed"
    /\ ConsumedAt(f, f.i)
    /\ beds' = WithHeater(beds, f.i, host.beds[f.i])
    /\ UNCHANGED <<received, unlisted, lastSpindle, tools, spindles, chambers,
                   columns>>
SetChamberHeater(f) ==
    /\ f.op = "chamber"
    /\ ConsumedAt(f, f.i)
    /\ chambers' = WithHeater(chambers, f.i, host.chambers[f.i])
    /\ UNCHANGED <<received, unlisted, lastSpindle, tools, spindles, beds, columns>>

(* lastChamber, which msg.last stands for from here on, is still -1.        *)
EndOfBeds(f) ==
    /\ f.op = "bedsEnd"
    /\ ConsumedAt(f, -1)
    /\ SeenIf(initialized, tools, spindles,
              Without(beds, AllFollowing(beds, msg.last + 1)), chambers)
    /\ UNCHANGED <<received, unlisted, lastSpindle>>
EndOfChambers(f) ==
    /\ f.op = "chambersEnd"
    /\ Consumed(f)
    /\ SeenIf(initialized, tools, spindles, beds,
              Without(chambers, AllFollowing(chambers, msg.last + 1)))
    /\ UNCHANGED <<received, unlisted, lastSpindle>>

-----------------------------------------------------------------------------
(* The user *)

IsSettled ==
    /\ initialized
    /\ changed = {}
    /\ \A l \in ListNames : seqState[l] = "ok"
    /\ msg = NoMessage

(* Lists that held something and of which the machine has nothing now: what *)
(* is in them stays.                                                        *)
LeftOver == used \ Ended(host)

(* An active or standby field of a column is touched: the popup to adjust   *)
(* it comes up.  "touched" records what the field adjusts, if the panel     *)
(* knows the machine then and until the machine changes.                    *)
Adjust ==
    /\ adjusting = NotAdjusting
    /\ \E c \in Slots :
          /\ columns[c].shown
          /\ adjusting' = [slot |-> c,
                touched |-> IF /\ IsSettled /\ LeftOver = {}
                               /\ ~meddled /\ unfound = {}
                            THEN columns[c].field ELSE NotAdjusting.touched]
    /\ UNCHANGED <<protocol, initialized, msg, lastSpindle, lists, columns,
                   combined, history>>

(* evSetInt sends what the field adjusts now.  For a tool, the place of the *)
(* heater is that of the field in the tool's columns, and the new value     *)
(* creates a heater that is not there.  For a spindle, a bed or a chamber   *)
(* nothing changes but what is sent; the spindle is looked up and used      *)
(* without a test that it is there, which AdjustedIsTouched is about.       *)
HeaterPlace(t) == IF combined THEN 0 ELSE adjusting.slot - tools[t].slot
SetInt ==
    /\ adjusting # NotAdjusting
    /\ adjusting' = NotAdjusting
    /\ LET field == columns[adjusting.slot].field
       IN  IF /\ field.kind = "tool" /\ field.index \in DOMAIN tools
              /\ HeaterPlace(field.index) \in 0 .. MaxSlots - 1
           THEN OnlyTools(WithTool(field.index, LAMBDA tool :
                    GetOrCreateHeaters(tool, {HeaterPlace(field.index)})))
           ELSE UNCHANGED <<lists, columns>>
    /\ meddled' = (meddled \/ adjusting.touched = NotAdjusting.touched)
    /\ UNCHANGED <<protocol, initialized, msg, lastSpindle, combined, faults,
                   unfound, crowded>>

(* The popup goes without a touch: a print starts.                          *)
PopupsCleared ==
    /\ adjusting # NotAdjusting
    /\ adjusting' = NotAdjusting
    /\ UNCHANGED <<protocol, initialized, msg, lastSpindle, lists, columns,
                   combined, history>>

(* On the Setup page, with no popup of another page.                        *)
ChangeHeaterCombineType ==
    /\ adjusting = NotAdjusting
    /\ combined' = ~combined
    /\ spindles' = spindles
    /\ AllToolsSeen(tools, spindles, beds, chambers, ~combined)
    /\ UNCHANGED <<protocol, initialized, msg, lastSpindle, adjusting, history>>

-----------------------------------------------------------------------------
Poll == RequestList \/ RequestStatus \/ RequestTimeout \/ Reconnect
Receive ==
    \E f \in msg.rest :
        /\ IsNext(f)
        /\ \/ ReceiveSeqs(f) \/ UpdateToolTemps(f) \/ SetToolExtruderOrOffset(f)
           \/ SetToolHeaters(f) \/ RemoveToolHeaters(f) \/ ReceiveToolNumber(f)
           \/ SetToolSpindle(f) \/ EndOfTools(f) \/ SetSpindleActive(f)
           \/ SetSpindleCurrent(f) \/ EndOfSpindles(f) \/ SetBedHeater(f)
           \/ EndOfBeds(f) \/ SetChamberHeater(f) \/ EndOfChambers(f)
User == Adjust \/ SetInt \/ PopupsCleared \/ ChangeHeaterCombineType

Step == Reconfigure \/ Poll \/ Receive \/ EndReceivedMessage \/ CutShort \/ User

InUse == Nonempty([tools |-> DOMAIN tools, spindles |-> DOMAIN spindles,
                   beds |-> DOMAIN beds, chambers |-> DOMAIN chambers])
Next == Step /\ used' = used \cup InUse'
Spec == Init /\ [][Next]_vars

-----------------------------------------------------------------------------
(* Properties *)

(* Every variable has its type.                                             *)
ThingType == [kind : {"tool", "bed", "chamber", "rpm", "none"}, index : Int]
TypeOK ==
    /\ host \in Machines
    /\ changes \in 0 .. MaxChanges /\ faults \in 0 .. MaxFaults
    /\ changed \subseteq ListNames
    /\ seqState \in [ListNames -> {"ok", "due", "error"}]
    /\ currentReqSeq \in 1 .. 3
    /\ initialized \in BOOLEAN
    /\ lastSpindle \in {-1} \cup SpindleIds
    /\ DOMAIN tools \subseteq ToolIds /\ DOMAIN beds \subseteq BedIds
    /\ DOMAIN chambers \subseteq ChamberIds
    /\ \A t \in DOMAIN tools :
          /\ DOMAIN tools[t].heaters \subseteq 0 .. MaxHeatersPerTool - 1
          /\ Range(tools[t].heaters) \subseteq Heaters
          /\ tools[t].spindle \in Cells \cup {Null}
          /\ tools[t].slot \in 0 .. MaxSlots
    /\ DOMAIN spindles \subseteq SpindleIds
    /\ Range(spindles) \subseteq Cells /\ IsInjective(spindles)
    /\ \A list \in {beds, chambers} : \A i \in DOMAIN list :
          list[i].heater \in Heaters /\ list[i].slot \in 0 .. MaxSlots
    /\ \A numbers \in {DOMAIN l : l \in {beds, chambers}}
                      \cup {DOMAIN tools, DOMAIN spindles} :
          Cardinality(numbers) <= MaxSlots
    /\ columns \in [Slots -> [field : ThingType, shown : BOOLEAN,
                              button : [thing : ThingType, shown : BOOLEAN]]]
    /\ combined \in BOOLEAN
    /\ unfound \subseteq ToolIds /\ crowded \subseteq ListNames
    /\ meddled \in BOOLEAN
    /\ used \subseteq DOMAIN EndOf

Held(heaters) == SubSeq(heaters, 1, Min({MaxHeatersPerTool, Len(heaters)}))
HeatersOf(tool) == [i \in 1 .. NumHeaters(tool) |-> tool.heaters[i - 1]]

(* When the panel has read every list since it last changed, and no answer  *)
(* is in error, its tools, spindles, beds and chambers are the machine's,   *)
(* and each tool points at its spindle: whatever was created by live values *)
(* or in part by answers cut short.  Four cases are left out.  A list that  *)
(* has become empty is not noticed ("LeftOver").  Tools are read before     *)
(* spindles, so that a tool does not find a spindle that no status answer   *)
(* had made known ("unfound"), which its list may have had no room for when *)
(* it did.  A list that had no room, while it still held what the answer    *)
(* goes on to remove, is not complete ("crowded").  And a value set for a   *)
(* field that a change of the machine had moved under the popup may have    *)
(* created a heater ("meddled").                                            *)
ToolsAreHosts ==
    /\ DOMAIN tools = DOMAIN host.tools
    /\ ~meddled => \A t \in DOMAIN tools :
          HeatersOf(tools[t]) = Held(host.tools[t].heaters)
    /\ \A t \in DOMAIN tools \ unfound :
          IF host.tools[t].spindle = NoSpindle THEN tools[t].spindle = Null
          ELSE tools[t].spindle = spindles[host.tools[t].spindle]
ListsAreHosts ==
    IsSettled /\ crowded = {} =>
        /\ "tools" \in LeftOver \/ ToolsAreHosts
        /\ "spindles" \in LeftOver \/ DOMAIN spindles = host.spindles
        /\ \/ "beds" \in LeftOver
           \/ [b \in DOMAIN beds |-> beds[b].heater] = host.beds
        /\ \/ "chambers" \in LeftOver
           \/ [c \in DOMAIN chambers |-> chambers[c].heater] = host.chambers

(* A tool points at a spindle that was deleted only while the tools of the  *)
(* panel are not those of the machine (its next list of tools is on its     *)
(* way, or was in error), if the last list named a spindle the panel did    *)
(* not know, so that the tool kept the one it had, or if the machine has no *)
(* tools any more, which the panel does not notice.                         *)
PointersLive ==
    \A t \in DOMAIN tools :
        tools[t].spindle \notin {Null} \cup Range(spindles) =>
            \/ seqState["tools"] # "ok" \/ "tools" \in changed
            \/ t \in unfound \/ "tools" \in LeftOver

(* What the page of a machine should show: its columns, each with the thing *)
(* it is of, which of the thing's columns it is, what it adjusts and the     *)
(* heater whose temperature it shows.                                       *)
Column(thing, nth, adjusts, heater) ==
    [thing |-> thing, nth |-> nth, adjusts |-> adjusts, heater |-> heater]
BedColumn(b) ==
    Column(Thing("bed", b), 1, Thing("bed", b), host.beds[b])
ChamberColumn(c) ==
    Column(Thing("chamber", c), 1, Thing("chamber", c), host.chambers[c])
ToolColumns(t) ==
    LET x == Thing("tool", t)
        tool == host.tools[t]
    IN  IF tool.spindle # NoSpindle
        THEN {Column(x, 1, Thing("rpm", tool.spindle), -1)}
        ELSE IF tool.heaters = <<>> THEN {Column(x, 1, Thing("none", -1), -1)}
        ELSE {Column(x, i, x, tool.heaters[i]) :
                  i \in IF combined THEN {1} ELSE DOMAIN Held(tool.heaters)}
Page ==
    {BedColumn(b) : b \in DOMAIN host.beds}
    \cup {ChamberColumn(c) : c \in DOMAIN host.chambers}
    \cup UNION {ToolColumns(t) : t \in DOMAIN host.tools}

(* From left to right: the first bed, the tools, the first chamber, further *)
(* beds and further chambers, each by number.                               *)
FirstOf(S) == {i \in S : \A j \in S : i <= j}
Groups ==
    LET firstBed == FirstOf(DOMAIN host.beds)
        firstChamber == FirstOf(DOMAIN host.chambers)
    IN  <<{Thing("bed", b) : b \in firstBed},
          {Thing("tool", t) : t \in DOMAIN host.tools},
          {Thing("chamber", c) : c \in firstChamber},
          {Thing("bed", b) : b \in DOMAIN host.beds \ firstBed},
          {Thing("chamber", c) : c \in DOMAIN host.chambers \ firstChamber}>>
LeftOf(v, w) ==
    \/ v.thing = w.thing /\ v.nth < w.nth
    \/ \E i, j \in 1 .. 5 :
          /\ v.thing \in Groups[i] /\ w.thing \in Groups[j]
          /\ i < j \/ (i = j /\ v.thing.index < w.thing.index)
Place(w) == Cardinality({v \in Page : LeftOf(v, w)})

Agrees ==
    IsSettled /\ LeftOver = {} /\ crowded = {} /\ ~meddled /\ unfound = {}

(* GetHeaterSlots: where the temperature of a heater is written.  Each walk *)
(* ends at the first object without a column.                               *)
Walked(list) ==
    {i \in DOMAIN list : \A j \in DOMAIN list : j <= i => list[j].slot < MaxSlots}

ToolPlaces(t) ==
    IF combined THEN {0} \cap DOMAIN tools[t].heaters
    ELSE 0 .. NumHeaters(tools[t]) - 1
GetHeaterSlots(h) ==
    {beds[b].slot : b \in {b \in Walked(beds) : beds[b].heater = h}}
    \cup {chambers[c].slot : c \in {c \in Walked(chambers) : chambers[c].heater = h}}
    \cup {s \in Slots : \E t \in Walked(tools) :
             s - tools[t].slot \in ToolPlaces(t)
             /\ tools[t].heaters[s - tools[t].slot] = h}

(* As many columns as there is room for, each adjusting what it should,     *)
(* with a button for the first column of each thing.                        *)
ColumnsOfThings ==
    /\ \A w \in Page : Place(w) \in Slots =>
          LET column == columns[Place(w)]
          IN  /\ column.field = w.adjusts
              /\ column.shown = (w.adjusts.kind # "none")
              /\ w.nth = 1 => column.button = [thing |-> w.thing, shown |-> TRUE]
    /\ \A c \in Slots : c >= Cardinality(Page) =>
          ~columns[c].shown /\ ~columns[c].button.shown

(* The temperature of a heater is written to the columns that show it and   *)
(* to no other, if all things have a column (those that have none keep the  *)
(* number of one) and no tool has both a spindle and heaters (those count   *)
(* columns for heaters they do not show).                                   *)
TemperaturesInColumns ==
    /\ Cardinality(Page) <= MaxSlots
    /\ \A t \in DOMAIN host.tools :
          host.tools[t].spindle = NoSpindle \/ host.tools[t].heaters = <<>>
    => \A h \in Heaters :
          GetHeaterSlots(h) = {Place(w) : w \in {w \in Page : w.heater = h}}

(* Once all lists have been received again, after any changes of the        *)
(* machine, errors and retries, the page shows the machine, and each        *)
(* temperature is displayed where it belongs, unless a list has become      *)
(* empty: then the columns of what it held stay.                            *)
PageShowsMachine == Agrees => ColumnsOfThings /\ TemperaturesInColumns

(* The value set in the popup goes to what the user touched, and it exists, *)
(* through any number of status answers, whole or cut, as long as the       *)
(* machine does not change; then it may go to another.                      *)
AdjustedIsTouched ==
    adjusting.touched # NotAdjusting.touched =>
        LET field == columns[adjusting.slot].field
        IN  /\ field = adjusting.touched
            /\ field.kind = "rpm" => field.index \in DOMAIN spindles
            /\ field.kind = "tool" =>
                  /\ field.index \in DOMAIN tools
                  /\ HeaterPlace(field.index)
                        \in DOMAIN tools[field.index].heaters
            /\ field.kind = "bed" => field.index \in DOMAIN beds
            /\ field.kind = "chamber" => field.index \in DOMAIN chambers

=============================================================================
