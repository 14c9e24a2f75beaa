-------------------------- MODULE ObjectModelTypes --------------------------
(***************************************************************************)
(* Types of the lists of ObjectModel, and what each action does to them,    *)
(* for any machines, any number of columns and any number of changes and    *)
(* faults.                                                                  *)
(***************************************************************************)
EXTENDS ObjectModel, FiniteSetTheorems, TLAPS

(* Lists of at most MaxSlots objects, by number.                            *)
Numbers(Ids) == {D \in SUBSET Ids : IsFiniteSet(D) /\ Cardinality(D) <= MaxSlots}
ListsOf(Ids, Objects) == UNION {[D -> Objects] : D \in Numbers(Ids)}

Places == 0 .. MaxHeatersPerTool - 1
ToolHeaters == UNION {[D -> Heaters] : D \in SUBSET Places}
Tools == [heaters : ToolHeaters, spindle : Cells \cup {Null}, slot : 0 .. MaxSlots]
BedsOrChambers == [heater : Heaters, slot : 0 .. MaxSlots]
Columns == [field : ThingType, shown : BOOLEAN,
            button : [thing : ThingType, shown : BOOLEAN]]

ToolLists == ListsOf(ToolIds, Tools)
SpindleLists == {sp \in ListsOf(SpindleIds, Cells) : IsInjective(sp)}
BedLists == ListsOf(BedIds, BedsOrChambers)
ChamberLists == ListsOf(ChamberIds, BedsOrChambers)

-----------------------------------------------------------------------------
(* The constants *)

LEMMA Constants ==
    /\ ListNames = {"heat", "tools", "spindles"}
    /\ MaxSlots \in Nat /\ MaxSlots >= 2
    /\ MaxHeatersPerTool \in Nat /\ MaxHeatersPerTool >= 1
    /\ Null \notin Cells
    /\ 0 \in Heaters
    /\ Lists[1] = "heat" /\ Lists[2] = "tools" /\ Lists[3] = "spindles"
    /\ ToolIds \subseteq Nat /\ SpindleIds \subseteq Nat
    /\ BedIds \subseteq Nat /\ ChamberIds \subseteq Nat
<1>1. ListNames = {"heat", "tools", "spindles"}
  BY DEF ListNames, Lists, Range
<1>2. Lists[1] = "heat" /\ Lists[2] = "tools" /\ Lists[3] = "spindles"
  BY DEF Lists
<1>3. 0 \in Heaters
  BY DEF Heaters
<1> QED
  BY <1>1, <1>2, <1>3, ObjectModelAssumption DEF ObjectModelAssumption

LEMMA OfMachines ==
    ASSUME NEW m \in Machines
    PROVE  /\ DOMAIN m.tools \subseteq ToolIds /\ m.spindles \subseteq SpindleIds
           /\ DOMAIN m.beds \subseteq BedIds /\ DOMAIN m.chambers \subseteq ChamberIds
           /\ IsFiniteSet(DOMAIN m.tools) /\ IsFiniteSet(m.spindles)
           /\ IsFiniteSet(DOMAIN m.beds) /\ IsFiniteSet(DOMAIN m.chambers)
           /\ \A b \in DOMAIN m.beds : m.beds[b] \in Heaters
           /\ \A c \in DOMAIN m.chambers : m.chambers[c] \in Heaters
           /\ \A t \in DOMAIN m.tools :
                 /\ m.tools[t].heaters \in Seq(Nat)
                 /\ Len(m.tools[t].heaters) \in Nat
                 /\ \A i \in 0 .. Len(m.tools[t].heaters) - 1 :
                       m.tools[t].heaters[i + 1] \in Heaters
                 /\ m.tools[t].spindle \in m.spindles \cup {NoSpindle}
<1>1. /\ DOMAIN m.tools \subseteq ToolIds /\ m.spindles \subseteq SpindleIds
      /\ DOMAIN m.beds \subseteq BedIds /\ DOMAIN m.chambers \subseteq ChamberIds
  BY DEF ToolIds, SpindleIds, BedIds, ChamberIds
<1>2. /\ IsFiniteSet(DOMAIN m.tools) /\ IsFiniteSet(m.spindles)
      /\ IsFiniteSet(DOMAIN m.beds) /\ IsFiniteSet(DOMAIN m.chambers)
      /\ \A t \in DOMAIN m.tools :
            /\ m.tools[t].heaters \in Seq(Nat)
            /\ m.tools[t].spindle \in m.spindles \cup {NoSpindle}
  BY ObjectModelAssumption DEF ObjectModelAssumption
<1> DEFINE Of == UNION ({ToSet(m.tools[t].heaters) : t \in DOMAIN m.tools}
                        \cup {Range(m.beds), Range(m.chambers)})
<1>3. Of \subseteq Heaters
  BY DEF Heaters
<1>4. \A b \in DOMAIN m.beds : m.beds[b] \in Heaters
  <2> SUFFICES ASSUME NEW b \in DOMAIN m.beds PROVE m.beds[b] \in Of
    BY <1>3
  <2>1. m.beds[b] \in Range(m.beds)
    BY DEF Range
  <2> QED
    BY <2>1
<1>5. \A c \in DOMAIN m.chambers : m.chambers[c] \in Heaters
  <2> SUFFICES ASSUME NEW c \in DOMAIN m.chambers PROVE m.chambers[c] \in Of
    BY <1>3
  <2>1. m.chambers[c] \in Range(m.chambers)
    BY DEF Range
  <2> QED
    BY <2>1
<1>6. ASSUME NEW t \in DOMAIN m.tools
      PROVE  /\ Len(m.tools[t].heaters) \in Nat
             /\ \A i \in 0 .. Len(m.tools[t].heaters) - 1 :
                   m.tools[t].heaters[i + 1] \in Heaters
  <2> DEFINE hs == m.tools[t].heaters
  <2>1. hs \in Seq(Nat) /\ Len(hs) \in Nat /\ DOMAIN hs = 1 .. Len(hs)
    BY <1>2
  <2>2. ASSUME NEW i \in 0 .. Len(hs) - 1 PROVE hs[i + 1] \in Heaters
    <3>1. i + 1 \in DOMAIN hs
      BY <2>1
    <3>2. hs[i + 1] \in ToSet(hs)
      BY <3>1 DEF ToSet
    <3>3. hs[i + 1] \in Of
      BY <3>2, Zenon
    <3> QED
      BY <3>3, <1>3
  <2> QED
    BY <2>1, <2>2
<1> QED
  BY <1>1, <1>2, <1>4, <1>5, <1>6

-----------------------------------------------------------------------------
(* Lists of objects *)

LEMMA Listed ==
    ASSUME NEW Ids, NEW Objects, NEW list \in ListsOf(Ids, Objects)
    PROVE  /\ DOMAIN list \subseteq Ids /\ IsFiniteSet(DOMAIN list)
           /\ Cardinality(DOMAIN list) \in Nat /\ Cardinality(DOMAIN list) <= MaxSlots
           /\ list \in [DOMAIN list -> Objects]
<1>1. PICK D \in Numbers(Ids) : list \in [D -> Objects]
  BY DEF ListsOf
<1>2. D = DOMAIN list
  BY <1>1
<1> QED
  BY <1>1, <1>2, FS_CardinalityType DEF Numbers

LEMMA IsListed ==
    ASSUME NEW Ids, NEW Objects, NEW D \in Numbers(Ids), NEW list \in [D -> Objects]
    PROVE  list \in ListsOf(Ids, Objects)
BY DEF ListsOf

(* The list has at most one object more, and it has it if there was room.   *)
LEMMA Created ==
    ASSUME NEW Ids, NEW Objects, NEW list \in ListsOf(Ids, Objects),
           NEW i \in Ids, NEW new \in Objects
    PROVE  LET all == GetOrCreate(list, i, new)
           IN  /\ all \in ListsOf(Ids, Objects)
               /\ DOMAIN list \subseteq DOMAIN all
               /\ DOMAIN all \subseteq DOMAIN list \cup {i}
               /\ HasRoom(list) => i \in DOMAIN all
               /\ \A j \in DOMAIN list : all[j] = list[j]
               /\ i \in DOMAIN all \ DOMAIN list => all[i] = new
<1> DEFINE all == GetOrCreate(list, i, new)
<1>0. /\ DOMAIN list \subseteq Ids /\ IsFiniteSet(DOMAIN list)
      /\ Cardinality(DOMAIN list) \in Nat /\ list \in [DOMAIN list -> Objects]
  BY Listed
<1>1. CASE i \in DOMAIN list \/ ~HasRoom(list)
  <2>1. all = list
    BY <1>1 DEF GetOrCreate
  <2> QED
    BY <2>1, <1>1
<1>2. CASE ~(i \in DOMAIN list \/ ~HasRoom(list))
  <2> DEFINE D == DOMAIN list \cup {i}
  <2>1. all = [j \in D |-> IF j = i THEN new ELSE list[j]]
    BY <1>2 DEF GetOrCreate
  <2>2. IsFiniteSet(D) /\ Cardinality(D) = Cardinality(DOMAIN list) + 1
    BY <1>0, <1>2, FS_AddElement
  <2>3. Cardinality(D) <= MaxSlots
    BY <2>2, <1>2, <1>0, Constants DEF HasRoom
  <2>4. D \in Numbers(Ids)
    BY <2>2, <2>3, <1>0 DEF Numbers
  <2>5. all \in [D -> Objects]
    BY <2>1, <1>0
  <2>6. all \in ListsOf(Ids, Objects)
    BY <2>4, <2>5, IsListed
  <2>7. DOMAIN all = D /\ all[i] = new /\ \A j \in DOMAIN list : all[j] = list[j]
    BY <2>1, <1>2
  <2> QED
    BY <2>6, <2>7
<1> QED
  BY <1>1, <1>2

LEMMA Removed ==
    ASSUME NEW Ids, NEW Objects, NEW list \in ListsOf(Ids, Objects), NEW S,
           NEW new, new = Without(list, S)
    PROVE  /\ new \in ListsOf(Ids, Objects)
           /\ DOMAIN new = DOMAIN list \ S
           /\ \A j \in DOMAIN list \ S : new[j] = list[j]
<1> DEFINE D == DOMAIN list \ S
<1>1. Without(list, S) = [j \in D |-> list[j]]
  BY DEF Without, Restrict
<1>2. /\ DOMAIN list \subseteq Ids /\ IsFiniteSet(DOMAIN list)
      /\ Cardinality(DOMAIN list) \in Nat /\ Cardinality(DOMAIN list) <= MaxSlots
      /\ list \in [DOMAIN list -> Objects]
  BY Listed
<1>3. IsFiniteSet(D) /\ Cardinality(D) \in Nat /\ Cardinality(D) <= Cardinality(DOMAIN list)
  BY <1>2, FS_Subset, FS_CardinalityType
<1>4. D \in Numbers(Ids)
  BY <1>2, <1>3, Constants DEF Numbers
<1>5. [j \in D |-> list[j]] \in [D -> Objects]
  BY <1>2
<1>6. [j \in D |-> list[j]] \in ListsOf(Ids, Objects)
  BY <1>4, <1>5, IsListed
<1> QED
  BY <1>1, <1>6

LEMMA Updated ==
    ASSUME NEW Ids, NEW Objects, NEW list \in ListsOf(Ids, Objects),
           NEW i \in DOMAIN list, NEW new \in Objects
    PROVE  /\ [list EXCEPT ![i] = new] \in ListsOf(Ids, Objects)
           /\ DOMAIN [list EXCEPT ![i] = new] = DOMAIN list
           /\ [list EXCEPT ![i] = new][i] = new
           /\ \A j \in DOMAIN list \ {i} : [list EXCEPT ![i] = new][j] = list[j]
<1>1. PICK D \in Numbers(Ids) : list \in [D -> Objects]
  BY DEF ListsOf
<1>2. [list EXCEPT ![i] = new] \in [D -> Objects]
  BY <1>1
<1>3. [list EXCEPT ![i] = new] \in ListsOf(Ids, Objects)
  BY <1>1, <1>2, IsListed
<1> QED
  BY <1>1, <1>3

LEMMA CountTo ==
    ASSUME NEW n \in Nat
    PROVE  IsFiniteSet(0 .. n - 1) /\ Cardinality(0 .. n - 1) = n
<1>1. 0 \in Int /\ n - 1 \in Int
  OBVIOUS
<1>2. IsFiniteSet(0 .. n - 1)
      /\ Cardinality(0 .. n - 1) = IF 0 > n - 1 THEN 0 ELSE n - 1 - 0 + 1
  BY <1>1, FS_Interval
<1> QED
  BY <1>2

(* As many as the pairs they are numbered by: those of A, and n of x.       *)
LEMMA Counted ==
    ASSUME NEW L, NEW A, IsFiniteSet(A), NEW x, NEW n \in Nat,
           \A p \in A : p[1] # x,
           NEW U, U = A \cup ({x} \X (0 .. n - 1)), NEW f \in Bijection(L, U)
    PROVE  IsFiniteSet(L) /\ Cardinality(L) = Cardinality(A) + n
<1> DEFINE B == {x} \X (0 .. n - 1)
<1>1. IsFiniteSet(0 .. n - 1) /\ Cardinality(0 .. n - 1) = n
  BY CountTo
<1>2. IsFiniteSet({x}) /\ Cardinality({x}) = 1
  BY FS_Singleton
<1>3. IsFiniteSet(B) /\ Cardinality(B) = n
  <2>1. IsFiniteSet(B) /\ Cardinality(B) = Cardinality({x}) * Cardinality(0 .. n - 1)
    BY <1>1, <1>2, FS_Product
  <2> HIDE DEF B
  <2> QED
    BY <1>1, <1>2, <2>1
<1>4. A \cap B = {}
  OBVIOUS
<1>5. Cardinality(A) \in Nat
  BY FS_CardinalityType
<1> HIDE DEF B
<1>6. Cardinality(A \cap B) = 0
  BY <1>4, FS_EmptySet
<1>7. IsFiniteSet(U) /\ Cardinality(U) = Cardinality(A) + Cardinality(B) - Cardinality(A \cap B)
  <2>1. U = A \cup B
    BY DEF B
  <2> QED
    BY <1>3, <2>1, FS_Union
<1>8. f \in Injection(L, U) /\ f \in Surjection(L, U)
  BY DEF Bijection
<1>9. IsFiniteSet(L) /\ Cardinality(L) = Cardinality(U)
  BY <1>7, <1>8, FS_Injection
<1> QED
  BY <1>3, <1>5, <1>6, <1>7, <1>9

(* What a tool becomes, by what an element says of it.                      *)
LEMMA ToolIs ==
    ASSUME NEW tool \in Tools
    PROVE  /\ tool.heaters \in [DOMAIN tool.heaters -> Heaters]
           /\ DOMAIN tool.heaters \subseteq Places
           /\ tool.spindle \in Cells \cup {Null}
           /\ tool.slot \in 0 .. MaxSlots
<1>1. /\ tool.heaters \in ToolHeaters /\ tool.spindle \in Cells \cup {Null}
      /\ tool.slot \in 0 .. MaxSlots
  BY DEF Tools
<1>2. PICK D \in SUBSET Places : tool.heaters \in [D -> Heaters]
  BY <1>1 DEF ToolHeaters
<1> QED
  BY <1>1, <1>2

LEMMA ToolWithHeaters ==
    ASSUME NEW tool \in Tools, NEW D \in SUBSET Places, NEW hs \in [D -> Heaters]
    PROVE  LET new == [tool EXCEPT !.heaters = hs]
           IN  /\ new \in Tools /\ new.heaters = hs
               /\ new.spindle = tool.spindle /\ new.slot = tool.slot
<1>1. hs \in ToolHeaters
  BY DEF ToolHeaters
<1> QED
  BY <1>1 DEF Tools

LEMMA HeatersCreated ==
    ASSUME NEW tool \in Tools, NEW places
    PROVE  LET new == GetOrCreateHeaters(tool, places)
           IN  /\ new \in Tools
               /\ new.spindle = tool.spindle /\ new.slot = tool.slot
               /\ DOMAIN new.heaters = DOMAIN tool.heaters \cup (places \cap Places)
               /\ \A i \in DOMAIN tool.heaters : new.heaters[i] = tool.heaters[i]
<1> DEFINE D == DOMAIN tool.heaters \cup (places \cap Places)
           hs == [i \in D |-> IF i \in DOMAIN tool.heaters THEN tool.heaters[i] ELSE 0]
<1>1. hs \in [D -> Heaters] /\ D \in SUBSET Places
  BY ToolIs, Constants
<1>2. GetOrCreateHeaters(tool, places) = [tool EXCEPT !.heaters = hs]
  BY DEF GetOrCreateHeaters, Places
<1>3. \A i \in DOMAIN tool.heaters : hs[i] = tool.heaters[i]
  OBVIOUS
<1>4. DOMAIN hs = D
  OBVIOUS
<1> HIDE DEF hs, D
<1>5. LET new == [tool EXCEPT !.heaters = hs]
      IN  /\ new \in Tools /\ new.heaters = hs
          /\ new.spindle = tool.spindle /\ new.slot = tool.slot
  BY <1>1, ToolWithHeaters
<1> QED
  BY <1>2, <1>3, <1>4, <1>5 DEF D

LEMMA HeatersNumbered ==
    ASSUME NEW tool \in Tools, NEW m \in Machines, NEW t \in DOMAIN m.tools
    PROVE  LET numbers == m.tools[t].heaters
               new == Numbered(tool, numbers)
           IN  /\ new \in Tools
               /\ new.spindle = tool.spindle /\ new.slot = tool.slot
               /\ \A i \in Places : i < Len(numbers) =>
                     i \in DOMAIN new.heaters /\ new.heaters[i] = numbers[i + 1]
<1> DEFINE numbers == m.tools[t].heaters
           all == GetOrCreateHeaters(tool, 0 .. Len(numbers) - 1)
           D == DOMAIN all.heaters
           hs == [i \in D |-> IF i < Len(numbers) THEN numbers[i + 1]
                              ELSE all.heaters[i]]
<1>1. /\ all \in Tools /\ all.spindle = tool.spindle /\ all.slot = tool.slot
      /\ D = DOMAIN tool.heaters \cup ((0 .. Len(numbers) - 1) \cap Places)
  BY HeatersCreated
<1>2. /\ Len(numbers) \in Nat
      /\ \A i \in 0 .. Len(numbers) - 1 : numbers[i + 1] \in Heaters
  BY OfMachines
<1>3. D \in SUBSET Places /\ all.heaters \in [D -> Heaters]
  BY <1>1, ToolIs
<1>4. ASSUME NEW i \in D PROVE hs[i] \in Heaters
  <2>1. i \in 0 .. MaxHeatersPerTool - 1
    BY <1>3 DEF Places
  <2>2. CASE i < Len(numbers)
    BY <2>1, <2>2, <1>2, Constants
  <2>3. CASE ~(i < Len(numbers))
    BY <2>3, <1>3
  <2> QED
    BY <2>2, <2>3
<1>5. hs \in [D -> Heaters]
  BY <1>4
<1>6. Numbered(tool, numbers) = [all EXCEPT !.heaters = hs]
  BY DEF Numbered
<1>7. \A i \in Places : i < Len(numbers) => i \in D /\ hs[i] = numbers[i + 1]
  BY <1>1, <1>2, Constants DEF Places
<1> HIDE DEF hs, D, all
<1>8. LET new == [all EXCEPT !.heaters = hs]
      IN  /\ new \in Tools /\ new.heaters = hs
          /\ new.spindle = all.spindle /\ new.slot = all.slot
  BY <1>1, <1>3, <1>5, ToolWithHeaters
<1>9. DOMAIN hs = D
  BY DEF hs
<1> QED
  BY <1>1, <1>6, <1>7, <1>8, <1>9

LEMMA HeatersRemoved ==
    ASSUME NEW tool \in Tools, NEW from \in Nat
    PROVE  LET new == RemoveHeatersFrom(tool, from)
           IN  /\ new \in Tools
               /\ new.spindle = tool.spindle /\ new.slot = tool.slot
               /\ DOMAIN new.heaters \subseteq DOMAIN tool.heaters \ {from}
               /\ \A i \in DOMAIN tool.heaters : i < from => i \in DOMAIN new.heaters
               /\ \A i \in DOMAIN new.heaters : new.heaters[i] = tool.heaters[i]
<1> DEFINE D == {i \in DOMAIN tool.heaters :
                    i < from \/ ~(from .. i \subseteq DOMAIN tool.heaters)}
           hs == [i \in D |-> tool.heaters[i]]
<1>1. D \in SUBSET Places /\ hs \in [D -> Heaters]
  BY ToolIs
<1>2. RemoveHeatersFrom(tool, from) = [tool EXCEPT !.heaters = hs]
  BY DEF RemoveHeatersFrom, Restrict
<1>3. from \notin D
  <2> SUFFICES ASSUME from \in D PROVE FALSE
    OBVIOUS
  <2>1. from .. from = {from}
    OBVIOUS
  <2> QED
    BY <2>1
<1>4. DOMAIN hs = D /\ \A i \in D : hs[i] = tool.heaters[i]
  OBVIOUS
<1>5. D \subseteq DOMAIN tool.heaters /\ \A i \in DOMAIN tool.heaters : i < from => i \in D
  OBVIOUS
<1> HIDE DEF hs, D
<1>6. LET new == [tool EXCEPT !.heaters = hs]
      IN  /\ new \in Tools /\ new.heaters = hs
          /\ new.spindle = tool.spindle /\ new.slot = tool.slot
  BY <1>1, ToolWithHeaters
<1> QED
  BY <1>2, <1>3, <1>4, <1>5, <1>6

(* As many heaters as there are without an empty place below.               *)
LEMMA HeaterCount ==
    ASSUME NEW tool \in Tools
    PROVE  /\ NumHeaters(tool) \in Nat /\ NumHeaters(tool) <= MaxHeatersPerTool
           /\ \A n \in 0 .. MaxHeatersPerTool :
                 (\A i \in 0 .. n - 1 : i \in DOMAIN tool.heaters)
                 /\ n \notin DOMAIN tool.heaters => NumHeaters(tool) = n
           /\ \A i \in 0 .. NumHeaters(tool) - 1 : i \in DOMAIN tool.heaters
<1> DEFINE D == DOMAIN tool.heaters
           C == {i \in D : 0 .. i \subseteq D}
<1>1. NumHeaters(tool) = Cardinality(C)
  BY DEF NumHeaters
<1>2. D \subseteq Places /\ C \subseteq Places
  BY ToolIs
<1>3. IsFiniteSet(Places) /\ Cardinality(Places) = MaxHeatersPerTool
  BY Constants, CountTo DEF Places
<1>4. /\ IsFiniteSet(C) /\ Cardinality(C) \in Nat
      /\ Cardinality(C) <= MaxHeatersPerTool
  BY <1>2, <1>3, FS_Subset, FS_CardinalityType
<1>5. ASSUME NEW n \in 0 .. MaxHeatersPerTool,
             \A i \in 0 .. n - 1 : i \in D, n \notin D
      PROVE  C = 0 .. n - 1 /\ Cardinality(C) = n
  <2>1. ASSUME NEW i \in C PROVE i \in 0 .. n - 1
    <3>1. i \in Nat /\ 0 .. i \subseteq D
      BY <1>2, Constants DEF Places
    <3>2. ~(n <= i)
      BY <3>1, <1>5, Constants
    <3> QED
      BY <3>1, <3>2, Constants
  <2>2. ASSUME NEW i \in 0 .. n - 1 PROVE i \in C
    <3>1. i \in D /\ 0 .. i \subseteq D
      BY <1>5, Constants
    <3> QED
      BY <3>1
  <2>3. C = 0 .. n - 1
    BY <2>1, <2>2
  <2>4. n \in Nat /\ Cardinality(0 .. n - 1) = n
    BY CountTo, Constants
  <2> HIDE DEF C
  <2> QED
    BY <2>3, <2>4
<1>6. ASSUME NEW k \in 0 .. Cardinality(C) - 1 PROVE k \in D
  <2> SUFFICES ASSUME k \notin D PROVE FALSE
    OBVIOUS
  <2>1. k \in Nat /\ k < Cardinality(C)
    BY <1>4
  <2>2. C \subseteq 0 .. k - 1
    <3> SUFFICES ASSUME NEW i \in C PROVE i \in 0 .. k - 1
      OBVIOUS
    <3>1. i \in Nat /\ 0 .. i \subseteq D
      BY <1>2, Constants DEF Places
    <3> QED
      BY <3>1, <2>1
  <2>3. IsFiniteSet(0 .. k - 1) /\ Cardinality(0 .. k - 1) = k
    BY <2>1, CountTo
  <2>4. Cardinality(C) <= k
    BY <2>2, <2>3, FS_Subset
  <2> QED
    BY <2>1, <2>4, <1>4
<1> QED
  BY <1>1, <1>4, <1>5, <1>6

-----------------------------------------------------------------------------
(* AllToolsSeen *)

LEMMA ThingIs ==
    ASSUME NEW kind \in {"tool", "bed", "chamber", "rpm", "none"}, NEW i \in Int
    PROVE  /\ Thing(kind, i) \in ThingType
           /\ Thing(kind, i).kind = kind /\ Thing(kind, i).index = i
BY DEF Thing, ThingType

LEMMA ThingsAre ==
    ASSUME NEW ts \in ToolLists, NEW bs \in BedLists, NEW cs \in ChamberLists,
           NEW x \in Things(ts, bs, cs)
    PROVE  /\ x \in ThingType /\ x.kind \in {"tool", "bed", "chamber"}
           /\ x = Thing(x.kind, x.index)
           /\ x.index \in DOMAIN ts \cup DOMAIN bs \cup DOMAIN cs
           /\ x.kind = "tool" => x.index \in DOMAIN ts
           /\ x.kind = "bed" => x.index \in DOMAIN bs
           /\ x.kind = "chamber" => x.index \in DOMAIN cs
<1>1. DOMAIN ts \cup DOMAIN bs \cup DOMAIN cs \subseteq Int
  BY Listed, Constants DEF ToolLists, BedLists, ChamberLists
<1>2. CASE \E t \in DOMAIN ts : x = Thing("tool", t)
  BY <1>1, <1>2 DEF Thing, ThingType
<1>3. CASE \E b \in DOMAIN bs : x = Thing("bed", b)
  BY <1>1, <1>3 DEF Thing, ThingType
<1>4. CASE \E c \in DOMAIN cs : x = Thing("chamber", c)
  BY <1>1, <1>4 DEF Thing, ThingType
<1> QED
  BY <1>2, <1>3, <1>4 DEF Things

LEMMA ThingsFinite ==
    ASSUME NEW ts \in ToolLists, NEW bs \in BedLists, NEW cs \in ChamberLists
    PROVE  IsFiniteSet(Things(ts, bs, cs))
<1> DEFINE S == Things(ts, bs, cs)
           I == DOMAIN ts \cup DOMAIN bs \cup DOMAIN cs
           T == {"tool", "bed", "chamber"} \X I
           f == [x \in S |-> <<x.kind, x.index>>]
<1>1. IsFiniteSet(DOMAIN ts) /\ IsFiniteSet(DOMAIN bs) /\ IsFiniteSet(DOMAIN cs)
  BY Listed DEF ToolLists, BedLists, ChamberLists
<1>2. IsFiniteSet(I)
  BY <1>1, FS_Union
<1>3. IsFiniteSet({"tool", "bed", "chamber"})
  <2>1. IsFiniteSet({"tool"} \cup {"bed"} \cup {"chamber"})
    BY FS_Singleton, FS_Union
  <2> QED
    BY <2>1
<1>4. IsFiniteSet(T)
  BY <1>2, <1>3, FS_Product
<1>5. \A x \in S : f[x] \in T /\ x = Thing(f[x][1], f[x][2])
  BY ThingsAre
<1>6. f \in [S -> T] /\ IsInjective(f)
  <2>1. f \in [S -> T]
    BY <1>5
  <2>2. ASSUME NEW x \in S, NEW y \in S, f[x] = f[y] PROVE x = y
    BY <2>2, <1>5
  <2> QED
    BY <2>1, <2>2 DEF IsInjective
<1>7. f \in Injection(S, T)
  BY <1>6 DEF Injection
<1> QED
  BY <1>4, <1>7, FS_Injection

(* The layout says of every thing which column it begins at: a number, of   *)
(* which only those below MaxSlots are columns.                             *)
LEMMA WidthIs ==
    ASSUME NEW tool \in Tools, NEW comb \in BOOLEAN
    PROVE  /\ ToolWidth(tool, comb) \in Nat
           /\ ToolWidth(tool, comb) <= MaxHeatersPerTool + 1
           /\ tool.spindle = Null /\ 0 \in DOMAIN tool.heaters => \A i \in Nat :
                 i < ToolWidth(tool, comb) =>
                    (IF comb THEN 0 ELSE i) \in DOMAIN tool.heaters
<1>1. CASE tool.spindle # Null \/ 0 \notin DOMAIN tool.heaters \/ comb
  <2>1. ToolWidth(tool, comb) = 1
    BY <1>1 DEF ToolWidth
  <2> QED
    BY <2>1, <1>1, Constants
<1>2. CASE ~(tool.spindle # Null \/ 0 \notin DOMAIN tool.heaters \/ comb)
  <2>1. ToolWidth(tool, comb) = NumHeaters(tool)
    BY <1>2 DEF ToolWidth
  <2> QED
    BY <2>1, <1>2, HeaterCount, Constants
<1> QED
  BY <1>1, <1>2

LEMMA StartIs ==
    ASSUME NEW S, IsFiniteSet(S), NEW n \in Nat, NEW U, U \subseteq S \X (0 .. n)
    PROVE  Cardinality(U) \in Nat
<1>1. IsFiniteSet(0 .. n)
  BY FS_Interval
<1>2. IsFiniteSet(S \X (0 .. n))
  BY <1>1, FS_Product
<1> QED
  BY <1>2, FS_Subset, FS_CardinalityType

(* The lists after a layout: the same but for the columns of the objects.   *)
SameTools(ts) ==
    /\ tools' \in ToolLists /\ DOMAIN tools' = DOMAIN ts
    /\ \A t \in DOMAIN ts : /\ tools'[t].heaters = ts[t].heaters
                            /\ tools'[t].spindle = ts[t].spindle
SameHeaters(new, old) ==
    DOMAIN new = DOMAIN old /\ \A i \in DOMAIN old : new[i].heater = old[i].heater

(* A column that is shown adjusts something there is.                       *)
FieldOf(x, c, ts, sp, bs, cs, comb) ==
    /\ x.kind = "tool" =>
          /\ x.index \in DOMAIN ts
          /\ (IF comb THEN 0 ELSE c - ts[x.index].slot)
                \in DOMAIN ts[x.index].heaters
    /\ x.kind = "bed" => x.index \in DOMAIN bs
    /\ x.kind = "chamber" => x.index \in DOMAIN cs
    /\ x.kind = "rpm" => \E t \in DOMAIN ts :
          /\ ts[t].spindle # Null
          /\ ts[t].spindle \in Range(sp) =>
                x.index \in DOMAIN sp /\ sp[x.index] = ts[t].spindle

LEMMA BedsPlaced ==
    ASSUME NEW Ids, NEW list \in ListsOf(Ids, BedsOrChambers),
           NEW place, \A i \in DOMAIN list : place[i] \in 0 .. MaxSlots
    PROVE  LET new == [i \in DOMAIN list |-> [list[i] EXCEPT !.slot = place[i]]]
           IN  new \in ListsOf(Ids, BedsOrChambers) /\ SameHeaters(new, list)
<1> DEFINE new == [i \in DOMAIN list |-> [list[i] EXCEPT !.slot = place[i]]]
<1>1. list \in [DOMAIN list -> BedsOrChambers] /\ DOMAIN list \in Numbers(Ids)
  BY Listed DEF Numbers
<1>2. ASSUME NEW i \in DOMAIN list
      PROVE  new[i] \in BedsOrChambers /\ new[i].heater = list[i].heater
  <2>1. list[i] \in BedsOrChambers
    BY <1>1
  <2> QED
    BY <2>1 DEF BedsOrChambers
<1>3. new \in [DOMAIN list -> BedsOrChambers]
  BY <1>2
<1>4. new \in ListsOf(Ids, BedsOrChambers)
  BY <1>1, <1>3, IsListed
<1> QED
  BY <1>2, <1>4 DEF SameHeaters

LEMMA ToolsPlaced ==
    ASSUME NEW ts \in ToolLists,
           NEW place, \A t \in DOMAIN ts : place[t] \in 0 .. MaxSlots,
           tools' = [t \in DOMAIN ts |-> [ts[t] EXCEPT !.slot = place[t]]]
    PROVE  SameTools(ts)
<1>1. ts \in [DOMAIN ts -> Tools] /\ DOMAIN ts \in Numbers(ToolIds)
  BY Listed DEF Numbers, ToolLists
<1>2. ASSUME NEW t \in DOMAIN ts
      PROVE  /\ tools'[t] \in Tools /\ tools'[t].heaters = ts[t].heaters
             /\ tools'[t].spindle = ts[t].spindle
  <2>1. ts[t] \in Tools
    BY <1>1
  <2> QED
    BY <2>1 DEF Tools
<1>3. tools' \in [DOMAIN ts -> Tools]
  BY <1>2
<1>4. tools' \in ToolLists
  BY <1>1, <1>3, IsListed DEF ToolLists
<1> QED
  BY <1>2, <1>4 DEF SameTools

LEMMA Seen ==
    ASSUME NEW ts \in ToolLists, NEW sp \in SpindleLists, NEW bs \in BedLists,
           NEW cs \in ChamberLists, NEW comb \in BOOLEAN,
           columns \in [Slots -> Columns],
           AllToolsSeen(ts, sp, bs, cs, comb)
    PROVE  /\ SameTools(ts)
           /\ beds' \in BedLists /\ SameHeaters(beds', bs)
           /\ chambers' \in ChamberLists /\ SameHeaters(chambers', cs)
           /\ columns' \in [Slots -> Columns]
           /\ \A c \in Slots : columns'[c].shown =>
                 FieldOf(columns'[c].field, c, tools', sp, bs, cs, comb)
<1> DEFINE things == Things(ts, bs, cs)
           width == [x \in things |->
                       IF x.kind = "tool" THEN ToolWidth(ts[x.index], comb) ELSE 1]
           taken(y) == {y} \X (0 .. width[y] - 1)
           start == [x \in things |-> Cardinality(
                       UNION {taken(y) : y \in {y \in things : Before(y, x, bs, cs)}})]
           slot(x, old) == IF start[x] < MaxSlots THEN start[x]
                           ELSE NoRoom(x, old, bs, cs)
           owner(c) == {x \in things : c \in start[x] .. start[x] + width[x] - 1}
<1>1. PICK junk \in IF \E t \in DOMAIN ts : ts[t].spindle \notin {Null} \cup Range(sp)
                    THEN SpindleIds \cup {-1} ELSE {-1} :
          /\ tools' = [t \in DOMAIN ts |->
                [ts[t] EXCEPT !.slot = slot(Thing("tool", t), ts[t].slot)]]
          /\ beds' = [b \in DOMAIN bs |->
                [bs[b] EXCEPT !.slot = slot(Thing("bed", b), bs[b].slot)]]
          /\ chambers' = [c \in DOMAIN cs |->
                [cs[c] EXCEPT !.slot = slot(Thing("chamber", c), cs[c].slot)]]
          /\ columns' = [c \in Slots |->
                IF owner(c) = {} THEN Hidden(columns[c])
                ELSE LET x == CHOOSE x \in owner(c) : TRUE
                         event == AdjustEvent(x, ts, sp, junk)
                     IN  [field |-> event, shown |-> event.kind # "none",
                          button |-> IF c = start[x]
                                     THEN [thing |-> x, shown |-> TRUE]
                                     ELSE columns[c].button]]
  BY DEF AllToolsSeen
<1>2. junk \in Int
  BY Constants
<1>3. ts \in [DOMAIN ts -> Tools]
  BY Listed DEF ToolLists
<1>4. \A x \in things : width[x] \in Nat /\ width[x] <= MaxHeatersPerTool + 1
  <2> SUFFICES ASSUME NEW x \in things
               PROVE  width[x] \in Nat /\ width[x] <= MaxHeatersPerTool + 1
    OBVIOUS
  <2>1. CASE x.kind = "tool"
    <3>1. ts[x.index] \in Tools
      BY <2>1, <1>3, ThingsAre
    <3> QED
      BY <2>1, <3>1, WidthIs
  <2>2. CASE x.kind # "tool"
    BY <2>2, Constants
  <2> QED
    BY <2>1, <2>2
<1>5. \A x \in things : start[x] \in Nat
  <2> SUFFICES ASSUME NEW x \in things PROVE start[x] \in Nat
    OBVIOUS
  <2> DEFINE B == {y \in things : Before(y, x, bs, cs)}
             N == MaxHeatersPerTool + 1
             U == UNION {taken(y) : y \in B}
  <2>1. start[x] = Cardinality(U)
    OBVIOUS
  <2>2. IsFiniteSet(things) /\ N \in Nat
    BY ThingsFinite, Constants
  <2>3. ASSUME NEW y \in B, NEW p \in taken(y) PROVE p \in things \X (0 .. N)
    <3>1. y \in things /\ width[y] \in Nat /\ width[y] <= N
      BY <1>4
    <3> HIDE DEF things, width, N
    <3>2. p \in {y} \X (0 .. width[y] - 1)
      OBVIOUS
    <3>3. \A i \in 0 .. width[y] - 1 : i \in 0 .. N
      BY <3>1, <2>2
    <3> QED
      BY <3>1, <3>2, <3>3
  <2>4. U \subseteq things \X (0 .. N)
    BY <2>3
  <2> HIDE DEF U, N, things
  <2>5. Cardinality(U) \in Nat
    BY <2>2, <2>4, StartIs
  <2> QED
    BY <2>1, <2>5
<1>6. ASSUME NEW x \in things, NEW old \in 0 .. MaxSlots
      PROVE  slot(x, old) \in 0 .. MaxSlots
  BY <1>5, <1>6, Constants DEF NoRoom
<1> HIDE DEF start, width, slot
<1>7. SameTools(ts)
  <2> DEFINE place == [t \in DOMAIN ts |-> slot(Thing("tool", t), ts[t].slot)]
  <2>1. ASSUME NEW t \in DOMAIN ts PROVE place[t] \in 0 .. MaxSlots
    <3>1. Thing("tool", t) \in things
      BY DEF Things
    <3>2. ts[t].slot \in 0 .. MaxSlots
      BY <1>3, ToolIs
    <3> QED
      BY <1>6, <3>1, <3>2
  <2>2. tools' = [t \in DOMAIN ts |-> [ts[t] EXCEPT !.slot = place[t]]]
    BY <1>1
  <2> HIDE DEF place
  <2> QED
    BY <2>1, <2>2, ToolsPlaced
<1>8. beds' \in BedLists /\ SameHeaters(beds', bs)
  <2> DEFINE place == [b \in DOMAIN bs |-> slot(Thing("bed", b), bs[b].slot)]
  <2>1. ASSUME NEW b \in DOMAIN bs PROVE place[b] \in 0 .. MaxSlots
    <3>1. Thing("bed", b) \in things
      BY DEF Things
    <3>2. bs[b] \in BedsOrChambers
      BY Listed DEF BedLists
    <3>3. bs[b].slot \in 0 .. MaxSlots
      BY <3>2 DEF BedsOrChambers
    <3> QED
      BY <1>6, <3>1, <3>3
  <2>2. beds' = [b \in DOMAIN bs |-> [bs[b] EXCEPT !.slot = place[b]]]
    BY <1>1
  <2> HIDE DEF place
  <2>3. bs \in ListsOf(BedIds, BedsOrChambers)
    BY DEF BedLists
  <2> QED
    BY <2>1, <2>2, <2>3, BedsPlaced DEF BedLists
<1>9. chambers' \in ChamberLists /\ SameHeaters(chambers', cs)
  <2> DEFINE place == [c \in DOMAIN cs |-> slot(Thing("chamber", c), cs[c].slot)]
  <2>1. ASSUME NEW c \in DOMAIN cs PROVE place[c] \in 0 .. MaxSlots
    <3>1. Thing("chamber", c) \in things
      BY DEF Things
    <3>2. cs[c] \in BedsOrChambers
      BY Listed DEF ChamberLists
    <3>3. cs[c].slot \in 0 .. MaxSlots
      BY <3>2 DEF BedsOrChambers
    <3> QED
      BY <1>6, <3>1, <3>3
  <2>2. chambers' = [c \in DOMAIN cs |-> [cs[c] EXCEPT !.slot = place[c]]]
    BY <1>1
  <2> HIDE DEF place
  <2>3. cs \in ListsOf(ChamberIds, BedsOrChambers)
    BY DEF ChamberLists
  <2> QED
    BY <2>1, <2>2, <2>3, BedsPlaced DEF ChamberLists
<1>10. ASSUME NEW c \in Slots
       PROVE  /\ columns'[c] \in Columns
              /\ columns'[c].shown =>
                    FieldOf(columns'[c].field, c, tools', sp, bs, cs, comb)
  <2>1. columns[c] \in Columns
    OBVIOUS
  <2>2. CASE owner(c) = {}
    <3>1. columns'[c] = Hidden(columns[c])
      BY <1>1, <2>2
    <3>2. Hidden(columns[c]) \in Columns /\ ~Hidden(columns[c]).shown
      BY <2>1 DEF Hidden, Columns
    <3> QED
      BY <3>1, <3>2
  <2>3. CASE owner(c) # {}
    <3> DEFINE x == CHOOSE x \in owner(c) : TRUE
               event == AdjustEvent(x, ts, sp, junk)
    <3>1. x \in things /\ c \in start[x] .. start[x] + width[x] - 1
      BY <2>3
    <3>2. columns'[c] = [field |-> event, shown |-> event.kind # "none",
                         button |-> IF c = start[x] THEN [thing |-> x, shown |-> TRUE]
                                    ELSE columns[c].button]
      BY <1>1, <2>3
    <3> HIDE DEF x, event, things, owner
    <3>3. /\ x \in ThingType /\ x.kind \in {"tool", "bed", "chamber"}
          /\ x.kind = "tool" => x.index \in DOMAIN ts
          /\ x.kind = "bed" => x.index \in DOMAIN bs
          /\ x.kind = "chamber" => x.index \in DOMAIN cs
      BY <3>1, ThingsAre DEF things
    <3>4. x.kind # "tool" => event = x
      BY DEF event, AdjustEvent
    <3>5. ASSUME x.kind = "tool", ts[x.index].spindle # Null
          PROVE  \E i \in Int :
                    /\ event = Thing("rpm", i)
                    /\ ts[x.index].spindle \in Range(sp) =>
                          i \in DOMAIN sp /\ sp[i] = ts[x.index].spindle
      <4>1. CASE ts[x.index].spindle \in Range(sp)
        <5> DEFINE s == CHOOSE s \in DOMAIN sp : sp[s] = ts[x.index].spindle
        <5>1. s \in DOMAIN sp /\ sp[s] = ts[x.index].spindle
          BY <4>1 DEF Range
        <5>2. event = Thing("rpm", s)
          BY <3>5, <4>1 DEF event, AdjustEvent
        <5>3. s \in Int
          BY <5>1, Listed, Constants DEF SpindleLists
        <5> QED
          BY <5>1, <5>2, <5>3
      <4>2. CASE ts[x.index].spindle \notin Range(sp)
        <5>1. event = Thing("rpm", junk)
          BY <3>5, <4>2 DEF event, AdjustEvent
        <5> QED
          BY <5>1, <4>2, <1>2
      <4> QED
        BY <4>1, <4>2
    <3>6. ASSUME x.kind = "tool", ts[x.index].spindle = Null
          PROVE  \/ event = Thing("none", -1)
                 \/ event = x /\ 0 \in DOMAIN ts[x.index].heaters
      BY <3>6 DEF event, AdjustEvent
    <3>7. event \in ThingType
      <4>1. CASE x.kind # "tool"
        BY <4>1, <3>3, <3>4
      <4>2. CASE x.kind = "tool" /\ ts[x.index].spindle # Null
        BY <4>2, <3>5, ThingIs
      <4>3. CASE x.kind = "tool" /\ ts[x.index].spindle = Null
        BY <4>3, <3>3, <3>6, ThingIs
      <4> QED
        BY <4>1, <4>2, <4>3
    <3>8. columns'[c] \in Columns
      BY <3>2, <3>7, <3>3, <2>1 DEF Columns
    <3>9. ASSUME event.kind # "none"
          PROVE  FieldOf(event, c, tools', sp, bs, cs, comb)
      <4>1. CASE x.kind # "tool"
        BY <4>1, <3>3, <3>4 DEF FieldOf
      <4>2. CASE x.kind = "tool" /\ ts[x.index].spindle # Null
        <5>1. PICK i \in Int :
                  /\ event = Thing("rpm", i)
                  /\ ts[x.index].spindle \in Range(sp) =>
                        i \in DOMAIN sp /\ sp[i] = ts[x.index].spindle
          BY <4>2, <3>5
        <5>2. event.kind = "rpm" /\ event.index = i
          BY <5>1, ThingIs
        <5>3. x.index \in DOMAIN tools' /\ tools'[x.index].spindle = ts[x.index].spindle
          BY <4>2, <3>3, <1>7 DEF SameTools
        <5> QED
          BY <5>1, <5>2, <5>3, <4>2 DEF FieldOf
      <4>3. CASE x.kind = "tool" /\ ts[x.index].spindle = Null
        <5>1. event = x /\ 0 \in DOMAIN ts[x.index].heaters
          BY <4>3, <3>6, <3>9, ThingIs
        <5>2. x.index \in DOMAIN ts /\ ts[x.index] \in Tools
          BY <4>3, <3>3, <1>3
        <5>3. width[x] = ToolWidth(ts[x.index], comb)
          BY <4>3, <3>1 DEF width
        <5>4. width[x] \in Nat /\ start[x] \in Nat
          BY <1>4, <1>5, <3>1 DEF width
        <5>5. c \in Nat /\ c < MaxSlots
          BY Constants DEF Slots
        <5>6. start[x] <= c /\ c - start[x] \in Nat /\ c - start[x] < width[x]
          BY <3>1, <5>4, <5>5
        <5>7. (IF comb THEN 0 ELSE c - start[x]) \in DOMAIN ts[x.index].heaters
          BY <5>1, <5>2, <5>3, <5>6, <4>3, WidthIs
        <5>8. x = Thing("tool", x.index)
          BY <3>1, <4>3, ThingsAre DEF things
        <5>9. slot(x, ts[x.index].slot) = start[x]
          BY <5>4, <5>5, <5>6, Constants DEF slot
        <5>10. tools'[x.index] = [ts[x.index] EXCEPT !.slot = slot(x, ts[x.index].slot)]
          BY <1>1, <5>2, <5>8
        <5>11. tools'[x.index].slot = start[x]
          BY <5>2, <5>9, <5>10 DEF Tools
        <5>12. DOMAIN tools' = DOMAIN ts
               /\ tools'[x.index].heaters = ts[x.index].heaters
          BY <1>7, <5>2 DEF SameTools
        <5> QED
          BY <5>1, <5>2, <5>7, <5>11, <5>12, <4>3 DEF FieldOf
      <4> QED
        BY <4>1, <4>2, <4>3
    <3>10. columns'[c].field = event
      BY <3>2
    <3>11. ASSUME columns'[c].shown PROVE event.kind # "none"
      <4> DEFINE shown == event.kind # "none"
                 button == IF c = start[x] THEN [thing |-> x, shown |-> TRUE]
                           ELSE columns[c].button
      <4>1. columns'[c] = [field |-> event, shown |-> shown, button |-> button]
        BY <3>2
      <4> HIDE DEF shown, button
      <4>2. columns'[c].shown = shown
        BY <4>1
      <4>3. shown
        BY <4>2, <3>11, Zenon
      <4> QED
        BY <4>3 DEF shown
    <3> QED
      BY <3>8, <3>9, <3>10, <3>11
  <2> QED
    BY <2>2, <2>3
<1>11. columns' \in [Slots -> Columns]
  BY <1>1, <1>10
<1> QED
  BY <1>7, <1>8, <1>9, <1>10, <1>11

(* Where AllToolsSeen puts the columns of a thing: after those of all that  *)
(* come before it.                                                          *)
WidthOf(x, ts, comb) == IF x.kind = "tool" THEN ToolWidth(ts[x.index], comb) ELSE 1
TakenBefore(x, ts, bs, cs, comb) ==
    UNION {{y} \X (0 .. WidthOf(y, ts, comb) - 1) :
              y \in {y \in Things(ts, bs, cs) : Before(y, x, bs, cs)}}
Start(x, ts, bs, cs, comb) == Cardinality(TakenBefore(x, ts, bs, cs, comb))
Owns(x, c, ts, bs, cs, comb) ==
    /\ x \in Things(ts, bs, cs)
    /\ c \in Start(x, ts, bs, cs, comb)
             .. Start(x, ts, bs, cs, comb) + WidthOf(x, ts, comb) - 1
SlotOf(x, ts, bs, cs) == CASE x.kind = "tool" -> ts[x.index].slot
                           [] x.kind = "bed" -> bs[x.index].slot
                           [] x.kind = "chamber" -> cs[x.index].slot

(* An object that has a column knows the first one it has, and a column is  *)
(* that of an object, or hidden when there is none to own it.               *)
ColumnIs(column, c, x, ts, sp, bs, cs, comb) ==
    /\ \E junk \in Int : column.field = AdjustEvent(x, ts, sp, junk)
    /\ column.shown = (column.field.kind # "none")
    /\ c = Start(x, ts, bs, cs, comb) => column.button = [thing |-> x, shown |-> TRUE]
PlacedAs(ts, sp, bs, cs, comb, cols) ==
    /\ \A x \in Things(ts, bs, cs) :
          Start(x, ts, bs, cs, comb) \in Slots =>
              SlotOf(x, ts, bs, cs) = Start(x, ts, bs, cs, comb)
    /\ \A c \in Slots :
          \/ \E x : /\ Owns(x, c, ts, bs, cs, comb)
                    /\ ColumnIs(cols[c], c, x, ts, sp, bs, cs, comb)
          \/ /\ \A x : ~Owns(x, c, ts, bs, cs, comb)
             /\ ~cols[c].shown /\ ~cols[c].button.shown

(* The columns before those of a thing can be counted.                      *)
LEMMA PlacesAre ==
    ASSUME NEW ts \in ToolLists, NEW bs \in BedLists, NEW cs \in ChamberLists,
           NEW comb \in BOOLEAN, NEW x \in Things(ts, bs, cs)
    PROVE  /\ WidthOf(x, ts, comb) \in Nat
           /\ IsFiniteSet(TakenBefore(x, ts, bs, cs, comb))
           /\ Start(x, ts, bs, cs, comb) \in Nat
<1> DEFINE things == Things(ts, bs, cs)
           N == MaxHeatersPerTool + 1
           U == TakenBefore(x, ts, bs, cs, comb)
<1>1. ASSUME NEW y \in things
      PROVE  WidthOf(y, ts, comb) \in Nat /\ WidthOf(y, ts, comb) <= N
  <2>1. CASE y.kind = "tool"
    <3>1. ts[y.index] \in Tools
      BY <2>1, Listed, ThingsAre DEF ToolLists
    <3> QED
      BY <2>1, <3>1, WidthIs DEF WidthOf
  <2>2. CASE y.kind # "tool"
    BY <2>2, Constants DEF WidthOf
  <2> QED
    BY <2>1, <2>2
<1>2. IsFiniteSet(things) /\ N \in Nat
  BY ThingsFinite, Constants
<1>3. ASSUME NEW y \in things, NEW p \in {y} \X (0 .. WidthOf(y, ts, comb) - 1)
      PROVE  p \in things \X (0 .. N)
  <2>1. \A i \in 0 .. WidthOf(y, ts, comb) - 1 : i \in 0 .. N
    BY <1>1, <1>2
  <2> HIDE DEF things, N
  <2> QED
    BY <2>1
<1>4. U \subseteq things \X (0 .. N)
  BY <1>3 DEF TakenBefore
<1>5. IsFiniteSet(things \X (0 .. N))
  <2> HIDE DEF things, N
  <2>1. IsFiniteSet(0 .. N)
    BY <1>2, FS_Interval
  <2> QED
    BY <1>2, <2>1, FS_Product
<1>6. IsFiniteSet(U) /\ Cardinality(U) \in Nat
  BY <1>4, <1>5, FS_Subset, FS_CardinalityType
<1> QED
  BY <1>1, <1>6 DEF Start

(* The order of the things is total.                                        *)
LEMMA ThingsOrdered ==
    ASSUME NEW ts \in ToolLists, NEW bs \in BedLists, NEW cs \in ChamberLists,
           NEW x \in Things(ts, bs, cs)
    PROVE  /\ ~Before(x, x, bs, cs)
           /\ \A y \in Things(ts, bs, cs) :
                 /\ x # y => Before(x, y, bs, cs) \/ Before(y, x, bs, cs)
                 /\ \A z \in Things(ts, bs, cs) :
                       Before(x, y, bs, cs) /\ Before(y, z, bs, cs) => Before(x, z, bs, cs)
<1>1. ASSUME NEW y \in Things(ts, bs, cs)
      PROVE  /\ Turn(y, bs, cs) \in 1 .. 5 /\ y.index \in Int
             /\ y = Thing(y.kind, y.index)
             /\ y.kind = CASE Turn(y, bs, cs) \in {1, 4} -> "bed"
                           [] Turn(y, bs, cs) = 2 -> "tool"
                           [] Turn(y, bs, cs) \in {3, 5} -> "chamber"
  <2>1. /\ y \in ThingType /\ y.kind \in {"tool", "bed", "chamber"}
        /\ y = Thing(y.kind, y.index)
    BY ThingsAre
  <2>2. y.index \in Int
    BY <2>1 DEF ThingType
  <2>3. CASE y.kind = "tool"
    BY <2>1, <2>2, <2>3 DEF Turn
  <2>4. CASE y.kind = "bed"
    <3>1. Turn(y, bs, cs) \in {1, 4}
      BY <2>4 DEF Turn
    <3> QED
      BY <2>1, <2>2, <2>4, <3>1
  <2>5. CASE y.kind = "chamber"
    <3>1. Turn(y, bs, cs) \in {3, 5}
      BY <2>5 DEF Turn
    <3> QED
      BY <2>1, <2>2, <2>5, <3>1
  <2> QED
    BY <2>1, <2>3, <2>4, <2>5
<1>2. ~Before(x, x, bs, cs)
  BY <1>1 DEF Before
<1>3. ASSUME NEW y \in Things(ts, bs, cs), x # y
      PROVE  Before(x, y, bs, cs) \/ Before(y, x, bs, cs)
  <2>1. CASE Turn(x, bs, cs) = Turn(y, bs, cs)
    <3>1. x.kind = y.kind
      BY <1>1, <2>1
    <3>2. x.index # y.index
      BY <1>1, <1>3, <3>1
    <3> QED
      BY <1>1, <2>1, <3>2 DEF Before
  <2>2. CASE Turn(x, bs, cs) # Turn(y, bs, cs)
    BY <1>1, <2>2 DEF Before
  <2> QED
    BY <2>1, <2>2
<1>4. ASSUME NEW y \in Things(ts, bs, cs), NEW z \in Things(ts, bs, cs),
             Before(x, y, bs, cs), Before(y, z, bs, cs)
      PROVE  Before(x, z, bs, cs)
  BY <1>1, <1>4 DEF Before
<1> QED
  BY <1>2, <1>3, <1>4

(* The places depend on which things there are, and how wide the tools are. *)
LEMMA PlacesDepend ==
    ASSUME NEW ts, NEW bs, NEW cs, NEW new, NEW newBeds, NEW newChambers, NEW comb,
           DOMAIN new = DOMAIN ts, DOMAIN newBeds = DOMAIN bs,
           DOMAIN newChambers = DOMAIN cs,
           \A t \in DOMAIN ts : ToolWidth(new[t], comb) = ToolWidth(ts[t], comb)
    PROVE  /\ Things(new, newBeds, newChambers) = Things(ts, bs, cs)
           /\ \A x \in Things(ts, bs, cs) :
                 /\ WidthOf(x, new, comb) = WidthOf(x, ts, comb)
                 /\ Start(x, new, newBeds, newChambers, comb) = Start(x, ts, bs, cs, comb)
           /\ \A x, c : Owns(x, c, new, newBeds, newChambers, comb)
                            <=> Owns(x, c, ts, bs, cs, comb)
<1> DEFINE things == Things(ts, bs, cs)
<1>1. Things(new, newBeds, newChambers) = things
  BY DEF Things
<1>2. ASSUME NEW x \in things PROVE WidthOf(x, new, comb) = WidthOf(x, ts, comb)
  <2>1. x.kind = "tool" => x.index \in DOMAIN ts
    BY DEF Things, Thing
  <2> QED
    BY <2>1 DEF WidthOf
<1>3. ASSUME NEW x, NEW y
      PROVE  Before(y, x, newBeds, newChambers) <=> Before(y, x, bs, cs)
  <2>1. \A i : First(newBeds, i) <=> First(bs, i)
    BY DEF First
  <2>2. \A i : First(newChambers, i) <=> First(cs, i)
    BY DEF First
  <2>3. /\ Turn(x, newBeds, newChambers) = Turn(x, bs, cs)
        /\ Turn(y, newBeds, newChambers) = Turn(y, bs, cs)
    BY <2>1, <2>2, Zenon DEF Turn
  <2> QED
    BY <2>3 DEF Before
<1> HIDE DEF things
<1>4. ASSUME NEW x
      PROVE  TakenBefore(x, new, newBeds, newChambers, comb) = TakenBefore(x, ts, bs, cs, comb)
  <2>1. {y \in Things(new, newBeds, newChambers) : Before(y, x, newBeds, newChambers)}
           = {y \in things : Before(y, x, bs, cs)}
    BY <1>1, <1>3
  <2> DEFINE B == {y \in things : Before(y, x, bs, cs)}
  <2>2. \A y \in B : WidthOf(y, new, comb) = WidthOf(y, ts, comb)
    BY <1>2
  <2> HIDE DEF B
  <2>3. {{y} \X (0 .. WidthOf(y, new, comb) - 1) : y \in B}
           = {{y} \X (0 .. WidthOf(y, ts, comb) - 1) : y \in B}
    BY <2>2
  <2> QED
    BY <2>1, <2>3 DEF TakenBefore, B, things
<1>5. ASSUME NEW x
      PROVE  Start(x, new, newBeds, newChambers, comb) = Start(x, ts, bs, cs, comb)
  BY <1>4 DEF Start
<1> QED
  BY <1>1, <1>2, <1>5 DEF Owns, things

(* What a column adjusts depends on the tool it is of and the spindles.     *)
LEMMA EventDepends ==
    ASSUME NEW x, NEW ts, NEW new, NEW sp, NEW junk,
           x.kind = "tool" => /\ new[x.index].heaters = ts[x.index].heaters
                              /\ new[x.index].spindle = ts[x.index].spindle
    PROVE  AdjustEvent(x, new, sp, junk) = AdjustEvent(x, ts, sp, junk)
<1> DEFINE Event(p, heaters) ==
        IF p # Null THEN
            Thing("rpm", IF p \in Range(sp) THEN CHOOSE s \in DOMAIN sp : sp[s] = p
                         ELSE junk)
        ELSE IF 0 \in DOMAIN heaters THEN x
        ELSE Thing("none", -1)
<1>1. CASE x.kind # "tool"
  BY <1>1 DEF AdjustEvent
<1>2. CASE x.kind = "tool"
  <2>1. ASSUME NEW list
        PROVE  AdjustEvent(x, list, sp, junk)
                  = Event(list[x.index].spindle, list[x.index].heaters)
    BY <1>2, Zenon DEF AdjustEvent
  <2> HIDE DEF Event
  <2> QED
    BY <1>2, <2>1
<1> QED
  BY <1>1, <1>2

LEMMA SeenPlaced ==
    ASSUME NEW ts \in ToolLists, NEW sp \in SpindleLists, NEW bs \in BedLists,
           NEW cs \in ChamberLists, NEW comb \in BOOLEAN,
           columns \in [Slots -> Columns],
           AllToolsSeen(ts, sp, bs, cs, comb)
    PROVE  PlacedAs(tools', sp, beds', chambers', comb, columns')
<1> DEFINE things == Things(ts, bs, cs)
           width == [x \in things |->
                       IF x.kind = "tool" THEN ToolWidth(ts[x.index], comb) ELSE 1]
           taken(y) == {y} \X (0 .. width[y] - 1)
           start == [x \in things |-> Cardinality(
                       UNION {taken(y) : y \in {y \in things : Before(y, x, bs, cs)}})]
           slot(x, old) == IF start[x] < MaxSlots THEN start[x]
                           ELSE NoRoom(x, old, bs, cs)
           owner(c) == {x \in things : c \in start[x] .. start[x] + width[x] - 1}
           At(x) == Start(x, ts, bs, cs, comb)
<1>1. PICK junk \in IF \E t \in DOMAIN ts : ts[t].spindle \notin {Null} \cup Range(sp)
                    THEN SpindleIds \cup {-1} ELSE {-1} :
          /\ tools' = [t \in DOMAIN ts |->
                [ts[t] EXCEPT !.slot = slot(Thing("tool", t), ts[t].slot)]]
          /\ beds' = [b \in DOMAIN bs |->
                [bs[b] EXCEPT !.slot = slot(Thing("bed", b), bs[b].slot)]]
          /\ chambers' = [c \in DOMAIN cs |->
                [cs[c] EXCEPT !.slot = slot(Thing("chamber", c), cs[c].slot)]]
          /\ columns' = [c \in Slots |->
                IF owner(c) = {} THEN Hidden(columns[c])
                ELSE LET x == CHOOSE x \in owner(c) : TRUE
                         event == AdjustEvent(x, ts, sp, junk)
                     IN  [field |-> event, shown |-> event.kind # "none",
                          button |-> IF c = start[x]
                                     THEN [thing |-> x, shown |-> TRUE]
                                     ELSE columns[c].button]]
  BY DEF AllToolsSeen
<1>2. junk \in Int
  BY Constants
<1>3. ASSUME NEW x \in things PROVE width[x] = WidthOf(x, ts, comb)
  BY DEF WidthOf
<1>4. ASSUME NEW x \in things PROVE start[x] = At(x)
  <2> DEFINE B == {y \in things : Before(y, x, bs, cs)}
  <2>1. \A y \in B : width[y] = WidthOf(y, ts, comb)
    BY <1>3
  <2>2. start[x] = Cardinality(UNION {taken(y) : y \in B})
    OBVIOUS
  <2>3. At(x) = Cardinality(UNION {{y} \X (0 .. WidthOf(y, ts, comb) - 1) : y \in B})
    BY DEF Start, TakenBefore
  <2> HIDE DEF B, width, start, At
  <2>4. {taken(y) : y \in B} = {{y} \X (0 .. WidthOf(y, ts, comb) - 1) : y \in B}
    BY <2>1
  <2> QED
    BY <2>2, <2>3, <2>4
<1>5. ASSUME NEW x, NEW c
      PROVE  x \in owner(c) <=> Owns(x, c, ts, bs, cs, comb)
  <2> HIDE DEF start, width
  <2> QED
    BY <1>3, <1>4 DEF Owns
<1> HIDE DEF start, width
<1>6. SameTools(ts) /\ SameHeaters(beds', bs) /\ SameHeaters(chambers', cs)
  BY Seen
<1>7. /\ Things(tools', beds', chambers') = things
      /\ \A x \in things : Start(x, tools', beds', chambers', comb) = At(x)
      /\ \A x, c : Owns(x, c, tools', beds', chambers', comb)
                       <=> Owns(x, c, ts, bs, cs, comb)
  <2>1. \A t \in DOMAIN ts : ToolWidth(tools'[t], comb) = ToolWidth(ts[t], comb)
    BY <1>6 DEF SameTools, ToolWidth, NumHeaters
  <2>2. DOMAIN tools' = DOMAIN ts /\ DOMAIN beds' = DOMAIN bs /\ DOMAIN chambers' = DOMAIN cs
    BY <1>6 DEF SameTools, SameHeaters
  <2> HIDE DEF things
  <2> QED
    BY <2>1, <2>2, PlacesDepend DEF things
<1>8. ASSUME NEW x \in things, At(x) \in Slots
      PROVE  SlotOf(x, tools', beds', chambers') = At(x)
  <2>1. /\ x.kind \in {"tool", "bed", "chamber"} /\ x = Thing(x.kind, x.index)
        /\ x.kind = "tool" => x.index \in DOMAIN ts
        /\ x.kind = "bed" => x.index \in DOMAIN bs
        /\ x.kind = "chamber" => x.index \in DOMAIN cs
    BY ThingsAre
  <2>2. \A old : slot(x, old) = At(x)
    BY <1>4, <1>8, Constants DEF Slots
  <2> HIDE DEF things, slot, At
  <2>3. CASE x.kind = "tool"
    <3>1. ts[x.index] \in Tools
      BY <2>1, <2>3, Listed DEF ToolLists
    <3>2. tools'[x.index] = [ts[x.index] EXCEPT !.slot = At(x)]
      BY <1>1, <2>1, <2>2, <2>3
    <3>3. tools'[x.index].slot = At(x)
      BY <3>1, <3>2 DEF Tools
    <3> QED
      BY <2>3, <3>3 DEF SlotOf
  <2>4. CASE x.kind = "bed"
    <3>1. bs[x.index] \in BedsOrChambers
      BY <2>1, <2>4, Listed DEF BedLists
    <3>2. beds'[x.index] = [bs[x.index] EXCEPT !.slot = At(x)]
      BY <1>1, <2>1, <2>2, <2>4
    <3>3. beds'[x.index].slot = At(x)
      BY <3>1, <3>2 DEF BedsOrChambers
    <3> QED
      BY <2>4, <3>3 DEF SlotOf
  <2>5. CASE x.kind = "chamber"
    <3>1. cs[x.index] \in BedsOrChambers
      BY <2>1, <2>5, Listed DEF ChamberLists
    <3>2. chambers'[x.index] = [cs[x.index] EXCEPT !.slot = At(x)]
      BY <1>1, <2>1, <2>2, <2>5
    <3>3. chambers'[x.index].slot = At(x)
      BY <3>1, <3>2 DEF BedsOrChambers
    <3> QED
      BY <2>5, <3>3 DEF SlotOf
  <2> QED
    BY <2>1, <2>3, <2>4, <2>5
<1>9. ASSUME NEW c \in Slots, owner(c) = {}
      PROVE  ~columns'[c].shown /\ ~columns'[c].button.shown
  <2>1. columns[c] \in Columns
    OBVIOUS
  <2>2. columns'[c] = Hidden(columns[c])
    BY <1>1, <1>9
  <2>3. ~Hidden(columns[c]).shown /\ ~Hidden(columns[c]).button.shown
    BY <2>1 DEF Hidden, Columns
  <2> QED
    BY <2>2, <2>3
<1>10. ASSUME NEW c \in Slots, owner(c) # {}
       PROVE  \E x \in owner(c) :
                 ColumnIs(columns'[c], c, x, tools', sp, beds', chambers', comb)
  <2> DEFINE x == CHOOSE x \in owner(c) : TRUE
             event == AdjustEvent(x, ts, sp, junk)
             shown == event.kind # "none"
             button == IF c = start[x] THEN [thing |-> x, shown |-> TRUE]
                       ELSE columns[c].button
  <2>1. x \in owner(c) /\ x \in things
    BY <1>10
  <2>2. columns'[c] = [field |-> event, shown |-> shown, button |-> button]
    BY <1>1, <1>10
  <2>3. event = AdjustEvent(x, tools', sp, junk)
    <3>1. x.kind = "tool" => x.index \in DOMAIN ts
      BY <2>1, ThingsAre
    <3> HIDE DEF x
    <3>2. x.kind = "tool" => /\ tools'[x.index].heaters = ts[x.index].heaters
                             /\ tools'[x.index].spindle = ts[x.index].spindle
      BY <1>6, <3>1 DEF SameTools
    <3> QED
      BY <3>2, EventDepends
  <2>4. ASSUME c = Start(x, tools', beds', chambers', comb)
        PROVE  button = [thing |-> x, shown |-> TRUE]
    <3> HIDE DEF x, things, At
    <3>1. start[x] = At(x) /\ Start(x, tools', beds', chambers', comb) = At(x)
      BY <1>4, <1>7, <2>1
    <3> QED
      BY <2>4, <3>1
  <2>5. shown = (event.kind # "none")
    OBVIOUS
  <2> HIDE DEF x, event, shown, button, owner, things
  <2>6. /\ columns'[c].field = event /\ columns'[c].shown = shown
        /\ columns'[c].button = button
    BY <2>2
  <2>7. columns'[c].shown = (columns'[c].field.kind # "none")
    BY <2>5, <2>6, Zenon
  <2>8. ColumnIs(columns'[c], c, x, tools', sp, beds', chambers', comb)
    BY <1>2, <2>3, <2>4, <2>6, <2>7, Zenon DEF ColumnIs
  <2> QED
    BY <2>1, <2>8
<1> QED
  <2>1. ASSUME NEW c \in Slots
        PROVE  \/ \E x : /\ Owns(x, c, tools', beds', chambers', comb)
                         /\ ColumnIs(columns'[c], c, x, tools', sp, beds', chambers', comb)
               \/ /\ \A x : ~Owns(x, c, tools', beds', chambers', comb)
                  /\ ~columns'[c].shown /\ ~columns'[c].button.shown
    <3>1. CASE owner(c) = {}
      BY <1>5, <1>7, <1>9, <3>1
    <3>2. CASE owner(c) # {}
      <4>1. PICK x \in owner(c) :
                ColumnIs(columns'[c], c, x, tools', sp, beds', chambers', comb)
        BY <1>10, <3>2
      <4> HIDE DEF owner
      <4> QED
        BY <1>5, <1>7, <4>1
    <3> QED
      BY <3>1, <3>2
  <2> HIDE DEF things, owner
  <2> QED
    BY <1>7, <1>8, <2>1 DEF PlacedAs

-----------------------------------------------------------------------------
(* Answers *)

SpindleOps == {"spActive", "spCurrent"}
OtherToolOps == {"extruders", "heaters", "heatersEnd", "number", "offsets", "spindle"}

LEMMA FieldIs ==
    ASSUME NEW op, NEW i
    PROVE  Field(op, i).op = op /\ Field(op, i).i = i
BY DEF Field

(* The lists whose end is noticed are those that are not empty, and perhaps *)
(* others; the chambers' is if the beds' is.                                *)
LEMMA EndedAre ==
    ASSUME NEW m \in Machines
    PROVE  /\ "tools" \in Ended(m) <=> DOMAIN m.tools # {}
           /\ "spindles" \in Ended(m) <=> m.spindles # {}
           /\ DOMAIN m.beds # {} => "beds" \in Ended(m)
           /\ DOMAIN m.chambers # {} => "chambers" \in Ended(m)
           /\ "beds" \in Ended(m) => "chambers" \in Ended(m)
<1> DEFINE numbers == [tools |-> DOMAIN m.tools, spindles |-> m.spindles,
                       beds |-> DOMAIN m.beds, chambers |-> DOMAIN m.chambers]
<1>1. /\ "tools" \in Nonempty(numbers) <=> DOMAIN m.tools # {}
      /\ "spindles" \in Nonempty(numbers) <=> m.spindles # {}
      /\ "beds" \in Nonempty(numbers) <=> DOMAIN m.beds # {}
      /\ "chambers" \in Nonempty(numbers) <=> DOMAIN m.chambers # {}
  BY DEF Nonempty
<1>2. HasValues(m) = Nonempty(numbers) \cup Padded
  BY DEF HasValues
<1>3. "tools" \notin Padded /\ "spindles" \notin Padded
  BY ObjectModelAssumption DEF ObjectModelAssumption
<1>4. \A l : l \in Ended(m) <=>
              l \in HasValues(m) \/ (l = "chambers" /\ "beds" \in HasValues(m))
  BY DEF Ended
<1> HIDE DEF numbers
<1> QED
  BY <1>1, <1>2, <1>3, <1>4

LEMMA EndsAre ==
    ASSUME NEW m
    PROVE  /\ EndFields(m, {"tools"}) = {g \in {Field("toolsEnd", 0)} : "tools" \in Ended(m)}
           /\ EndFields(m, {"spindles"}) =
                 {g \in {Field("spindlesEnd", 0)} : "spindles" \in Ended(m)}
           /\ EndFields(m, {"beds", "chambers"}) =
                 {g \in {Field("bedsEnd", 0)} : "beds" \in Ended(m)}
                 \cup {g \in {Field("chambersEnd", 0)} : "chambers" \in Ended(m)}
<1>1. /\ EndOf["tools"] = "toolsEnd" /\ EndOf["spindles"] = "spindlesEnd"
      /\ EndOf["beds"] = "bedsEnd" /\ EndOf["chambers"] = "chambersEnd"
  BY DEF EndOf
<1>2. EndFields(m, {"tools"}) = {g \in {Field("toolsEnd", 0)} : "tools" \in Ended(m)}
  BY <1>1 DEF EndFields
<1>3. EndFields(m, {"spindles"}) = {g \in {Field("spindlesEnd", 0)} : "spindles" \in Ended(m)}
  BY <1>1 DEF EndFields
<1>4. EndFields(m, {"beds", "chambers"}) =
          {g \in {Field("bedsEnd", 0)} : "beds" \in Ended(m)}
          \cup {g \in {Field("chambersEnd", 0)} : "chambers" \in Ended(m)}
  BY <1>1 DEF EndFields
<1> QED
  BY <1>2, <1>3, <1>4

LEMMA AnswerIs ==
    ASSUME NEW m \in Machines, NEW list \in ListNames \cup {"status"},
           NEW f \in Answer(m, list)
    PROVE  /\ f = Field(f.op, f.i)
           /\ \/ f.op = "seqs" /\ list = "status"
              \/ /\ f.op \in SpindleOps /\ list \in {"status", "spindles"}
                 /\ f.i \in m.spindles
              \/ /\ f.op = "spindlesEnd" /\ list = "spindles" /\ f.i = 0
                 /\ "spindles" \in Ended(m)
              \/ /\ f.op = "active" /\ list \in {"status", "tools"}
                 /\ f.i \in DOMAIN m.tools
              \/ /\ f.op \in OtherToolOps /\ list = "tools"
                 /\ f.i \in DOMAIN m.tools
              \/ /\ f.op = "toolsEnd" /\ list = "tools" /\ f.i = 0
                 /\ "tools" \in Ended(m)
              \/ f.op = "bed" /\ list = "heat" /\ f.i \in DOMAIN m.beds
              \/ /\ f.op = "bedsEnd" /\ list = "heat" /\ f.i = 0
                 /\ "beds" \in Ended(m)
              \/ f.op = "chamber" /\ list = "heat" /\ f.i \in DOMAIN m.chambers
              \/ /\ f.op = "chambersEnd" /\ list = "heat" /\ f.i = 0
                 /\ "chambers" \in Ended(m)
<1>1. CASE list = "heat"
  <2>1. Answer(m, list) = {Field("bed", b) : b \in DOMAIN m.beds}
            \cup {Field("chamber", c) : c \in DOMAIN m.chambers}
            \cup {g \in {Field("bedsEnd", 0)} : "beds" \in Ended(m)}
            \cup {g \in {Field("chambersEnd", 0)} : "chambers" \in Ended(m)}
    BY <1>1, EndsAre DEF Answer
  <2> QED
    BY <2>1, <1>1, FieldIs
<1>2. CASE list = "tools"
  <2>1. Answer(m, list) = {g \in {Field("toolsEnd", 0)} : "tools" \in Ended(m)}
            \cup UNION {ToolFields(m, t) : t \in DOMAIN m.tools}
    BY <1>2, EndsAre DEF Answer
  <2>2. CASE f = Field("toolsEnd", 0) /\ "tools" \in Ended(m)
    BY <2>2, <1>2, FieldIs
  <2>3. CASE \E t \in DOMAIN m.tools : \E op \in ToolOps(m.tools[t]) : f = Field(op, t)
    BY <2>3, <1>2, FieldIs DEF ToolOps, OtherToolOps
  <2>4. \/ \E t \in DOMAIN m.tools : f \in ToolFields(m, t)
        \/ f = Field("toolsEnd", 0) /\ "tools" \in Ended(m)
    BY <2>1
  <2>5. ASSUME NEW t \in DOMAIN m.tools, f \in ToolFields(m, t)
        PROVE  \E op \in ToolOps(m.tools[t]) : f = Field(op, t)
    BY <2>5 DEF ToolFields
  <2>6. \/ f = Field("toolsEnd", 0) /\ "tools" \in Ended(m)
        \/ \E t \in DOMAIN m.tools : \E op \in ToolOps(m.tools[t]) : f = Field(op, t)
    BY <2>4, <2>5
  <2> QED
    BY <2>2, <2>3, <2>6
<1>3. CASE list = "spindles"
  <2>1. Answer(m, list) = SpindleFields(m)
            \cup {g \in {Field("spindlesEnd", 0)} : "spindles" \in Ended(m)}
    BY <1>3, EndsAre DEF Answer
  <2> QED
    BY <2>1, <1>3, FieldIs DEF SpindleFields, SpindleOps
<1>4. CASE list = "status"
  <2>1. Answer(m, list) = {Field("seqs", 0)} \cup SpindleFields(m)
            \cup {Field("active", t) :
                      t \in {t \in DOMAIN m.tools : m.tools[t].heaters # <<>>}}
    BY <1>4 DEF Answer
  <2> QED
    BY <2>1, <1>4, FieldIs DEF SpindleFields, SpindleOps
<1> QED
  BY <1>1, <1>2, <1>3, <1>4, Constants

LEMMA AnswerHas ==
    ASSUME NEW m \in Machines
    PROVE  /\ \A b \in DOMAIN m.beds : Field("bed", b) \in Answer(m, "heat")
           /\ \A c \in DOMAIN m.chambers : Field("chamber", c) \in Answer(m, "heat")
           /\ Field("bedsEnd", 0) \in Answer(m, "heat") <=> "beds" \in Ended(m)
           /\ Field("chambersEnd", 0) \in Answer(m, "heat") <=> "chambers" \in Ended(m)
           /\ \A t \in DOMAIN m.tools :
                 /\ m.tools[t].heaters # <<>> => Field("heaters", t) \in Answer(m, "tools")
                 /\ \A op \in {"heatersEnd", "number", "spindle"} :
                       Field(op, t) \in Answer(m, "tools")
           /\ Field("toolsEnd", 0) \in Answer(m, "tools") <=> "tools" \in Ended(m)
           /\ \A s \in m.spindles : /\ Field("spActive", s) \in Answer(m, "spindles")
                                    /\ Field("spActive", s) \in Answer(m, "status")
           /\ Field("spindlesEnd", 0) \in Answer(m, "spindles") <=> "spindles" \in Ended(m)
<1>1. Answer(m, "heat") = {Field("bed", b) : b \in DOMAIN m.beds}
            \cup {Field("chamber", c) : c \in DOMAIN m.chambers}
            \cup {g \in {Field("bedsEnd", 0)} : "beds" \in Ended(m)}
            \cup {g \in {Field("chambersEnd", 0)} : "chambers" \in Ended(m)}
  BY EndsAre DEF Answer
<1>2. Answer(m, "tools") = {g \in {Field("toolsEnd", 0)} : "tools" \in Ended(m)}
            \cup UNION {ToolFields(m, t) : t \in DOMAIN m.tools}
  BY EndsAre DEF Answer
<1>3. /\ Answer(m, "spindles") = SpindleFields(m)
             \cup {g \in {Field("spindlesEnd", 0)} : "spindles" \in Ended(m)}
      /\ SpindleFields(m) \subseteq Answer(m, "status")
  BY EndsAre DEF Answer
<1>4. \A s \in m.spindles : Field("spActive", s) \in SpindleFields(m)
  BY DEF SpindleFields
<1>5. ASSUME NEW t \in DOMAIN m.tools, NEW op \in ToolOps(m.tools[t])
      PROVE  Field(op, t) \in Answer(m, "tools")
  <2>1. Field(op, t) \in ToolFields(m, t)
    BY DEF ToolFields
  <2>2. Field(op, t) \in UNION {ToolFields(m, u) : u \in DOMAIN m.tools}
    BY <2>1
  <2> QED
    BY <2>2, <1>2
<1>6. ASSUME NEW t \in DOMAIN m.tools
      PROVE  /\ {"heatersEnd", "number", "spindle"} \subseteq ToolOps(m.tools[t])
             /\ m.tools[t].heaters # <<>> => "heaters" \in ToolOps(m.tools[t])
  BY DEF ToolOps
<1>0. Field("toolsEnd", 0) \in Answer(m, "tools") <=> "tools" \in Ended(m)
  <2>1. ASSUME NEW t \in DOMAIN m.tools PROVE Field("toolsEnd", 0) \notin ToolFields(m, t)
    BY FieldIs DEF ToolFields, ToolOps
  <2> QED
    BY <2>1, <1>2
<1>7. /\ \A b \in DOMAIN m.beds : Field("bed", b) \in Answer(m, "heat")
      /\ \A c \in DOMAIN m.chambers : Field("chamber", c) \in Answer(m, "heat")
      /\ Field("bedsEnd", 0) \in Answer(m, "heat") <=> "beds" \in Ended(m)
      /\ Field("chambersEnd", 0) \in Answer(m, "heat") <=> "chambers" \in Ended(m)
  BY <1>1, FieldIs
<1>8. \A s \in m.spindles : /\ Field("spActive", s) \in Answer(m, "spindles")
                             /\ Field("spActive", s) \in Answer(m, "status")
  BY <1>3, <1>4
<1>9. Field("spindlesEnd", 0) \in Answer(m, "spindles") <=> "spindles" \in Ended(m)
  BY <1>3, FieldIs DEF SpindleFields
<1>10. ASSUME NEW t \in DOMAIN m.tools
       PROVE  /\ m.tools[t].heaters # <<>> => Field("heaters", t) \in Answer(m, "tools")
              /\ \A op \in {"heatersEnd", "number", "spindle"} :
                    Field(op, t) \in Answer(m, "tools")
  BY <1>5, <1>6
<1> QED
  BY <1>0, <1>7, <1>8, <1>9, <1>10

(* The order of an answer's fields, as far as it matters.                   *)
LEMMA Order ==
    /\ \A op \in {"bed", "chamber", "number", "spActive"}, i, j \in Nat :
          Precedes(Field(op, i), Field(op, j)) => i < j
    /\ \A i \in Nat :
          /\ ~Precedes(Field("bedsEnd", 0), Field("bed", i))
          /\ ~Precedes(Field("chamber", i), Field("bedsEnd", 0))
          /\ ~Precedes(Field("chambersEnd", 0), Field("chamber", i))
          /\ ~Precedes(Field("chambersEnd", 0), Field("bed", i))
          /\ ~Precedes(Field("toolsEnd", 0), Field("number", i))
          /\ ~Precedes(Field("toolsEnd", 0), Field("heatersEnd", i))
          /\ ~Precedes(Field("toolsEnd", 0), Field("spindle", i))
          /\ ~Precedes(Field("spindlesEnd", 0), Field("spActive", i))
          /\ ~Precedes(Field("heatersEnd", i), Field("heaters", i))
    /\ ~Precedes(Field("chambersEnd", 0), Field("bedsEnd", 0))
<1>1. ASSUME NEW op \in {"bed", "chamber", "number", "spActive"}, NEW i \in Nat,
             NEW j \in Nat, Precedes(Field(op, i), Field(op, j))
      PROVE  i < j
  BY <1>1, FieldIs DEF Precedes, Array, Rank
<1>2. ASSUME NEW i \in Nat
      PROVE  /\ ~Precedes(Field("bedsEnd", 0), Field("bed", i))
             /\ ~Precedes(Field("chamber", i), Field("bedsEnd", 0))
             /\ ~Precedes(Field("chambersEnd", 0), Field("chamber", i))
             /\ ~Precedes(Field("chambersEnd", 0), Field("bed", i))
  BY FieldIs DEF Precedes, Array, Rank
<1>3. ASSUME NEW i \in Nat
      PROVE  /\ ~Precedes(Field("toolsEnd", 0), Field("number", i))
             /\ ~Precedes(Field("toolsEnd", 0), Field("heatersEnd", i))
             /\ ~Precedes(Field("toolsEnd", 0), Field("spindle", i))
  BY FieldIs DEF Precedes, Array, Rank
<1>4. ASSUME NEW i \in Nat
      PROVE  /\ ~Precedes(Field("spindlesEnd", 0), Field("spActive", i))
             /\ ~Precedes(Field("heatersEnd", i), Field("heaters", i))
  BY FieldIs DEF Precedes, Array, Rank
<1>5. ~Precedes(Field("chambersEnd", 0), Field("bedsEnd", 0))
  BY FieldIs DEF Precedes, Array, Rank
<1> QED
  BY <1>1, <1>2, <1>3, <1>4, <1>5

-----------------------------------------------------------------------------
(* The types *)

(* An answer is received in order, of a list that is due.                   *)
MessageInv ==
    msg = NoMessage \/
        /\ msg.list \in ListNames \cup {"status"}
        /\ msg = [list |-> msg.list, rest |-> msg.rest, last |-> msg.last]
        /\ msg.rest \subseteq Answer(host, msg.list)
        /\ \A f \in Answer(host, msg.list) \ msg.rest, g \in msg.rest : Precedes(f, g)
        /\ msg.list \in ListNames => seqState[msg.list] = "due"

AdjustInv ==
    adjusting # NotAdjusting =>
        /\ adjusting = [slot |-> adjusting.slot, touched |-> adjusting.touched]
        /\ adjusting.slot \in Slots

TypeInv ==
    /\ host \in Machines
    /\ changes \in 0 .. MaxChanges /\ faults \in 0 .. MaxFaults
    /\ changed \subseteq ListNames
    /\ seqState \in [ListNames -> {"ok", "due", "error"}]
    /\ currentReqSeq \in 1 .. 3
    /\ initialized \in BOOLEAN
    /\ lastSpindle \in {-1} \cup SpindleIds
    /\ tools \in ToolLists /\ spindles \in SpindleLists
    /\ beds \in BedLists /\ chambers \in ChamberLists
    /\ columns \in [Slots -> Columns]
    /\ combined \in BOOLEAN /\ meddled \in BOOLEAN
    /\ unfound \subseteq ToolIds /\ crowded \subseteq ListNames
    /\ MessageInv /\ AdjustInv

(* A list of the panel that holds something is one that ever did.           *)
UsedInv == InUse \subseteq used /\ used \subseteq DOMAIN EndOf

LEMMA TypesHold == TypeInv /\ UsedInv => TypeOK
<1> SUFFICES ASSUME TypeInv, UsedInv PROVE TypeOK
  OBVIOUS
<1>1. /\ DOMAIN tools \subseteq ToolIds /\ Cardinality(DOMAIN tools) <= MaxSlots
      /\ DOMAIN spindles \subseteq SpindleIds /\ Cardinality(DOMAIN spindles) <= MaxSlots
      /\ DOMAIN beds \subseteq BedIds /\ Cardinality(DOMAIN beds) <= MaxSlots
      /\ DOMAIN chambers \subseteq ChamberIds
      /\ Cardinality(DOMAIN chambers) <= MaxSlots
      /\ tools \in [DOMAIN tools -> Tools]
      /\ spindles \in [DOMAIN spindles -> Cells] /\ IsInjective(spindles)
      /\ beds \in [DOMAIN beds -> BedsOrChambers]
      /\ chambers \in [DOMAIN chambers -> BedsOrChambers]
  BY Listed DEF TypeInv, ToolLists, SpindleLists, BedLists, ChamberLists
<1>2. ASSUME NEW t \in DOMAIN tools
      PROVE  /\ DOMAIN tools[t].heaters \subseteq 0 .. MaxHeatersPerTool - 1
             /\ Range(tools[t].heaters) \subseteq Heaters
             /\ tools[t].spindle \in Cells \cup {Null}
             /\ tools[t].slot \in 0 .. MaxSlots
  BY <1>1, ToolIs DEF Range, Places
<1>3. Range(spindles) \subseteq Cells
  BY <1>1 DEF Range
<1>4. \A list \in {beds, chambers} : \A i \in DOMAIN list :
          list[i].heater \in Heaters /\ list[i].slot \in 0 .. MaxSlots
  BY <1>1 DEF BedsOrChambers
<1>5. \A numbers \in {DOMAIN l : l \in {beds, chambers}}
                     \cup {DOMAIN tools, DOMAIN spindles} :
          Cardinality(numbers) <= MaxSlots
  BY <1>1
<1>6. used \subseteq DOMAIN EndOf
  BY DEF UsedInv
<1> QED
  BY <1>1, <1>2, <1>3, <1>4, <1>5, <1>6 DEF TypeInv, TypeOK, Columns

(* What the actions do to the lists.                                        *)
OldTool(t) == IF t \in DOMAIN tools THEN tools[t] ELSE NewTool
ToolsBecome(t, x) ==
    /\ tools' \in ToolLists
    /\ DOMAIN tools \subseteq DOMAIN tools' /\ DOMAIN tools' \subseteq DOMAIN tools \cup {t}
    /\ HasRoom(tools) => t \in DOMAIN tools'
    /\ \A u \in DOMAIN tools \ {t} : /\ tools'[u].heaters = tools[u].heaters
                                     /\ tools'[u].spindle = tools[u].spindle
    /\ t \in DOMAIN tools' => /\ tools'[t].heaters = x.heaters
                              /\ tools'[t].spindle = x.spindle
SlotsKept == \A t \in DOMAIN tools : tools'[t].slot = tools[t].slot
SameBeds == beds' \in BedLists /\ SameHeaters(beds', beds)
SameChambers == chambers' \in ChamberLists /\ SameHeaters(chambers', chambers)
LaidOut ==
    /\ \A c \in Slots : columns'[c].shown =>
          FieldOf(columns'[c].field, c, tools', spindles', beds', chambers', combined')
    /\ PlacedAs(tools', spindles', beds', chambers', combined', columns')
LayoutIf(condition) ==
    /\ columns' \in [Slots -> Columns]
    /\ IF condition THEN LaidOut ELSE columns' = columns

LEMMA NewToolIs ==
    NewTool \in Tools /\ NewTool.spindle = Null /\ DOMAIN NewTool.heaters = {}
<1> DEFINE none == <<>>
<1>1. none \in [{} -> Heaters] /\ DOMAIN none = {}
  OBVIOUS
<1>2. none \in ToolHeaters
  BY <1>1 DEF ToolHeaters
<1>3. NewTool = [heaters |-> none, spindle |-> Null, slot |-> MaxSlots]
  BY DEF NewTool
<1>4. MaxSlots \in 0 .. MaxSlots
  BY Constants
<1> HIDE DEF none
<1> QED
  BY <1>1, <1>2, <1>3, <1>4 DEF Tools

LEMMA OldToolIs ==
    ASSUME TypeInv, NEW t
    PROVE  OldTool(t) \in Tools
BY NewToolIs, Listed DEF TypeInv, ToolLists, OldTool

(* A tool changes, which may be a new one.                                  *)
LEMMA ToolChanged ==
    ASSUME TypeInv, NEW t \in ToolIds, NEW x \in Tools, NEW new,
           LET all == GetOrCreate(tools, t, NewTool)
           IN  new = IF t \in DOMAIN all THEN [all EXCEPT ![t] = x] ELSE all
    PROVE  /\ new \in ToolLists
           /\ DOMAIN tools \subseteq DOMAIN new /\ DOMAIN new \subseteq DOMAIN tools \cup {t}
           /\ HasRoom(tools) => t \in DOMAIN new
           /\ \A u \in DOMAIN tools \ {t} : new[u] = tools[u]
           /\ t \in DOMAIN new => new[t] = x
<1> DEFINE all == GetOrCreate(tools, t, NewTool)
<1>1. /\ all \in ToolLists
      /\ DOMAIN tools \subseteq DOMAIN all /\ DOMAIN all \subseteq DOMAIN tools \cup {t}
      /\ HasRoom(tools) => t \in DOMAIN all
      /\ \A u \in DOMAIN tools : all[u] = tools[u]
  BY Created, NewToolIs DEF TypeInv, ToolLists
<1>2. CASE t \in DOMAIN all
  <2>1. new = [all EXCEPT ![t] = x]
    BY <1>2
  <2> HIDE DEF all
  <2>2. /\ new \in ToolLists /\ DOMAIN new = DOMAIN all /\ new[t] = x
        /\ \A u \in DOMAIN all \ {t} : new[u] = all[u]
    BY <2>1, <1>1, <1>2, Updated DEF ToolLists
  <2> QED
    BY <2>2, <1>1, <1>2
<1>3. CASE t \notin DOMAIN all
  <2>1. new = all
    BY <1>3
  <2> HIDE DEF all
  <2> QED
    BY <2>1, <1>1, <1>3
<1> QED
  BY <1>2, <1>3

(* The tool as WithTool finds it is the one of OldTool.                     *)
LEMMA ToolFound ==
    ASSUME TypeInv, NEW t \in ToolIds, t \in DOMAIN GetOrCreate(tools, t, NewTool)
    PROVE  GetOrCreate(tools, t, NewTool)[t] = OldTool(t)
BY Created, NewToolIs DEF TypeInv, ToolLists, OldTool

LEMMA OnlyToolsDo ==
    ASSUME TypeInv, NEW t \in ToolIds, NEW x \in Tools, x.slot = OldTool(t).slot,
           LET all == GetOrCreate(tools, t, NewTool)
           IN  OnlyTools(IF t \in DOMAIN all THEN [all EXCEPT ![t] = x] ELSE all)
    PROVE  /\ ToolsBecome(t, x) /\ SlotsKept
           /\ spindles' = spindles /\ beds' = beds /\ chambers' = chambers
           /\ columns' = columns
<1> DEFINE all == GetOrCreate(tools, t, NewTool)
           new == IF t \in DOMAIN all THEN [all EXCEPT ![t] = x] ELSE all
<1>1. /\ tools' = new /\ spindles' = spindles /\ beds' = beds
      /\ chambers' = chambers /\ columns' = columns
  BY DEF OnlyTools
<1>2. /\ new \in ToolLists
      /\ DOMAIN tools \subseteq DOMAIN new /\ DOMAIN new \subseteq DOMAIN tools \cup {t}
      /\ HasRoom(tools) => t \in DOMAIN new
      /\ \A u \in DOMAIN tools \ {t} : new[u] = tools[u]
      /\ t \in DOMAIN new => new[t] = x
  BY ToolChanged
<1> HIDE DEF new
<1> QED
  BY <1>1, <1>2 DEF ToolsBecome, SlotsKept, OldTool

LEMMA SeenIfDoes ==
    ASSUME TypeInv, combined' = combined,
           NEW ts \in ToolLists, NEW sp \in SpindleLists, NEW bs \in BedLists,
           NEW cs \in ChamberLists, NEW condition \in BOOLEAN,
           SeenIf(condition, ts, sp, bs, cs)
    PROVE  /\ SameTools(ts) /\ spindles' = sp
           /\ beds' \in BedLists /\ SameHeaters(beds', bs)
           /\ chambers' \in ChamberLists /\ SameHeaters(chambers', cs)
           /\ LayoutIf(condition)
           /\ ~condition => tools' = ts
<1>0. columns \in [Slots -> Columns] /\ combined \in BOOLEAN /\ spindles' = sp
  BY DEF TypeInv, SeenIf
<1>1. CASE condition
  <2>1. AllToolsSeen(ts, sp, bs, cs, combined)
    BY <1>1 DEF SeenIf
  <2>2. /\ SameTools(ts)
        /\ beds' \in BedLists /\ SameHeaters(beds', bs)
        /\ chambers' \in ChamberLists /\ SameHeaters(chambers', cs)
        /\ columns' \in [Slots -> Columns]
        /\ \A c \in Slots : columns'[c].shown =>
              FieldOf(columns'[c].field, c, tools', sp, bs, cs, combined)
    BY <2>1, <1>0, Seen
  <2>3. DOMAIN beds' = DOMAIN bs /\ DOMAIN chambers' = DOMAIN cs
    BY <2>2 DEF SameHeaters
  <2>5. PlacedAs(tools', sp, beds', chambers', combined, columns')
    BY <2>1, <1>0, SeenPlaced
  <2>6. \A c \in Slots : columns'[c].shown =>
            FieldOf(columns'[c].field, c, tools', spindles', beds', chambers', combined')
    BY <2>2, <2>3, <1>0 DEF FieldOf
  <2>4. LaidOut
    BY <2>5, <2>6, <1>0 DEF LaidOut
  <2> QED
    BY <1>0, <1>1, <2>2, <2>4 DEF LayoutIf
<1>2. CASE ~condition
  <2>1. tools' = ts /\ beds' = bs /\ chambers' = cs /\ columns' = columns
    BY <1>2 DEF SeenIf
  <2> QED
    BY <1>0, <1>2, <2>1 DEF LayoutIf, SameTools, SameHeaters
<1> QED
  BY <1>1, <1>2

(* A field of an answer is taken, in order.                                 *)
LEMMA Taken ==
    ASSUME TypeInv, NEW f \in msg.rest, IsNext(f),
           Consumed(f) \/ \E i : ConsumedAt(f, i),
           host' = host, msg.list \in ListNames => seqState' = seqState
    PROVE  /\ f \in Answer(host, msg.list) /\ msg.list \in ListNames \cup {"status"}
           /\ msg'.list = msg.list /\ msg'.rest = msg.rest \ {f}
           /\ Consumed(f) => msg'.last = msg.last
           /\ \A i : ConsumedAt(f, i) => msg'.last = i
           /\ MessageInv'
<1>1. msg # NoMessage
  BY DEF NoMessage
<1>2. /\ msg.list \in ListNames \cup {"status"}
      /\ msg = [list |-> msg.list, rest |-> msg.rest, last |-> msg.last]
      /\ msg.rest \subseteq Answer(host, msg.list)
      /\ \A g \in Answer(host, msg.list) \ msg.rest, h \in msg.rest : Precedes(g, h)
      /\ msg.list \in ListNames => seqState[msg.list] = "due"
  BY <1>1 DEF TypeInv, MessageInv
<1>3. PICK last : msg' = [list |-> msg.list, rest |-> msg.rest \ {f}, last |-> last]
  BY <1>2 DEF Consumed, ConsumedAt
<1>4. /\ Consumed(f) => msg'.last = msg.last
      /\ \A i : ConsumedAt(f, i) => msg'.last = i
  BY <1>2 DEF Consumed, ConsumedAt
<1>5. \A g \in Answer(host, msg.list) \ (msg.rest \ {f}), h \in msg.rest \ {f} :
          Precedes(g, h)
  BY <1>2 DEF IsNext
<1>6. msg'.list = msg.list /\ msg'.rest = msg.rest \ {f} /\ msg'.last = last
  BY <1>3
<1>7. MessageInv'
  BY <1>2, <1>3, <1>5, <1>6 DEF MessageInv
<1> QED
  BY <1>2, <1>4, <1>6, <1>7

(* What a field of an answer does to the lists.  A field of a tool changes  *)
(* that tool, or creates it.                                                *)
OtherListsSame ==
    spindles' = spindles /\ beds' = beds /\ chambers' = chambers

ActiveIs(t) == GetOrCreateHeaters(OldTool(t), 0 .. Len(host.tools[t].heaters) - 1)
NumberedIs(t) == Numbered(OldTool(t), host.tools[t].heaters)
ShortenedIs(t) == RemoveHeatersFrom(OldTool(t), Len(host.tools[t].heaters))
PointedIs(t) == WithSpindle(OldTool(t), host.tools[t].spindle)

LEMMA ToolFieldsAre ==
    ASSUME TypeInv, NEW t \in DOMAIN host.tools
    PROVE  /\ {OldTool(t), ActiveIs(t), NumberedIs(t), ShortenedIs(t), PointedIs(t)}
                 \subseteq Tools
           /\ \A x \in {ActiveIs(t), NumberedIs(t), ShortenedIs(t)} :
                 x.spindle = OldTool(t).spindle
           /\ \A x \in {ActiveIs(t), NumberedIs(t), ShortenedIs(t), PointedIs(t)} :
                 x.slot = OldTool(t).slot
           /\ PointedIs(t).heaters = OldTool(t).heaters
<1>1. OldTool(t) \in Tools /\ host \in Machines
  BY OldToolIs DEF TypeInv
<1>2. Len(host.tools[t].heaters) \in Nat
  BY <1>1, OfMachines
<1>3. /\ ActiveIs(t) \in Tools /\ ActiveIs(t).slot = OldTool(t).slot
      /\ ActiveIs(t).spindle = OldTool(t).spindle
  BY <1>1, HeatersCreated DEF ActiveIs
<1>4. /\ NumberedIs(t) \in Tools /\ NumberedIs(t).slot = OldTool(t).slot
      /\ NumberedIs(t).spindle = OldTool(t).spindle
  BY <1>1, HeatersNumbered DEF NumberedIs
<1>5. /\ ShortenedIs(t) \in Tools /\ ShortenedIs(t).slot = OldTool(t).slot
      /\ ShortenedIs(t).spindle = OldTool(t).spindle
  BY <1>1, <1>2, HeatersRemoved DEF ShortenedIs
<1>6. /\ PointedIs(t) \in Tools /\ PointedIs(t).slot = OldTool(t).slot
      /\ PointedIs(t).heaters = OldTool(t).heaters
  <2>1. \A s \in DOMAIN spindles : spindles[s] \in Cells
    BY Listed DEF TypeInv, SpindleLists
  <2>2. ASSUME NEW cell \in Cells \cup {Null}, NEW tool \in Tools
        PROVE  LET new == [tool EXCEPT !.spindle = cell]
               IN  new \in Tools /\ new.slot = tool.slot /\ new.heaters = tool.heaters
    BY DEF Tools
  <2> QED
    BY <1>1, <2>1, <2>2 DEF PointedIs, WithSpindle
<1> QED
  BY <1>1, <1>3, <1>4, <1>5, <1>6

LEMMA ToolFieldOf ==
    ASSUME TypeInv, NEW f \in msg.rest, IsNext(f),
           UpdateToolTemps(f) \/ SetToolExtruderOrOffset(f) \/ SetToolHeaters(f)
           \/ RemoveToolHeaters(f) \/ ReceiveToolNumber(f) \/ SetToolSpindle(f)
    PROVE  f.i \in DOMAIN host.tools /\ f.i \in ToolIds
<1>1. /\ host \in Machines /\ f \in Answer(host, msg.list)
      /\ msg.list \in ListNames \cup {"status"}
  <2>1. msg # NoMessage
    BY DEF NoMessage
  <2> QED
    BY <2>1 DEF TypeInv, MessageInv
<1>2. f.op \in {"active", "extruders", "offsets", "heaters", "heatersEnd", "number",
                "spindle"}
  BY DEF UpdateToolTemps, SetToolExtruderOrOffset, SetToolHeaters,
         RemoveToolHeaters, ReceiveToolNumber, SetToolSpindle
<1>3. f.i \in DOMAIN host.tools
  BY <1>1, <1>2, AnswerIs DEF SpindleOps
<1> QED
  BY <1>1, <1>3, OfMachines

LEMMA ActiveDoes ==
    ASSUME TypeInv, NEW f \in msg.rest, IsNext(f), UpdateToolTemps(f)
    PROVE  ToolsBecome(f.i, ActiveIs(f.i)) /\ SlotsKept /\ OtherListsSame /\ columns' = columns
<1>1. f.i \in DOMAIN host.tools /\ f.i \in ToolIds
  BY ToolFieldOf
<1> DEFINE all == GetOrCreate(tools, f.i, NewTool)
<1>2. WithTool(f.i, LAMBDA tool :
                   GetOrCreateHeaters(tool, 0 .. Len(host.tools[f.i].heaters) - 1))
      = IF f.i \in DOMAIN all THEN [all EXCEPT ![f.i] = ActiveIs(f.i)] ELSE all
  BY <1>1, ToolFound DEF WithTool, ActiveIs
<1>3. OnlyTools(IF f.i \in DOMAIN all THEN [all EXCEPT ![f.i] = ActiveIs(f.i)] ELSE all)
  BY <1>2 DEF UpdateToolTemps
<1>4. ActiveIs(f.i) \in Tools /\ ActiveIs(f.i).slot = OldTool(f.i).slot
  BY <1>1, ToolFieldsAre
<1> QED
  BY <1>1, <1>3, <1>4, OnlyToolsDo DEF OtherListsSame

LEMMA OtherFieldDoes ==
    ASSUME TypeInv, NEW f \in msg.rest, IsNext(f), SetToolExtruderOrOffset(f)
    PROVE  ToolsBecome(f.i, OldTool(f.i)) /\ SlotsKept /\ OtherListsSame /\ columns' = columns
<1>1. f.i \in DOMAIN host.tools /\ f.i \in ToolIds
  BY ToolFieldOf
<1> DEFINE all == GetOrCreate(tools, f.i, NewTool)
<1>2. WithTool(f.i, LAMBDA tool : tool)
      = IF f.i \in DOMAIN all THEN [all EXCEPT ![f.i] = OldTool(f.i)] ELSE all
  BY <1>1, ToolFound DEF WithTool
<1>3. OnlyTools(IF f.i \in DOMAIN all THEN [all EXCEPT ![f.i] = OldTool(f.i)] ELSE all)
  BY <1>2 DEF SetToolExtruderOrOffset
<1>4. OldTool(f.i) \in Tools
  BY <1>1, ToolFieldsAre
<1> QED
  BY <1>1, <1>3, <1>4, OnlyToolsDo DEF OtherListsSame

LEMMA HeatersDo ==
    ASSUME TypeInv, NEW f \in msg.rest, IsNext(f), SetToolHeaters(f)
    PROVE  ToolsBecome(f.i, NumberedIs(f.i)) /\ SlotsKept /\ OtherListsSame /\ columns' = columns
<1>1. f.i \in DOMAIN host.tools /\ f.i \in ToolIds
  BY ToolFieldOf
<1> DEFINE all == GetOrCreate(tools, f.i, NewTool)
<1>2. WithTool(f.i, LAMBDA tool : Numbered(tool, host.tools[f.i].heaters))
      = IF f.i \in DOMAIN all THEN [all EXCEPT ![f.i] = NumberedIs(f.i)] ELSE all
  BY <1>1, ToolFound DEF WithTool, NumberedIs
<1>3. OnlyTools(IF f.i \in DOMAIN all THEN [all EXCEPT ![f.i] = NumberedIs(f.i)] ELSE all)
  BY <1>2 DEF SetToolHeaters
<1>4. NumberedIs(f.i) \in Tools /\ NumberedIs(f.i).slot = OldTool(f.i).slot
  BY <1>1, ToolFieldsAre
<1> QED
  BY <1>1, <1>3, <1>4, OnlyToolsDo DEF OtherListsSame

LEMMA SpindleDoes ==
    ASSUME TypeInv, NEW f \in msg.rest, IsNext(f), SetToolSpindle(f)
    PROVE  ToolsBecome(f.i, PointedIs(f.i)) /\ SlotsKept /\ OtherListsSame /\ columns' = columns
<1>1. f.i \in DOMAIN host.tools /\ f.i \in ToolIds
  BY ToolFieldOf
<1> DEFINE all == GetOrCreate(tools, f.i, NewTool)
<1>2. WithTool(f.i, LAMBDA tool : WithSpindle(tool, host.tools[f.i].spindle))
      = IF f.i \in DOMAIN all THEN [all EXCEPT ![f.i] = PointedIs(f.i)] ELSE all
  BY <1>1, ToolFound DEF WithTool, PointedIs
<1>3. OnlyTools(IF f.i \in DOMAIN all THEN [all EXCEPT ![f.i] = PointedIs(f.i)] ELSE all)
  BY <1>2 DEF SetToolSpindle
<1>4. PointedIs(f.i) \in Tools /\ PointedIs(f.i).slot = OldTool(f.i).slot
  BY <1>1, ToolFieldsAre
<1> QED
  BY <1>1, <1>3, <1>4, OnlyToolsDo DEF OtherListsSame

(* A layout leaves the lists as they are, but for the columns of objects.   *)
LEMMA HeatersEndDoes ==
    ASSUME TypeInv, NEW f \in msg.rest, IsNext(f), RemoveToolHeaters(f)
    PROVE  /\ ToolsBecome(f.i, ShortenedIs(f.i))
           /\ spindles' = spindles /\ SameBeds /\ SameChambers
           /\ columns' \in [Slots -> Columns]
<1>1. f.i \in DOMAIN host.tools /\ f.i \in ToolIds
  BY ToolFieldOf
<1> DEFINE old == GetOrCreate(tools, f.i, NewTool)
           all == WithTool(f.i, LAMBDA tool :
                      RemoveHeatersFrom(tool, Len(host.tools[f.i].heaters)))
           cond == initialized /\ all # old
<1>2. all = IF f.i \in DOMAIN old THEN [old EXCEPT ![f.i] = ShortenedIs(f.i)] ELSE old
  BY <1>1, ToolFound DEF WithTool, ShortenedIs
<1>3. SeenIf(cond, all, spindles, beds, chambers) /\ combined' = combined
  BY DEF RemoveToolHeaters, received
<1>4. ShortenedIs(f.i) \in Tools
  BY <1>1, ToolFieldsAre
<1>5. /\ all \in ToolLists
      /\ DOMAIN tools \subseteq DOMAIN all /\ DOMAIN all \subseteq DOMAIN tools \cup {f.i}
      /\ HasRoom(tools) => f.i \in DOMAIN all
      /\ \A u \in DOMAIN tools \ {f.i} : all[u] = tools[u]
      /\ f.i \in DOMAIN all => all[f.i] = ShortenedIs(f.i)
  BY <1>1, <1>2, <1>4, ToolChanged
<1>6. cond \in BOOLEAN /\ spindles \in SpindleLists /\ beds \in BedLists
      /\ chambers \in ChamberLists
  BY DEF TypeInv
<1> HIDE DEF all, cond
<1>7. /\ SameTools(all) /\ spindles' = spindles
      /\ beds' \in BedLists /\ SameHeaters(beds', beds)
      /\ chambers' \in ChamberLists /\ SameHeaters(chambers', chambers)
      /\ LayoutIf(cond)
  BY <1>3, <1>5, <1>6, SeenIfDoes
<1>8. ToolsBecome(f.i, ShortenedIs(f.i))
  <2>1. /\ tools' \in ToolLists /\ DOMAIN tools' = DOMAIN all
        /\ \A t \in DOMAIN all : /\ tools'[t].heaters = all[t].heaters
                                 /\ tools'[t].spindle = all[t].spindle
    BY <1>7 DEF SameTools
  <2> QED
    BY <2>1, <1>5 DEF ToolsBecome
<1> QED
  BY <1>7, <1>8 DEF LayoutIf, SameBeds, SameChambers

LEMMA NumberDoes ==
    ASSUME TypeInv, NEW f \in msg.rest, IsNext(f), ReceiveToolNumber(f)
    PROVE  /\ SameTools(Without(tools, Skipped(msg.last, f.i)))
           /\ OtherListsSame /\ columns' = columns
<1>1. tools' = Without(tools, Skipped(msg.last, f.i)) /\ OtherListsSame /\ columns' = columns
  BY DEF ReceiveToolNumber, OnlyTools, OtherListsSame
<1>2. Without(tools, Skipped(msg.last, f.i)) \in ToolLists
  BY Removed DEF TypeInv, ToolLists
<1> QED
  BY <1>1, <1>2 DEF SameTools

LEMMA ToolsEndDoes ==
    ASSUME TypeInv, NEW f \in msg.rest, EndOfTools(f)
    PROVE  /\ SameTools(Without(tools, AllFollowing(tools, msg.last + 1)))
           /\ spindles' = spindles /\ SameBeds /\ SameChambers
           /\ LayoutIf(initialized)
<1> DEFINE all == Without(tools, AllFollowing(tools, msg.last + 1))
<1>1. all \in ToolLists
  BY Removed DEF TypeInv, ToolLists
<1>2. SeenIf(initialized, all, spindles, beds, chambers) /\ combined' = combined
  BY DEF EndOfTools, received
<1>3. initialized \in BOOLEAN /\ spindles \in SpindleLists /\ beds \in BedLists
      /\ chambers \in ChamberLists
  BY DEF TypeInv
<1> HIDE DEF all
<1> QED
  BY <1>1, <1>2, <1>3, SeenIfDoes DEF SameBeds, SameChambers, all

(* A spindle may be created and others removed.                             *)
SpindlesBecome(i, gone) ==
    /\ spindles' \in SpindleLists
    /\ DOMAIN spindles \ gone \subseteq DOMAIN spindles'
    /\ DOMAIN spindles' \subseteq (DOMAIN spindles \cup {i}) \ gone
    /\ HasRoom(spindles) /\ i \notin gone => i \in DOMAIN spindles'
    /\ \A s \in DOMAIN spindles \ gone : spindles'[s] = spindles[s]

LEMMA SpindleCreated ==
    ASSUME TypeInv, NEW i \in SpindleIds, NEW sp \in CreateSpindle(i)
    PROVE  /\ sp \in SpindleLists
           /\ DOMAIN spindles \subseteq DOMAIN sp
           /\ DOMAIN sp \subseteq DOMAIN spindles \cup {i}
           /\ HasRoom(spindles) => i \in DOMAIN sp
           /\ \A s \in DOMAIN spindles : sp[s] = spindles[s]
<1>0. spindles \in ListsOf(SpindleIds, Cells) /\ IsInjective(spindles)
  BY DEF TypeInv, SpindleLists
<1>1. CASE i \in DOMAIN spindles \/ ~HasRoom(spindles)
  <2>1. sp = spindles
    BY <1>1 DEF CreateSpindle
  <2> QED
    BY <2>1, <1>1 DEF TypeInv
<1>2. CASE ~(i \in DOMAIN spindles \/ ~HasRoom(spindles))
  <2>1. PICK c \in FreeCells : sp = GetOrCreate(spindles, i, c)
    BY <1>2 DEF CreateSpindle
  <2>2. c \in Cells /\ \A s \in DOMAIN spindles : spindles[s] # c
    BY DEF FreeCells, Range
  <2>3. /\ sp \in ListsOf(SpindleIds, Cells)
        /\ DOMAIN spindles \subseteq DOMAIN sp
        /\ DOMAIN sp \subseteq DOMAIN spindles \cup {i}
        /\ HasRoom(spindles) => i \in DOMAIN sp
        /\ \A s \in DOMAIN spindles : sp[s] = spindles[s]
        /\ i \in DOMAIN sp \ DOMAIN spindles => sp[i] = c
    BY <1>0, <2>1, <2>2, Created
  <2>4. ASSUME NEW a \in DOMAIN sp, NEW b \in DOMAIN sp, sp[a] = sp[b] PROVE a = b
    <3>1. i \notin DOMAIN spindles
      BY <1>2
    <3>2. CASE a \in DOMAIN spindles /\ b \in DOMAIN spindles
      BY <3>2, <2>3, <2>4, <1>0 DEF IsInjective
    <3>3. CASE a \notin DOMAIN spindles \/ b \notin DOMAIN spindles
      BY <3>1, <3>3, <2>2, <2>3, <2>4
    <3> QED
      BY <3>2, <3>3
  <2> QED
    BY <2>3, <2>4 DEF SpindleLists, IsInjective
<1> QED
  BY <1>1, <1>2

LEMMA SpindlesRemoved ==
    ASSUME NEW sp \in SpindleLists, NEW gone, NEW new, new = Without(sp, gone)
    PROVE  new \in SpindleLists
<1>1. /\ sp \in ListsOf(SpindleIds, Cells)
      /\ \A a, b \in DOMAIN sp : sp[a] = sp[b] => a = b
  BY DEF SpindleLists, IsInjective
<1>2. /\ new \in ListsOf(SpindleIds, Cells)
      /\ DOMAIN new = DOMAIN sp \ gone
      /\ \A s \in DOMAIN sp \ gone : new[s] = sp[s]
  BY <1>1, Removed
<1> QED
  BY <1>1, <1>2 DEF SpindleLists, IsInjective

LEMMA SpindleFieldOf ==
    ASSUME TypeInv, NEW f \in msg.rest, SetSpindleActive(f) \/ SetSpindleCurrent(f)
    PROVE  f.i \in host.spindles /\ f.i \in SpindleIds
<1>1. /\ host \in Machines /\ f \in Answer(host, msg.list)
      /\ msg.list \in ListNames \cup {"status"}
  <2>1. msg # NoMessage
    BY DEF NoMessage
  <2> QED
    BY <2>1 DEF TypeInv, MessageInv
<1>2. f.op \in {"spActive", "spCurrent"}
  BY DEF SetSpindleActive, SetSpindleCurrent
<1>3. f.i \in host.spindles
  BY <1>1, <1>2, AnswerIs DEF OtherToolOps
<1> QED
  BY <1>1, <1>3, OfMachines

LEMMA SpActiveDoes ==
    ASSUME TypeInv, NEW f \in msg.rest, SetSpindleActive(f)
    PROVE  /\ SpindlesBecome(f.i, Skipped(lastSpindle, f.i)) /\ lastSpindle' = f.i
           /\ UNCHANGED <<tools, beds, chambers, columns>>
<1>1. f.i \in SpindleIds
  BY SpindleFieldOf
<1> DEFINE gone == Skipped(lastSpindle, f.i)
<1>2. PICK sp \in CreateSpindle(f.i) : spindles' = Without(sp, gone)
  BY DEF SetSpindleActive
<1>3. /\ sp \in SpindleLists
      /\ DOMAIN spindles \subseteq DOMAIN sp
      /\ DOMAIN sp \subseteq DOMAIN spindles \cup {f.i}
      /\ HasRoom(spindles) => f.i \in DOMAIN sp
      /\ \A s \in DOMAIN spindles : sp[s] = spindles[s]
  BY <1>1, SpindleCreated
<1>4. sp \in ListsOf(SpindleIds, Cells)
  BY <1>3 DEF SpindleLists
<1>5. /\ DOMAIN spindles' = DOMAIN sp \ gone
      /\ \A s \in DOMAIN sp \ gone : spindles'[s] = sp[s]
  BY <1>2, <1>4, Removed
<1>6. spindles' \in SpindleLists
  BY <1>2, <1>3, SpindlesRemoved
<1> HIDE DEF gone
<1>7. SpindlesBecome(f.i, gone)
  BY <1>3, <1>5, <1>6 DEF SpindlesBecome
<1> QED
  BY <1>7 DEF SetSpindleActive, gone

LEMMA SpCurrentDoes ==
    ASSUME TypeInv, NEW f \in msg.rest, SetSpindleCurrent(f)
    PROVE  /\ SpindlesBecome(f.i, {}) /\ lastSpindle' = lastSpindle
           /\ UNCHANGED <<tools, beds, chambers, columns>>
<1>1. f.i \in SpindleIds
  BY SpindleFieldOf
<1>2. spindles' \in CreateSpindle(f.i)
  BY DEF SetSpindleCurrent
<1>3. /\ spindles' \in SpindleLists
      /\ DOMAIN spindles \subseteq DOMAIN spindles'
      /\ DOMAIN spindles' \subseteq DOMAIN spindles \cup {f.i}
      /\ HasRoom(spindles) => f.i \in DOMAIN spindles'
      /\ \A s \in DOMAIN spindles : spindles'[s] = spindles[s]
  BY <1>1, <1>2, SpindleCreated
<1> QED
  BY <1>3 DEF SetSpindleCurrent, SpindlesBecome

LEMMA SpindlesEndDoes ==
    ASSUME TypeInv, NEW f \in msg.rest, EndOfSpindles(f)
    PROVE  /\ SameTools(tools)
           /\ SpindlesBecome(-1, AllFollowing(spindles, lastSpindle + 1) \cup {-1})
           /\ SameBeds /\ SameChambers /\ LayoutIf(initialized)
<1> DEFINE gone == AllFollowing(spindles, lastSpindle + 1)
           all == Without(spindles, gone)
<1>1. all \in SpindleLists /\ spindles \in ListsOf(SpindleIds, Cells)
  BY SpindlesRemoved DEF TypeInv, SpindleLists
<1>2. SeenIf(initialized, tools, all, beds, chambers) /\ combined' = combined
  BY DEF EndOfSpindles, received
<1>3. initialized \in BOOLEAN /\ tools \in ToolLists /\ beds \in BedLists
      /\ chambers \in ChamberLists
  BY DEF TypeInv
<1> HIDE DEF gone
<1>4. DOMAIN all = DOMAIN spindles \ gone /\ \A s \in DOMAIN spindles \ gone : all[s] = spindles[s]
  BY <1>1, Removed
<1> HIDE DEF all
<1>5. /\ SameTools(tools) /\ spindles' = all /\ SameBeds /\ SameChambers
      /\ LayoutIf(initialized)
  BY <1>1, <1>2, <1>3, SeenIfDoes DEF SameBeds, SameChambers
<1>6. -1 \notin DOMAIN spindles
  BY <1>1, Listed, Constants
<1>7. SpindlesBecome(-1, gone \cup {-1})
  BY <1>1, <1>4, <1>5, <1>6 DEF SpindlesBecome
<1> QED
  BY <1>5, <1>7 DEF gone

(* The heater of a bed or chamber is set, and others may be removed.        *)
HeatersBecome(new, old, i, heater, gone) ==
    /\ DOMAIN old \ gone \subseteq DOMAIN new
    /\ DOMAIN new \subseteq (DOMAIN old \cup {i}) \ gone
    /\ HasRoom(old) /\ i \notin gone => i \in DOMAIN new
    /\ \A j \in DOMAIN new \ {i} : new[j].heater = old[j].heater
    /\ i \in DOMAIN new => new[i].heater = heater

LEMMA WithHeaterIs ==
    ASSUME NEW Ids, NEW list \in ListsOf(Ids, BedsOrChambers), NEW i \in Ids,
           NEW heater \in Heaters, NEW new, new = WithHeater(list, i, heater)
    PROVE  /\ new \in ListsOf(Ids, BedsOrChambers)
           /\ HeatersBecome(new, list, i, heater, Skipped(msg.last, i))
<1> DEFINE all == GetOrCreate(list, i, NewBedOrChamber)
           set == IF i \in DOMAIN all THEN [all EXCEPT ![i].heater = heater] ELSE all
           gone == Skipped(msg.last, i)
<1>1. /\ set \in ListsOf(Ids, BedsOrChambers)
      /\ DOMAIN list \subseteq DOMAIN set /\ DOMAIN set \subseteq DOMAIN list \cup {i}
      /\ HasRoom(list) => i \in DOMAIN set
      /\ \A j \in DOMAIN set \ {i} : set[j].heater = list[j].heater
      /\ i \in DOMAIN set => set[i].heater = heater
  <2>0. list \in [DOMAIN list -> BedsOrChambers]
    BY Listed
  <2>1. CASE i \in DOMAIN list
    <3> DEFINE x == [list[i] EXCEPT !.heater = heater]
    <3>1. x \in BedsOrChambers /\ x.heater = heater
      BY <2>0, <2>1 DEF BedsOrChambers
    <3>2. set = [list EXCEPT ![i] = x]
      BY <2>1 DEF GetOrCreate
    <3> HIDE DEF set, x
    <3>3. /\ set \in ListsOf(Ids, BedsOrChambers) /\ DOMAIN set = DOMAIN list
          /\ set[i] = x /\ \A j \in DOMAIN list \ {i} : set[j] = list[j]
      BY <2>1, <3>1, <3>2, Updated
    <3> QED
      BY <2>1, <3>1, <3>3
  <2>2. CASE i \notin DOMAIN list /\ ~HasRoom(list)
    <3>1. set = list
      BY <2>2 DEF GetOrCreate
    <3> QED
      BY <2>2, <3>1
  <2>3. CASE i \notin DOMAIN list /\ HasRoom(list)
    <3> DEFINE x == [heater |-> heater, slot |-> MaxSlots]
    <3>1. MaxSlots \in 0 .. MaxSlots
      BY Constants
    <3>2. x \in BedsOrChambers /\ x.heater = heater
      BY <3>1 DEF BedsOrChambers
    <3>3. all = [j \in DOMAIN list \cup {i} |-> IF j = i THEN NewBedOrChamber ELSE list[j]]
      BY <2>3 DEF GetOrCreate
    <3>4. [NewBedOrChamber EXCEPT !.heater = heater] = x
      <4> DEFINE o == NewBedOrChamber
      <4>1. o = [heater |-> -1, slot |-> MaxSlots]
        BY DEF NewBedOrChamber
      <4> HIDE DEF o
      <4>2. [o EXCEPT !.heater = heater] = x
        BY <4>1
      <4> QED
        BY <4>2 DEF o
    <3>5. GetOrCreate(list, i, x)
          = [j \in DOMAIN list \cup {i} |-> IF j = i THEN x ELSE list[j]]
      BY <2>3 DEF GetOrCreate
    <3>6. set = [all EXCEPT ![i] = [all[i] EXCEPT !.heater = heater]]
      BY <3>3
    <3>7. set = [j \in DOMAIN list \cup {i} |-> IF j = i THEN x ELSE list[j]]
      BY <3>3, <3>4, <3>6
    <3> HIDE DEF set, x
    <3>8. /\ set \in ListsOf(Ids, BedsOrChambers)
          /\ DOMAIN list \subseteq DOMAIN set /\ DOMAIN set \subseteq DOMAIN list \cup {i}
          /\ HasRoom(list) => i \in DOMAIN set
          /\ \A j \in DOMAIN list : set[j] = list[j]
          /\ i \in DOMAIN set \ DOMAIN list => set[i] = x
      BY <3>2, <3>5, <3>7, Created
    <3> QED
      BY <2>3, <3>2, <3>8
  <2> QED
    BY <2>1, <2>2, <2>3
<1>2. new = Without(set, gone)
  BY DEF WithHeater
<1> HIDE DEF set, gone
<1>3. /\ new \in ListsOf(Ids, BedsOrChambers)
      /\ DOMAIN new = DOMAIN set \ gone
      /\ \A j \in DOMAIN set \ gone : new[j] = set[j]
  <2>1. set \in ListsOf(Ids, BedsOrChambers)
    BY <1>1
  <2>2. new \in ListsOf(Ids, BedsOrChambers)
    BY <1>2, <2>1, Removed
  <2>3. new = [j \in DOMAIN set \ gone |-> set[j]]
    BY <1>2 DEF Without, Restrict
  <2> QED
    BY <2>2, <2>3
<1>4. HeatersBecome(new, list, i, heater, gone)
  BY <1>1, <1>3 DEF HeatersBecome
<1> QED
  BY <1>3, <1>4 DEF gone

LEMMA HeatFieldOf ==
    ASSUME TypeInv, NEW f \in msg.rest
    PROVE  /\ SetBedHeater(f) => /\ f.i \in DOMAIN host.beds /\ f.i \in BedIds
                                 /\ host.beds[f.i] \in Heaters
           /\ SetChamberHeater(f) => /\ f.i \in DOMAIN host.chambers /\ f.i \in ChamberIds
                                     /\ host.chambers[f.i] \in Heaters
<1>1. /\ host \in Machines /\ f \in Answer(host, msg.list)
      /\ msg.list \in ListNames \cup {"status"}
  <2>1. msg # NoMessage
    BY DEF NoMessage
  <2> QED
    BY <2>1 DEF TypeInv, MessageInv
<1>2. /\ f.op = "bed" => f.i \in DOMAIN host.beds
      /\ f.op = "chamber" => f.i \in DOMAIN host.chambers
  BY <1>1, AnswerIs DEF OtherToolOps, SpindleOps
<1> QED
  BY <1>1, <1>2, OfMachines DEF SetBedHeater, SetChamberHeater

LEMMA BedDoes ==
    ASSUME TypeInv, NEW f \in msg.rest, SetBedHeater(f)
    PROVE  /\ beds' \in BedLists
           /\ HeatersBecome(beds', beds, f.i, host.beds[f.i], Skipped(msg.last, f.i))
           /\ UNCHANGED <<tools, spindles, chambers, columns>>
BY HeatFieldOf, WithHeaterIs DEF SetBedHeater, TypeInv, BedLists

LEMMA ChamberDoes ==
    ASSUME TypeInv, NEW f \in msg.rest, SetChamberHeater(f)
    PROVE  /\ chambers' \in ChamberLists
           /\ HeatersBecome(chambers', chambers, f.i, host.chambers[f.i],
                            Skipped(msg.last, f.i))
           /\ UNCHANGED <<tools, spindles, beds, columns>>
BY HeatFieldOf, WithHeaterIs DEF SetChamberHeater, TypeInv, ChamberLists

LEMMA BedsEndDoes ==
    ASSUME TypeInv, NEW f \in msg.rest, EndOfBeds(f)
    PROVE  /\ beds' \in BedLists
           /\ SameHeaters(beds', Without(beds, AllFollowing(beds, msg.last + 1)))
           /\ SameTools(tools) /\ spindles' = spindles /\ SameChambers
           /\ LayoutIf(initialized)
<1> DEFINE all == Without(beds, AllFollowing(beds, msg.last + 1))
<1>1. all \in BedLists
  BY Removed DEF TypeInv, BedLists
<1>2. SeenIf(initialized, tools, spindles, all, chambers) /\ combined' = combined
  BY DEF EndOfBeds, received
<1>3. initialized \in BOOLEAN /\ tools \in ToolLists /\ spindles \in SpindleLists
      /\ chambers \in ChamberLists
  BY DEF TypeInv
<1> HIDE DEF all
<1> QED
  BY <1>1, <1>2, <1>3, SeenIfDoes DEF SameChambers, all

LEMMA ChambersEndDoes ==
    ASSUME TypeInv, NEW f \in msg.rest, EndOfChambers(f)
    PROVE  /\ chambers' \in ChamberLists
           /\ SameHeaters(chambers',
                          Without(chambers, AllFollowing(chambers, msg.last + 1)))
           /\ SameTools(tools) /\ spindles' = spindles /\ SameBeds
           /\ LayoutIf(initialized)
<1> DEFINE all == Without(chambers, AllFollowing(chambers, msg.last + 1))
<1>1. all \in ChamberLists
  BY Removed DEF TypeInv, ChamberLists
<1>2. SeenIf(initialized, tools, spindles, beds, all) /\ combined' = combined
  BY DEF EndOfChambers, received
<1>3. initialized \in BOOLEAN /\ tools \in ToolLists /\ spindles \in SpindleLists
      /\ beds \in BedLists
  BY DEF TypeInv
<1> HIDE DEF all
<1> QED
  BY <1>1, <1>2, <1>3, SeenIfDoes DEF SameBeds, all

-----------------------------------------------------------------------------
(* The types hold *)

ReceiveToolField(f) ==
    \/ UpdateToolTemps(f) \/ SetToolExtruderOrOffset(f) \/ SetToolHeaters(f)
    \/ RemoveToolHeaters(f) \/ ReceiveToolNumber(f) \/ SetToolSpindle(f) \/ EndOfTools(f)
ReceiveSpindleField(f) ==
    SetSpindleActive(f) \/ SetSpindleCurrent(f) \/ EndOfSpindles(f)
ReceiveHeatField(f) ==
    SetBedHeater(f) \/ EndOfBeds(f) \/ SetChamberHeater(f) \/ EndOfChambers(f)
ReceiveField(f) ==
    ReceiveSeqs(f) \/ ReceiveToolField(f) \/ ReceiveSpindleField(f) \/ ReceiveHeatField(f)

LEMMA ReceiveIs == Receive <=> \E f \in msg.rest : IsNext(f) /\ ReceiveField(f)
BY DEF Receive, ReceiveField, ReceiveToolField, ReceiveSpindleField, ReceiveHeatField

(* The answer loses the field; the machine and what is recorded stay.       *)
LEMMA Received ==
    ASSUME TypeInv, NEW f \in msg.rest, IsNext(f), ReceiveField(f)
    PROVE  /\ UNCHANGED <<host, changes, currentReqSeq, initialized, combined,
                          adjusting, faults, crowded, meddled>>
           /\ f \in Answer(host, msg.list) /\ msg.list \in ListNames \cup {"status"}
           /\ msg'.list = msg.list /\ msg'.rest = msg.rest \ {f}
           /\ MessageInv'
           /\ f.op # "seqs" => UNCHANGED <<changed, seqState>>
           /\ f.op # "spActive" => UNCHANGED lastSpindle
           /\ f.op # "spindle" => UNCHANGED unfound
           /\ f.op \notin {"number", "bed", "chamber", "bedsEnd"} => msg'.last = msg.last
           /\ f.op \in {"number", "bed", "chamber"} => msg'.last = f.i
           /\ f.op = "bedsEnd" => msg'.last = -1
<1>1. /\ host \in Machines /\ f \in Answer(host, msg.list)
      /\ msg.list \in ListNames \cup {"status"}
  <2>1. msg # NoMessage
    BY DEF NoMessage
  <2> QED
    BY <2>1 DEF TypeInv, MessageInv
<1>2. CASE ReceiveSeqs(f)
  <2>1. f.op = "seqs" /\ Consumed(f)
        /\ UNCHANGED <<host, changes, currentReqSeq, initialized, combined, adjusting,
                       history, lastSpindle>>
    BY <1>2 DEF ReceiveSeqs, received
  <2>2. msg.list \notin ListNames
    BY <1>1, <2>1, AnswerIs, Constants DEF SpindleOps, OtherToolOps
  <2> QED
    BY <1>1, <2>1, <2>2, Taken DEF history
<1>3. CASE SetToolSpindle(f)
  <2>1. f.op = "spindle" /\ Consumed(f)
        /\ UNCHANGED <<host, changes, currentReqSeq, initialized, combined, adjusting,
                       faults, crowded, meddled, changed, seqState, lastSpindle>>
    BY <1>3 DEF SetToolSpindle, unlisted
  <2> QED
    BY <1>1, <2>1, Taken
<1>4. CASE SetSpindleActive(f)
  <2>1. f.op = "spActive" /\ Consumed(f)
        /\ UNCHANGED <<host, changes, currentReqSeq, initialized, combined, adjusting,
                       history, changed, seqState>>
    BY <1>4 DEF SetSpindleActive, received, unlisted
  <2> QED
    BY <1>1, <2>1, Taken DEF history
<1>5. CASE \/ UpdateToolTemps(f) \/ SetToolExtruderOrOffset(f) \/ SetToolHeaters(f)
           \/ RemoveToolHeaters(f) \/ EndOfTools(f) \/ SetSpindleCurrent(f)
           \/ EndOfSpindles(f) \/ EndOfChambers(f)
  <2>1. f.op \in {"active", "extruders", "offsets", "heaters", "heatersEnd",
                  "toolsEnd", "spCurrent", "spindlesEnd", "chambersEnd"}
        /\ Consumed(f)
        /\ UNCHANGED <<host, changes, currentReqSeq, initialized, combined, adjusting,
                       history, changed, seqState, lastSpindle>>
    BY <1>5 DEF UpdateToolTemps, SetToolExtruderOrOffset, SetToolHeaters,
                RemoveToolHeaters, EndOfTools, SetSpindleCurrent, EndOfSpindles,
                EndOfChambers, received, unlisted
  <2> QED
    BY <1>1, <2>1, Taken DEF history
<1>6. CASE ReceiveToolNumber(f) \/ SetBedHeater(f) \/ SetChamberHeater(f)
  <2>1. f.op \in {"number", "bed", "chamber"} /\ ConsumedAt(f, f.i)
        /\ UNCHANGED <<host, changes, currentReqSeq, initialized, combined, adjusting,
                       history, changed, seqState, lastSpindle>>
    BY <1>6 DEF ReceiveToolNumber, SetBedHeater, SetChamberHeater, received, unlisted
  <2> QED
    BY <1>1, <2>1, Taken DEF history
<1>7. CASE EndOfBeds(f)
  <2>1. f.op = "bedsEnd" /\ ConsumedAt(f, -1)
        /\ UNCHANGED <<host, changes, currentReqSeq, initialized, combined, adjusting,
                       history, changed, seqState, lastSpindle>>
    BY <1>7 DEF EndOfBeds, received, unlisted
  <2> QED
    BY <1>1, <2>1, Taken DEF history
<1> QED
  BY <1>2, <1>3, <1>4, <1>5, <1>6, <1>7
     DEF ReceiveField, ReceiveToolField, ReceiveSpindleField, ReceiveHeatField

LEMMA ReceiveTypes ==
    ASSUME TypeInv, NEW f \in msg.rest, IsNext(f), ReceiveField(f)
    PROVE  TypeInv'
<1>1. /\ UNCHANGED <<host, changes, currentReqSeq, initialized, combined,
                     adjusting, faults, crowded, meddled>>
      /\ MessageInv'
      /\ f.op # "seqs" => UNCHANGED <<changed, seqState>>
      /\ f.op # "spActive" => UNCHANGED lastSpindle
      /\ f.op # "spindle" => UNCHANGED unfound
  BY Received
<1>2. AdjustInv'
  BY <1>1 DEF AdjustInv, TypeInv
<1>3. changed' \subseteq ListNames /\ seqState' \in [ListNames -> {"ok", "due", "error"}]
  <2>1. CASE ReceiveSeqs(f)
    BY <2>1 DEF ReceiveSeqs, TypeInv
  <2>2. CASE f.op # "seqs"
    BY <2>2, <1>1 DEF TypeInv
  <2>3. ReceiveSeqs(f) \/ f.op # "seqs"
    BY DEF ReceiveField, ReceiveToolField, ReceiveSpindleField, ReceiveHeatField,
           UpdateToolTemps, SetToolExtruderOrOffset, SetToolHeaters, RemoveToolHeaters,
           ReceiveToolNumber, SetToolSpindle, EndOfTools, SetSpindleActive,
           SetSpindleCurrent, EndOfSpindles, SetBedHeater, EndOfBeds,
           SetChamberHeater, EndOfChambers
  <2> QED
    BY <2>1, <2>2, <2>3
<1>4. /\ lastSpindle' \in {-1} \cup SpindleIds /\ unfound' \subseteq ToolIds
      /\ tools' \in ToolLists /\ spindles' \in SpindleLists
      /\ beds' \in BedLists /\ chambers' \in ChamberLists
      /\ columns' \in [Slots -> Columns]
  <2>0. /\ lastSpindle \in {-1} \cup SpindleIds /\ unfound \subseteq ToolIds
        /\ tools \in ToolLists /\ spindles \in SpindleLists
        /\ beds \in BedLists /\ chambers \in ChamberLists
        /\ columns \in [Slots -> Columns]
    BY DEF TypeInv
  <2>1. CASE ReceiveSeqs(f)
    BY <2>0, <2>1 DEF ReceiveSeqs, received, history, lists
  <2>2. CASE UpdateToolTemps(f)
    BY <2>0, <2>2, <1>1, ActiveDoes DEF UpdateToolTemps, ToolsBecome, OtherListsSame
  <2>3. CASE SetToolExtruderOrOffset(f)
    BY <2>0, <2>3, <1>1, OtherFieldDoes
       DEF SetToolExtruderOrOffset, ToolsBecome, OtherListsSame
  <2>4. CASE SetToolHeaters(f)
    BY <2>0, <2>4, <1>1, HeatersDo DEF SetToolHeaters, ToolsBecome, OtherListsSame
  <2>5. CASE RemoveToolHeaters(f)
    BY <2>0, <2>5, <1>1, HeatersEndDoes
       DEF RemoveToolHeaters, ToolsBecome, SameBeds, SameChambers
  <2>6. CASE ReceiveToolNumber(f)
    BY <2>0, <2>6, <1>1, NumberDoes DEF ReceiveToolNumber, SameTools, OtherListsSame
  <2>7. CASE SetToolSpindle(f)
    <3>1. f.i \in ToolIds
      BY <2>7, ToolFieldOf
    <3>2. unfound' \subseteq ToolIds
      BY <2>0, <2>7, <3>1 DEF SetToolSpindle
    <3> QED
      BY <2>0, <2>7, <3>2, <1>1, SpindleDoes
         DEF SetToolSpindle, ToolsBecome, OtherListsSame
  <2>8. CASE EndOfTools(f)
    BY <2>0, <2>8, <1>1, ToolsEndDoes
       DEF EndOfTools, SameTools, SameBeds, SameChambers, LayoutIf
  <2>9. CASE SetSpindleActive(f)
    BY <2>0, <2>9, <1>1, SpActiveDoes, SpindleFieldOf
       DEF SetSpindleActive, SpindlesBecome
  <2>10. CASE SetSpindleCurrent(f)
    BY <2>0, <2>10, <1>1, SpCurrentDoes DEF SetSpindleCurrent, SpindlesBecome
  <2>11. CASE EndOfSpindles(f)
    BY <2>0, <2>11, <1>1, SpindlesEndDoes
       DEF EndOfSpindles, SpindlesBecome, SameTools, SameBeds, SameChambers, LayoutIf
  <2>12. CASE SetBedHeater(f)
    BY <2>0, <2>12, <1>1, BedDoes DEF SetBedHeater
  <2>13. CASE EndOfBeds(f)
    BY <2>0, <2>13, <1>1, BedsEndDoes DEF EndOfBeds, SameTools, SameChambers, LayoutIf
  <2>14. CASE SetChamberHeater(f)
    BY <2>0, <2>14, <1>1, ChamberDoes DEF SetChamberHeater
  <2>15. CASE EndOfChambers(f)
    BY <2>0, <2>15, <1>1, ChambersEndDoes
       DEF EndOfChambers, SameTools, SameBeds, LayoutIf
  <2> QED
    BY <2>1, <2>2, <2>3, <2>4, <2>5, <2>6, <2>7, <2>8, <2>9, <2>10, <2>11, <2>12,
       <2>13, <2>14, <2>15
       DEF ReceiveField, ReceiveToolField, ReceiveSpindleField, ReceiveHeatField
<1> QED
  BY <1>1, <1>2, <1>3, <1>4 DEF TypeInv

(* A request is followed by its answer.                                     *)
LEMMA StartedIs ==
    ASSUME NEW l \in ListNames \cup {"status"}, msg' = Started(l), host' = host,
           l \in ListNames => seqState'[l] = "due"
    PROVE  /\ msg'.list = l /\ msg'.rest = Answer(host, l) /\ msg'.last = -1
           /\ MessageInv'
<1>1. msg' = [list |-> l, rest |-> Answer(host, l), last |-> -1]
  BY DEF Started
<1>2. msg'.list = l /\ msg'.rest = Answer(host, l) /\ msg'.last = -1
  BY <1>1
<1> QED
  BY <1>1, <1>2 DEF MessageInv

LEMMA NextDue ==
    ASSUME TypeInv, Due(currentReqSeq .. 3) # {}
    PROVE  LET k == Min(Due(currentReqSeq .. 3))
           IN  /\ k \in 1 .. 3 /\ Lists[k] \in ListNames
               /\ seqState[Lists[k]] = "due"
<1> DEFINE S == Due(currentReqSeq .. 3)
<1>1. S \subseteq 1 .. 3
  BY DEF Due, TypeInv
<1>2. \E x \in S : \A y \in S : x <= y
  <2>1. 1 \in S \/ 2 \in S \/ 3 \in S
    BY <1>1
  <2> HIDE DEF S
  <2> QED
    BY <1>1, <2>1
<1>3. Min(S) \in S
  BY <1>2 DEF Min
<1>4. \A i \in 1 .. 3 : Lists[i] \in ListNames
  BY Constants
<1>5. \A i \in S : seqState[Lists[i]] = "due"
  BY DEF Due
<1> QED
  BY <1>1, <1>3, <1>4, <1>5

LEMMA RequestListDoes ==
    ASSUME TypeInv, RequestList
    PROVE  \E l \in ListNames :
              /\ seqState[l] = "due" /\ seqState'[l] = "due"
              /\ seqState' \in [ListNames -> {"ok", "due", "error"}]
              /\ \A n \in ListNames : seqState'[n] = "ok" <=> seqState[n] = "ok"
              /\ currentReqSeq' \in 1 .. 3
              /\ msg = NoMessage /\ MessageInv'
              /\ msg'.list = l /\ msg'.rest = Answer(host, l) /\ msg'.last = -1
              /\ lastSpindle' = IF l = "spindles" THEN -1 ELSE lastSpindle
              /\ crowded' = IF Crowding(l) THEN crowded \cup {l} ELSE crowded \ {l}
              /\ meddled' = (meddled /\ l # "tools")
              /\ unfound' = IF l = "tools" THEN {} ELSE unfound
              /\ UNCHANGED <<host, changes, changed, initialized, lists, columns,
                             combined, adjusting, faults>>
<1> DEFINE k == Min(Due(currentReqSeq .. 3))
           l == Lists[k]
<1>1. /\ msg = NoMessage /\ Due(currentReqSeq .. 3) # {}
      /\ currentReqSeq' = k
      /\ seqState' = Retried(currentReqSeq .. k)
      /\ msg' = Started(l)
      /\ lastSpindle' = IF l = "spindles" THEN -1 ELSE lastSpindle
      /\ crowded' = IF Crowding(l) THEN crowded \cup {l} ELSE crowded \ {l}
      /\ meddled' = (meddled /\ l # "tools")
      /\ unfound' = IF l = "tools" THEN {} ELSE unfound
      /\ UNCHANGED <<host, changes, changed, initialized, lists, columns,
                     combined, adjusting, faults>>
  BY DEF RequestList
<1>2. k \in 1 .. 3 /\ l \in ListNames /\ seqState[l] = "due"
  BY <1>1, NextDue
<1> HIDE DEF k, l
<1>3. /\ seqState' \in [ListNames -> {"ok", "due", "error"}] /\ seqState'[l] = "due"
      /\ \A n \in ListNames : seqState'[n] = "ok" <=> seqState[n] = "ok"
  BY <1>1, <1>2 DEF Retried, TypeInv
<1>4. msg'.list = l /\ msg'.rest = Answer(host, l) /\ msg'.last = -1 /\ MessageInv'
  BY <1>1, <1>2, <1>3, StartedIs
<1> QED
  BY <1>1, <1>2, <1>3, <1>4

LEMMA RequestStatusDoes ==
    ASSUME TypeInv, RequestStatus
    PROVE  /\ seqState' \in [ListNames -> {"ok", "due", "error"}]
           /\ \A n \in ListNames : seqState'[n] = "ok" <=> seqState[n] = "ok"
           /\ currentReqSeq' = 1 /\ initialized' = TRUE /\ initialized' \in BOOLEAN
           /\ msg = NoMessage /\ MessageInv'
           /\ msg'.list = "status" /\ msg'.rest = Answer(host, "status")
           /\ SameTools(tools) /\ spindles' = spindles /\ SameBeds /\ SameChambers
           /\ LayoutIf(~initialized)
           /\ initialized => tools' = tools
           /\ UNCHANGED <<host, changes, changed, lastSpindle, combined, adjusting,
                          faults, unfound, crowded, meddled>>
<1>1. /\ msg = NoMessage
      /\ currentReqSeq' = 1 /\ initialized' = TRUE
      /\ seqState' = Retried(currentReqSeq .. 3)
      /\ msg' = Started("status")
      /\ SeenIf(~initialized, tools, spindles, beds, chambers)
      /\ UNCHANGED <<host, changes, changed, lastSpindle, combined, adjusting,
                     faults, unfound, crowded, meddled>>
  BY DEF RequestStatus, history
<1>2. /\ seqState' \in [ListNames -> {"ok", "due", "error"}]
      /\ \A n \in ListNames : seqState'[n] = "ok" <=> seqState[n] = "ok"
  BY <1>1 DEF Retried, TypeInv
<1>7. initialized' \in BOOLEAN
  BY <1>1, Zenon
<1>3. "status" \notin ListNames
  BY Constants
<1>4. msg'.list = "status" /\ msg'.rest = Answer(host, "status") /\ MessageInv'
  BY <1>1, <1>3, StartedIs
<1>5. /\ initialized \in BOOLEAN /\ tools \in ToolLists /\ spindles \in SpindleLists
      /\ beds \in BedLists /\ chambers \in ChamberLists
  BY DEF TypeInv
<1>6. /\ SameTools(tools) /\ spindles' = spindles /\ SameBeds /\ SameChambers
      /\ LayoutIf(~initialized)
      /\ initialized => tools' = tools
  BY <1>1, <1>5, SeenIfDoes DEF SameBeds, SameChambers
<1> QED
  BY <1>1, <1>2, <1>4, <1>6, <1>7

(* A value set for a tool may create one heater of it.                      *)
LEMMA SetIntDoes ==
    ASSUME TypeInv, SetInt
    PROVE  /\ adjusting # NotAdjusting /\ adjusting' = NotAdjusting
           /\ meddled' = (meddled \/ adjusting.touched = NotAdjusting.touched)
           /\ UNCHANGED <<protocol, initialized, msg, lastSpindle, combined, faults,
                          unfound, crowded>>
           /\ OtherListsSame /\ columns' = columns
           /\ \/ tools' = tools
              \/ LET field == columns[adjusting.slot].field
                 IN  /\ field.kind = "tool" /\ field.index \in DOMAIN tools
                     /\ SlotsKept
                     /\ ToolsBecome(field.index,
                            GetOrCreateHeaters(tools[field.index],
                                               {HeaterPlace(field.index)}))
<1> DEFINE field == columns[adjusting.slot].field
           t == field.index
           x == GetOrCreateHeaters(tools[t], {HeaterPlace(t)})
           all == GetOrCreate(tools, t, NewTool)
<1>1. /\ adjusting # NotAdjusting /\ adjusting' = NotAdjusting
      /\ meddled' = (meddled \/ adjusting.touched = NotAdjusting.touched)
      /\ UNCHANGED <<protocol, initialized, msg, lastSpindle, combined, faults,
                     unfound, crowded>>
  BY DEF SetInt
<1>2. CASE ~(/\ field.kind = "tool" /\ t \in DOMAIN tools
             /\ HeaterPlace(t) \in 0 .. MaxSlots - 1)
  <2>1. UNCHANGED <<lists, columns>>
    BY <1>2 DEF SetInt
  <2> QED
    BY <1>1, <2>1 DEF lists, OtherListsSame
<1>3. CASE /\ field.kind = "tool" /\ t \in DOMAIN tools
           /\ HeaterPlace(t) \in 0 .. MaxSlots - 1
  <2>1. OnlyTools(WithTool(t, LAMBDA tool : GetOrCreateHeaters(tool, {HeaterPlace(t)})))
    BY <1>3 DEF SetInt
  <2>2. t \in ToolIds /\ tools[t] \in Tools /\ OldTool(t) = tools[t]
    BY <1>3, Listed DEF TypeInv, ToolLists, OldTool
  <2>3. x \in Tools /\ x.slot = OldTool(t).slot
    BY <2>2, HeatersCreated
  <2> HIDE DEF t
  <2>4. WithTool(t, LAMBDA tool : GetOrCreateHeaters(tool, {HeaterPlace(t)}))
        = IF t \in DOMAIN all THEN [all EXCEPT ![t] = x] ELSE all
    BY <2>2, ToolFound DEF WithTool
  <2>5. OnlyTools(IF t \in DOMAIN all THEN [all EXCEPT ![t] = x] ELSE all)
    BY <2>1, <2>4
  <2> HIDE DEF x
  <2>6. /\ ToolsBecome(t, x) /\ SlotsKept /\ OtherListsSame /\ columns' = columns
    BY <2>2, <2>3, <2>5, OnlyToolsDo DEF OtherListsSame
  <2> QED
    BY <1>1, <1>3, <2>6 DEF x, t
<1> QED
  BY <1>2, <1>3

LEMMA CombineDoes ==
    ASSUME TypeInv, ChangeHeaterCombineType
    PROVE  /\ adjusting = NotAdjusting /\ combined' = ~combined
           /\ UNCHANGED <<protocol, initialized, msg, lastSpindle, adjusting, history>>
           /\ SameTools(tools) /\ spindles' = spindles /\ SameBeds /\ SameChambers
           /\ LayoutIf(TRUE)
<1>1. /\ adjusting = NotAdjusting /\ combined' = ~combined /\ spindles' = spindles
      /\ UNCHANGED <<protocol, initialized, msg, lastSpindle, adjusting, history>>
      /\ AllToolsSeen(tools, spindles, beds, chambers, ~combined)
  BY DEF ChangeHeaterCombineType
<1>2. /\ tools \in ToolLists /\ spindles \in SpindleLists
      /\ beds \in BedLists /\ chambers \in ChamberLists /\ columns \in [Slots -> Columns]
  BY DEF TypeInv
<1>5. (~combined) \in BOOLEAN
  OBVIOUS
<1>3. /\ SameTools(tools)
      /\ beds' \in BedLists /\ SameHeaters(beds', beds)
      /\ chambers' \in ChamberLists /\ SameHeaters(chambers', chambers)
      /\ columns' \in [Slots -> Columns]
      /\ \A c \in Slots : columns'[c].shown =>
            FieldOf(columns'[c].field, c, tools', spindles, beds, chambers, ~combined)
  BY <1>1, <1>2, <1>5, Seen
<1>6. PlacedAs(tools', spindles, beds', chambers', ~combined, columns')
  BY <1>1, <1>2, <1>5, SeenPlaced
<1>7. \A c \in Slots : columns'[c].shown =>
          FieldOf(columns'[c].field, c, tools', spindles', beds', chambers', combined')
  BY <1>1, <1>3 DEF FieldOf, SameHeaters
<1>4. LaidOut
  BY <1>1, <1>6, <1>7 DEF LaidOut
<1> QED
  BY <1>1, <1>3, <1>4 DEF LayoutIf, SameBeds, SameChambers

LEMMA InitTypes == Init => TypeInv
<1> SUFFICES ASSUME Init PROVE TypeInv
  OBVIOUS
<1> DEFINE none == <<>>
<1>1. {} \in Numbers(ToolIds) /\ {} \in Numbers(SpindleIds)
      /\ {} \in Numbers(BedIds) /\ {} \in Numbers(ChamberIds)
  BY FS_EmptySet, Constants DEF Numbers
<1>2. /\ none \in [{} -> Tools] /\ none \in [{} -> Cells]
      /\ none \in [{} -> BedsOrChambers] /\ IsInjective(none)
  BY DEF IsInjective
<1>3. tools = none /\ spindles = none /\ beds = none /\ chambers = none
  BY DEF Init
<1> HIDE DEF none
<1>4. /\ tools \in ToolLists /\ spindles \in SpindleLists
      /\ beds \in BedLists /\ chambers \in ChamberLists
  BY <1>1, <1>2, <1>3, IsListed DEF ToolLists, SpindleLists, BedLists, ChamberLists
<1>5. columns \in [Slots -> Columns]
  <2> DEFINE x == Thing("none", -1)
             button == [thing |-> x, shown |-> FALSE]
             column == [field |-> x, shown |-> FALSE, button |-> button]
  <2>1. x \in ThingType
    BY ThingIs
  <2>2. columns = [c \in Slots |-> column]
    BY DEF Init
  <2> HIDE DEF x
  <2>3. column \in Columns
    BY <2>1 DEF Columns
  <2> QED
    BY <2>2, <2>3
<1>6. MessageInv /\ AdjustInv
  BY DEF Init, MessageInv, AdjustInv
<1>7. MaxChanges \in Nat /\ MaxFaults \in Nat
  BY ObjectModelAssumption DEF ObjectModelAssumption
<1>8. host \in Machines
  BY ObjectModelAssumption DEF ObjectModelAssumption, Init
<1>9. initialized \in BOOLEAN /\ combined \in BOOLEAN /\ meddled \in BOOLEAN
  BY Zenon DEF Init
<1>10. /\ changes \in 0 .. MaxChanges /\ faults \in 0 .. MaxFaults
       /\ changed \subseteq ListNames
       /\ seqState \in [ListNames -> {"ok", "due", "error"}]
       /\ currentReqSeq \in 1 .. 3
       /\ lastSpindle \in {-1} \cup SpindleIds
       /\ unfound \subseteq ToolIds /\ crowded \subseteq ListNames
  BY <1>7 DEF Init
<1> QED
  BY <1>4, <1>5, <1>6, <1>8, <1>9, <1>10 DEF TypeInv

LEMMA NextTypes == TypeInv /\ [Next]_vars => TypeInv'
<1> SUFFICES ASSUME TypeInv, [Next]_vars PROVE TypeInv'
  OBVIOUS
<1>0. MaxChanges \in Nat /\ MaxFaults \in Nat
  BY ObjectModelAssumption DEF ObjectModelAssumption
<1>1. CASE Reconfigure
  <2>1. host' \in Machines /\ changes' \in 0 .. MaxChanges
    BY <1>0, <1>1 DEF Reconfigure, TypeInv
  <2>2. changed' \subseteq ListNames
    BY <1>1, Constants DEF Reconfigure, TypeInv, Differing
  <2>3. AdjustInv'
    <3>1. CASE adjusting = NotAdjusting
      BY <1>1, <3>1 DEF Reconfigure, Disturbed, AdjustInv
    <3>2. CASE adjusting # NotAdjusting
      BY <1>1, <3>2 DEF Reconfigure, Disturbed, AdjustInv, TypeInv
    <3> QED
      BY <3>1, <3>2
  <2>4. MessageInv'
    BY <1>1 DEF Reconfigure, MessageInv
  <2> QED
    BY <1>1, <2>1, <2>2, <2>3, <2>4 DEF Reconfigure, TypeInv, lists, history
<1>2. CASE RequestList
  <2>1. PICK l \in ListNames :
              /\ seqState' \in [ListNames -> {"ok", "due", "error"}]
              /\ currentReqSeq' \in 1 .. 3
              /\ MessageInv'
              /\ lastSpindle' = IF l = "spindles" THEN -1 ELSE lastSpindle
              /\ crowded' = IF Crowding(l) THEN crowded \cup {l} ELSE crowded \ {l}
              /\ meddled' = (meddled /\ l # "tools")
              /\ unfound' = IF l = "tools" THEN {} ELSE unfound
              /\ UNCHANGED <<host, changes, changed, initialized, lists, columns,
                             combined, adjusting, faults>>
    BY <1>2, RequestListDoes
  <2>2. AdjustInv'
    BY <2>1 DEF AdjustInv, TypeInv
  <2>3. meddled' \in BOOLEAN
    BY <2>1, Zenon
  <2>4. /\ crowded' \subseteq ListNames /\ unfound' \subseteq ToolIds
        /\ lastSpindle' \in {-1} \cup SpindleIds
    BY <2>1 DEF TypeInv
  <2> QED
    BY <2>1, <2>2, <2>3, <2>4 DEF TypeInv, lists
<1>3. CASE RequestStatus
  <2>1. AdjustInv'
    BY <1>3, RequestStatusDoes DEF AdjustInv, TypeInv
  <2>2. /\ tools' \in ToolLists /\ spindles' = spindles
        /\ beds' \in BedLists /\ chambers' \in ChamberLists
        /\ columns' \in [Slots -> Columns]
    BY <1>3, RequestStatusDoes DEF LayoutIf, SameTools, SameBeds, SameChambers
  <2>3. /\ seqState' \in [ListNames -> {"ok", "due", "error"}]
        /\ currentReqSeq' \in 1 .. 3 /\ MessageInv'
        /\ UNCHANGED <<host, changes, changed, lastSpindle, combined, faults,
                       unfound, crowded, meddled>>
    BY <1>3, RequestStatusDoes
  <2>4. initialized' \in BOOLEAN
    BY <1>3, RequestStatusDoes, Zenon
  <2> QED
    BY <2>1, <2>2, <2>3, <2>4 DEF TypeInv
<1>4. CASE RequestTimeout
  <2>1. MessageInv'
    BY <1>4, StartedIs, Constants DEF RequestTimeout, protocol
  <2>2. AdjustInv'
    BY <1>4 DEF RequestTimeout, AdjustInv, TypeInv
  <2>3. faults' \in 0 .. MaxFaults
    BY <1>0, <1>4 DEF RequestTimeout, Fault, TypeInv
  <2> QED
    BY <1>4, <2>1, <2>2, <2>3 DEF RequestTimeout, TypeInv, lists, protocol
<1>5. CASE Reconnect
  <2>1. seqState' = [l \in ListNames |-> "due"]
    BY <1>5 DEF Reconnect
  <2>2. MessageInv'
    BY <1>5, <2>1 DEF Reconnect, MessageInv, TypeInv
  <2>3. AdjustInv'
    BY <1>5 DEF Reconnect, AdjustInv
  <2>4. faults' \in 0 .. MaxFaults
    BY <1>0, <1>5 DEF Reconnect, Fault, TypeInv
  <2> QED
    BY <1>5, <2>1, <2>2, <2>3, <2>4 DEF Reconnect, TypeInv, lists
<1>6. CASE CutShort
  <2>1. MessageInv'
    BY <1>6 DEF CutShort, MessageInv
  <2>2. AdjustInv'
    BY <1>6 DEF CutShort, AdjustInv, TypeInv
  <2>3. faults' \in 0 .. MaxFaults
    BY <1>0, <1>6 DEF CutShort, Fault, TypeInv
  <2> QED
    BY <1>6, <2>1, <2>2, <2>3 DEF CutShort, TypeInv, lists
<1>7. CASE EndReceivedMessage
  <2>1. MessageInv'
    BY <1>7 DEF EndReceivedMessage, MessageInv
  <2>2. AdjustInv'
    BY <1>7 DEF EndReceivedMessage, AdjustInv, TypeInv
  <2> QED
    BY <1>7, <2>1, <2>2 DEF EndReceivedMessage, TypeInv, lists, history
<1>8. CASE Receive
  BY <1>8, ReceiveIs, ReceiveTypes
<1>9. CASE Adjust
  <2>1. AdjustInv'
    BY <1>9 DEF Adjust, AdjustInv
  <2>2. MessageInv'
    BY <1>9 DEF Adjust, MessageInv, TypeInv, protocol
  <2> QED
    BY <1>9, <2>1, <2>2 DEF Adjust, TypeInv, lists, history, protocol
<1>10. CASE SetInt
  <2>1. AdjustInv'
    BY <1>10, SetIntDoes DEF AdjustInv
  <2>2. MessageInv'
    BY <1>10, SetIntDoes DEF MessageInv, TypeInv, protocol
  <2>3. tools' \in ToolLists
    BY <1>10, SetIntDoes DEF ToolsBecome, TypeInv
  <2> QED
    BY <1>10, <2>1, <2>2, <2>3, SetIntDoes DEF TypeInv, OtherListsSame, protocol
<1>11. CASE PopupsCleared
  <2>1. AdjustInv'
    BY <1>11 DEF PopupsCleared, AdjustInv
  <2>2. MessageInv'
    BY <1>11 DEF PopupsCleared, MessageInv, TypeInv, protocol
  <2> QED
    BY <1>11, <2>1, <2>2 DEF PopupsCleared, TypeInv, lists, history, protocol
<1>12. CASE ChangeHeaterCombineType
  <2>1. AdjustInv'
    BY <1>12, CombineDoes DEF AdjustInv, TypeInv
  <2>2. MessageInv'
    BY <1>12, CombineDoes DEF MessageInv, TypeInv, protocol
  <2> QED
    BY <1>12, <2>1, <2>2, CombineDoes
       DEF TypeInv, LayoutIf, SameTools, SameBeds, SameChambers, history, protocol
<1>13. CASE UNCHANGED vars
  BY <1>13 DEF vars, protocol, lists, history, TypeInv, MessageInv, AdjustInv
<1> QED
  BY <1>1, <1>2, <1>3, <1>4, <1>5, <1>6, <1>7, <1>8, <1>9, <1>10, <1>11, <1>12, <1>13
     DEF Next, Step, Poll, User

LEMMA TypesKept == Spec => []TypeInv
BY InitTypes, NextTypes, PTL DEF Spec

LEMMA InUseIs ==
    /\ InUse \subseteq {"tools", "spindles", "beds", "chambers"}
    /\ "tools" \in InUse <=> DOMAIN tools # {}
    /\ "spindles" \in InUse <=> DOMAIN spindles # {}
    /\ "beds" \in InUse <=> DOMAIN beds # {}
    /\ "chambers" \in InUse <=> DOMAIN chambers # {}
BY DEF InUse, Nonempty

LEMMA InitUsed == Init => UsedInv
<1> SUFFICES ASSUME Init PROVE UsedInv
  OBVIOUS
<1>1. /\ DOMAIN tools = {} /\ DOMAIN spindles = {}
      /\ DOMAIN beds = {} /\ DOMAIN chambers = {}
  BY DEF Init
<1>2. InUse = {} /\ used = {}
  BY <1>1, InUseIs DEF Init
<1> QED
  BY <1>2 DEF UsedInv

LEMMA NextUsed == UsedInv /\ [Next]_vars => UsedInv'
<1> SUFFICES ASSUME UsedInv, [Next]_vars PROVE UsedInv'
  OBVIOUS
<1>1. InUse' \subseteq DOMAIN EndOf
  BY DEF InUse, Nonempty, EndOf
<1>2. CASE Next
  BY <1>1, <1>2 DEF Next, UsedInv
<1>3. CASE UNCHANGED vars
  <2>1. used' = used /\ InUse' = InUse
    BY <1>3 DEF vars, lists, InUse
  <2> QED
    BY <2>1 DEF UsedInv
<1> QED
  BY <1>2, <1>3

LEMMA UsedKept == Spec => []UsedInv
BY InitUsed, NextUsed, PTL DEF Spec

(* The lists have their types: numbers and heaters of machines, no more     *)
(* objects than there is room for, and no two spindles in one cell; and the *)
(* columns and the popup do.                                                *)
THEOREM TypeCorrect == Spec => []TypeOK
BY TypesKept, UsedKept, TypesHold, PTL
=============================================================================
