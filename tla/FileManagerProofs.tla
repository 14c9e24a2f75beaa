-------------------------- MODULE FileManagerProofs --------------------------
(***************************************************************************)
(* Proofs about FileManager for any directories, any capacity and rows and  *)
(* any number of cards: type correctness, and that whatever the user does   *)
(* while a listing arrives, a listing goes into a free list, a popup shows  *)
(* the listing of its path from an offset inside it, a button leads to a    *)
(* name on show, a command names the file the user pressed, and a list that *)
(* is not on show is waited for.                                            *)
(***************************************************************************)
EXTENDS FileManager, FiniteSetTheorems, SequenceTheorems, TLAPS

-----------------------------------------------------------------------------
(* Rows *)

\* A number is so many rows and a rest that is less than a row.
LEMMA RowsAndRest ==
    ASSUME NEW x \in Int, NEW n \in Nat \ {0}
    PROVE  /\ x \div n \in Int
           /\ x = n * (x \div n) + (x % n)
           /\ x % n \in 0 .. n - 1
  BY SMTT(20)

LEMMA WholeRows ==
    ASSUME NEW k \in Int, NEW n \in Nat \ {0}
    PROVE  (k * n) % n = 0
  BY SMTT(20)

\* A step of one row up or down keeps an offset at the start of a row.
LEMMA RowStep ==
    ASSUME NEW x \in Int, NEW n \in Nat \ {0}, x % n = 0
    PROVE  (x + n) % n = 0 /\ (x - n) % n = 0
<1> DEFINE q == x \div n
<1>1. q \in Int /\ x = n * q
  BY RowsAndRest
<1> HIDE DEF q
<1>2. q + 1 \in Int /\ q - 1 \in Int
  BY <1>1
<1>3. x + n = (q + 1) * n /\ x - n = (q - 1) * n
  BY <1>1, SMTT(20)
<1> QED
  BY <1>2, <1>3, WholeRows

\* The offset of the last page: the start of the row of the last name.
LEMMA LastPage ==
    ASSUME NEW size \in Nat \ {0}, NEW n \in Nat \ {0}
    PROVE  LET o == ((size - 1) \div n) * n
           IN  o \in 0 .. size - 1 /\ o % n = 0
<1> DEFINE q == (size - 1) \div n
           r == (size - 1) % n
<1>0. size - 1 \in Int
  OBVIOUS
<1>1. q \in Int /\ size - 1 = n * q + r /\ r \in 0 .. n - 1
  BY <1>0, RowsAndRest, Zenon
<1> HIDE DEF q, r
<1>2. n * q > -n
  BY <1>1
<1>3. q >= 0
  BY <1>1, <1>2, SMTT(20)
<1>4. n * q >= 0
  BY <1>1, <1>3, SMTT(20)
<1>5. n * q = q * n
  BY <1>1, SMTT(20)
<1>6. q * n \in Int
  BY <1>1
<1>7. q * n \in 0 .. size - 1
  BY <1>1, <1>4, <1>5, <1>6
<1>8. (q * n) % n = 0
  BY <1>1, WholeRows
<1> QED
  BY <1>7, <1>8 DEF q

-----------------------------------------------------------------------------
(* The stack of popups *)

Distinct(s) == \A i, j \in 1 .. Len(s) : s[i] = s[j] => i = j

(* A popup is on display once, and the details of a file only on top of     *)
(* the list the file was chosen from.                                       *)
DetailOverList(s) ==
    \A i \in 1 .. Len(s) :
        s[i] = "fileDetail" => i > 1 /\ s[i - 1] = "fileList"

Ordered(s) == Distinct(s) /\ DetailOverList(s)

\* What is put up goes on top, if it was not on display before.
LEMMA PutUp ==
    ASSUME NEW S, NEW s \in Seq(S), NEW p \in S, Ordered(s),
           p = "fileDetail" => OnTop(s, "fileList")
    PROVE  /\ SetPopup(s, p) \in Seq(S)
           /\ Ordered(SetPopup(s, p))
           /\ \A q : IsPopupActive(SetPopup(s, p), q) =>
                        q = p \/ IsPopupActive(s, q)
<1>1. CASE IsPopupActive(s, p)
  BY <1>1 DEF SetPopup
<1>2. CASE ~IsPopupActive(s, p)
  <2>1. SetPopup(s, p) = Append(s, p)
    BY <1>2 DEF SetPopup
  <2>2. /\ Append(s, p) \in Seq(S)
        /\ Len(s) \in Nat
        /\ Len(Append(s, p)) = Len(s) + 1
        /\ \A i \in 1 .. Len(s) : Append(s, p)[i] = s[i]
        /\ Append(s, p)[Len(s) + 1] = p
    BY AppendProperties
  <2>3. Distinct(Append(s, p))
    BY <2>2, <1>2 DEF Ordered, Distinct, IsPopupActive
  <2>4. s = <<>> \/ Len(s) > 0
    BY EmptySeq
  <2>5. DetailOverList(Append(s, p))
    <3> SUFFICES ASSUME NEW i \in 1 .. Len(s) + 1,
                        Append(s, p)[i] = "fileDetail"
                 PROVE  i > 1 /\ Append(s, p)[i - 1] = "fileList"
      BY <2>2 DEF DetailOverList
    <3>1. CASE i \in 1 .. Len(s)
      BY <3>1, <2>2 DEF Ordered, DetailOverList
    <3>2. CASE i = Len(s) + 1
      BY <3>2, <2>2, <2>4 DEF OnTop
    <3> QED
      BY <3>1, <3>2, <2>2
  <2> QED
    BY <2>1, <2>2, <2>3, <2>5 DEF Ordered, IsPopupActive
<1> QED
  BY <1>1, <1>2

\* What goes away is on top; the others stay as they were.
LEMMA TakeAway ==
    ASSUME NEW S, NEW s \in Seq(S), Ordered(s)
    PROVE  /\ ClearPopup(s) \in Seq(S)
           /\ Ordered(ClearPopup(s))
           /\ \A q : IsPopupActive(ClearPopup(s), q) => IsPopupActive(s, q)
<1>1. CASE s = <<>>
  BY <1>1 DEF ClearPopup
<1>2. CASE s # <<>>
  <2> DEFINE t == SubSeq(s, 1, Len(s) - 1)
  <2>1. Len(s) \in Nat \ {0}
    BY <1>2, EmptySeq, LenProperties
  <2>2. \A i \in 1 .. Len(s) : s[i] \in S
    BY ElementOfSeq
  <2>3. /\ t \in Seq(S)
        /\ Len(t) = Len(s) - 1
        /\ \A i \in 1 .. Len(s) - 1 : t[i] = s[i]
    <3>1. 1 \in Int /\ Len(s) - 1 \in Int /\ \A i \in 1 .. Len(s) - 1 : s[i] \in S
      BY <2>1, <2>2
    <3>2. /\ t \in Seq(S)
          /\ Len(t) = IF 1 <= Len(s) - 1 THEN Len(s) - 1 - 1 + 1 ELSE 0
          /\ \A i \in 1 .. Len(s) - 1 - 1 + 1 : t[i] = s[1 + i - 1]
      BY <3>1, SubSeqProperties
    <3> HIDE DEF t
    <3>3. Len(t) = Len(s) - 1 /\ Len(s) - 1 - 1 + 1 = Len(s) - 1
      <4>1. ASSUME NEW n \in Nat \ {0}
            PROVE  (IF 1 <= n - 1 THEN n - 1 - 1 + 1 ELSE 0) = n - 1
                   /\ n - 1 - 1 + 1 = n - 1
        OBVIOUS
      <4> QED
        BY <2>1, <3>2, <4>1
    <3>4. ASSUME NEW i \in 1 .. Len(s) - 1 PROVE t[i] = s[i]
      <4>1. 1 + i - 1 = i
        OBVIOUS
      <4> QED
        BY <3>2, <3>3, <4>1
    <3> QED
      BY <3>2, <3>3, <3>4
  <2>4. ClearPopup(s) = t
    BY <1>2 DEF ClearPopup
  <2> HIDE DEF t
  <2>5. Ordered(t)
    <3>1. \A i \in 1 .. Len(t) : i \in 1 .. Len(s) /\ t[i] = s[i]
      BY <2>1, <2>3
    <3>2. Distinct(t)
      BY <3>1 DEF Ordered, Distinct
    <3>3. \A i \in 1 .. Len(t) : i > 1 => i - 1 \in 1 .. Len(t)
      BY <2>1, <2>3
    <3>4. DetailOverList(t)
      BY <3>1, <3>3 DEF Ordered, DetailOverList
    <3> QED
      BY <3>2, <3>4 DEF Ordered
  <2> QED
    BY <2>1, <2>3, <2>4, <2>5 DEF IsPopupActive
<1> QED
  BY <1>1, <1>2

\* While the list of files takes the touches no details are displayed.
LEMMA NoDetailUnderList ==
    ASSUME NEW S, NEW s \in Seq(S), Ordered(s), OnTop(s, "fileList")
    PROVE  ~IsPopupActive(s, "fileDetail")
<1> SUFFICES ASSUME NEW i \in 1 .. Len(s), s[i] = "fileDetail"
             PROVE  FALSE
  BY DEF IsPopupActive
<1>1. Len(s) \in Nat
  BY LenProperties
<1>2. i - 1 \in 1 .. Len(s) /\ Len(s) \in 1 .. Len(s) /\ s[i - 1] = s[Len(s)]
  BY <1>1 DEF Ordered, DetailOverList, OnTop
<1>3. i - 1 = Len(s)
  BY <1>2 DEF Ordered, Distinct
<1> QED
  BY <1>1, <1>3

-----------------------------------------------------------------------------
(* Types *)

Stages == {"dir", "files", "more", "err", "end"}

(* The message being received is one of the printer's.                      *)
MsgOK ==
    \/ msg = NoMessage
    \/ msg \in [stage : Stages, dir : Paths, left : SUBSET File]

(* What a list holds fits in it.                                            *)
ListsFit ==
    \A l \in Lists : /\ IsFiniteSet(fileLists[l])
                     /\ Cardinality(fileLists[l]) <= Capacity

Inv == TypeOK /\ MsgOK /\ ListsFit /\ Ordered(stack)

\* What holds of a list of at most Capacity names holds when one more came.
LEMMA OneMore ==
    ASSUME NEW files, IsFiniteSet(files), Cardinality(files) <= Capacity,
           NEW file
    PROVE  /\ IsFiniteSet(Received(files, file))
           /\ Cardinality(Received(files, file)) <= Capacity
<1>1. Cardinality(files) \in Nat /\ Capacity \in Nat
  BY FS_CardinalityType, FileAssumption
<1>2. CASE Cardinality(files) < Capacity
  <2>1. Received(files, file) = files \cup {file}
    BY <1>2 DEF Received
  <2>2. /\ IsFiniteSet(files \cup {file})
        /\ Cardinality(files \cup {file}) \in
              {Cardinality(files), Cardinality(files) + 1}
    BY FS_AddElement
  <2> QED
    BY <1>1, <1>2, <2>1, <2>2
<1>3. CASE ~(Cardinality(files) < Capacity)
  BY <1>3 DEF Received
<1> QED
  BY <1>2, <1>3

\* An empty list fits.
LEMMA EmptyFits == IsFiniteSet({}) /\ Cardinality({}) <= Capacity
<1>1. IsFiniteSet({}) /\ Cardinality({}) = 0
  BY FS_EmptySet
<1> QED
  BY <1>1, FileAssumption

\* A path is a card and names; its parts are paths.
LEMMA PathType ==
    ASSUME NEW card \in 0 .. 9, NEW names \in Seq(Names)
    PROVE  Path(card, names) \in Paths
  BY DEF Path, Paths

LEMMA PathParts ==
    ASSUME NEW path \in Paths
    PROVE  /\ path.card \in 0 .. 9
           /\ path.names \in Seq(Names)
           /\ Parent(path) \in Paths
           /\ \A name \in Names : Child(path, name) \in Paths
<1>1. path.card \in 0 .. 9 /\ path.names \in Seq(Names)
  BY DEF Paths
<1>2. ClearPopup(path.names) \in Seq(Names)
  <2>1. CASE path.names = <<>>
    BY <2>1, <1>1 DEF ClearPopup
  <2>2. CASE path.names # <<>>
    <3>1. Len(path.names) \in Nat \ {0}
      BY <2>2, <1>1, EmptySeq
    <3>2. \A i \in 1 .. Len(path.names) : path.names[i] \in Names
      BY <1>1, ElementOfSeq
    <3>3. SubSeq(path.names, 1, Len(path.names) - 1) \in Seq(Names)
      BY <3>1, <3>2, SubSeqProperties
    <3> QED
      BY <3>3, <2>2 DEF ClearPopup
  <2> QED
    BY <2>1, <2>2
<1>3. \A name \in Names : Append(path.names, name) \in Seq(Names)
  BY <1>1, AppendProperties
<1>4. Parent(path) \in Paths
  BY <1>2 DEF Parent, Paths
<1>5. \A name \in Names : Child(path, name) \in Paths
  BY <1>3 DEF Child, Paths
<1> QED
  BY <1>1, <1>4, <1>5

\* The roots that are asked for.
LEMMA RootTypes ==
    /\ Path(0, <<>>) \in Paths
    /\ Path(0, <<Gcodes>>) \in Paths
    /\ MacrosRoot \in Paths
    /\ \A c \in 0 .. NumVolumes - 1 :
          SetupRootPath(c) \in Paths /\ RootPath(c) \in Paths
<1>1. /\ Gcodes \in Names /\ Macros \in Names
      /\ NumVolumes \in 1 .. 10
  BY FileAssumption
<1>2. <<>> \in Seq(Names) /\ <<Gcodes>> \in Seq(Names) /\ <<Macros>> \in Seq(Names)
  BY <1>1
<1>3. \A c \in 0 .. 9 : /\ Path(c, <<>>) \in Paths
                        /\ Path(c, <<Gcodes>>) \in Paths
                        /\ Path(c, <<Macros>>) \in Paths
  BY <1>2, PathType
<1>4. ASSUME NEW c \in 0 .. NumVolumes - 1
      PROVE  SetupRootPath(c) \in Paths /\ RootPath(c) \in Paths
  <2>1. c \in 0 .. 9
    BY <1>1
  <2> QED
    BY <2>1, <1>3 DEF SetupRootPath, RootPath
<1> QED
  BY <1>3, <1>4 DEF MacrosRoot

\* The next card is a card.
LEMMA NextCardType ==
    ASSUME TypeOK
    PROVE  NextCardNumber \in 0 .. NumVolumes - 1
<1>1. fs["gcode"].cardNumber \in Int
  BY DEF TypeOK, Sets, FileSet
<1>2. NumVolumes \in Nat \ {0}
  BY FileAssumption
<1>3. fs["gcode"].cardNumber + 1 \in Int
  BY <1>1
<1> QED
  BY <1>2, <1>3, RowsAndRest DEF NextCardNumber

\* The printer's names are names, of files in the directory listed.
LEMMA ListingType ==
    ASSUME NEW path \in Paths
    PROVE  /\ ListingOf(path) \subseteq File
           /\ \A g \in ListingOf(path) : g.dir = path
  BY FileAssumption DEF ListingOf, Named, File

\* What a set is while its popup is updated, and what it is afterwards.
LEMMA ScrolledType ==
    ASSUME Inv, NEW f \in FileSet
    PROVE  /\ Scrolled(f) \in FileSet
           /\ Scrolled(f).requestedPath = f.requestedPath
           /\ Scrolled(f).currentPath = f.currentPath
           /\ Scrolled(f).timer = f.timer
           /\ Scrolled(f).whichList = f.whichList
           /\ Scrolled(f).cardNumber = f.cardNumber
           /\ f.whichList = None => Scrolled(f).scrollOffset = f.scrollOffset
           /\ f.whichList # None =>
                 Scrolled(f).scrollOffset =
                    SensibleOffset(f.scrollOffset, Cardinality(Contents(f)))
<1>1. CASE f.whichList = None
  BY <1>1 DEF Scrolled
<1>2. CASE f.whichList # None
  <2> DEFINE offset == SensibleOffset(f.scrollOffset, Cardinality(Contents(f)))
  <2>1. f.whichList \in Lists /\ f.scrollOffset \in Int
    BY <1>2 DEF FileSet
  <2>2. Cardinality(Contents(f)) \in Nat
    BY <2>1, FS_CardinalityType DEF Inv, ListsFit, Contents
  <2>3. Rows \in Nat \ {0}
    BY FileAssumption
  <2>4. offset \in Int
    <3>1. (Cardinality(Contents(f)) - 1) \in Int
      BY <2>2
    <3>2. ((Cardinality(Contents(f)) - 1) \div Rows) \in Int
      BY <3>1, <2>3, RowsAndRest
    <3>3. ((Cardinality(Contents(f)) - 1) \div Rows) * Rows \in Int
      BY <3>2, <2>3
    <3> QED
      BY <3>3, <2>1 DEF SensibleOffset
  <2>5. Scrolled(f) = [f EXCEPT !.scrollOffset = offset]
    BY <1>2 DEF Scrolled
  <2> HIDE DEF offset
  <2>6. /\ Scrolled(f) \in FileSet
        /\ Scrolled(f).requestedPath = f.requestedPath
        /\ Scrolled(f).currentPath = f.currentPath
        /\ Scrolled(f).timer = f.timer
        /\ Scrolled(f).whichList = f.whichList
        /\ Scrolled(f).cardNumber = f.cardNumber
        /\ Scrolled(f).scrollOffset = offset
    BY <2>4, <2>5 DEF FileSet
  <2> QED
    BY <2>6, <1>2 DEF offset
<1> QED
  BY <1>1, <1>2

\* The changes of a set that a handler makes before its popup is updated.
LEMMA ChangedSets ==
    ASSUME Inv, NEW f \in FileSet
    PROVE  /\ Pending(f) \in FileSet
           /\ Sent(f) \in FileSet
           /\ Reloaded(f) \in FileSet
           /\ \A path \in Paths : Awaiting(f, path) \in FileSet
           /\ \A i \in Int : [f EXCEPT !.scrollOffset = i] \in FileSet
<1>1. Pending(f) \in FileSet /\ Sent(f) \in FileSet
  BY DEF Pending, Sent, FileSet
<1>2. Reloaded(f) \in FileSet
  BY DEF Reloaded, FileSet, Inv, TypeOK
<1>3. \A path \in Paths : Awaiting(f, path) \in FileSet
  BY DEF Awaiting, Pending, FileSet
<1> QED
  BY <1>1, <1>2, <1>3 DEF FileSet

LEMMA ChangedParts ==
    ASSUME Inv, NEW f \in FileSet
    PROVE  /\ \A g \in {Pending(f), Sent(f)} :
                 /\ g.whichList = f.whichList /\ g.currentPath = f.currentPath
                 /\ g.scrollOffset = f.scrollOffset
           /\ Pending(f).timer = "ready" /\ Sent(f).timer = "running"
           /\ Reloaded(f).whichList =
                 IF errorCode THEN None ELSE newFileList
           /\ Reloaded(f).currentPath =
                 IF errorCode THEN f.currentPath ELSE fileDirectoryName
           /\ Reloaded(f).scrollOffset = f.scrollOffset
           /\ \A path : /\ Awaiting(f, path).whichList = None
                        /\ Awaiting(f, path).timer = "ready"
                        /\ Awaiting(f, path).scrollOffset = f.scrollOffset
           /\ \A i : LET g == [f EXCEPT !.scrollOffset = i]
                     IN  /\ g.whichList = f.whichList
                         /\ g.currentPath = f.currentPath
                         /\ g.timer = f.timer
                         /\ g.scrollOffset = i
  BY DEF Pending, Sent, Reloaded, Awaiting, FileSet

\* What the popup of a set shows afterwards: its navigation buttons, and a
\* button only for a name of the list it displays.
LEMMA UpdatedPopup ==
    ASSUME Inv, NEW s \in Sets, NEW f \in FileSet, FileListUpdated(s, f)
    PROVE  /\ fs' = [fs EXCEPT ![s] = Scrolled(f)]
           /\ fs' \in [Sets -> FileSet]
           /\ buttons' \in [Sets -> SUBSET Pointer]
           /\ nav' \in [Sets -> [left : BOOLEAN, right : BOOLEAN, up : BOOLEAN]]
           /\ \A r \in Sets \ {s} : buttons'[r] = buttons[r]
           /\ \A b \in buttons'[s] :
                 /\ f.whichList # None
                 /\ b.list = f.whichList
                 /\ b.file \in fileLists[f.whichList]
           /\ \/ f.whichList # None /\ stack' = stack
              \/ f.whichList = None /\ stack' = SetPopup(stack, PopupOf(s))
<1>1. /\ fs' = [fs EXCEPT ![s] = Scrolled(f)]
      /\ fs' \in [Sets -> FileSet]
  BY ScrolledType DEF FileListUpdated, Inv, TypeOK
<1>2. CASE f.whichList = None
  BY <1>1, <1>2 DEF FileListUpdated, Inv, TypeOK
<1>3. CASE f.whichList # None
  <2>1. /\ buttons' = [buttons EXCEPT ![s] = OnShow(s, Scrolled(f))]
        /\ nav' = [nav EXCEPT ![s] = NavOf(s, Scrolled(f))]
        /\ stack' = stack
    BY <1>3 DEF FileListUpdated
  <2>2. /\ f.whichList \in Lists
        /\ Scrolled(f).whichList = f.whichList
        /\ Contents(Scrolled(f)) = fileLists[f.whichList]
        /\ fileLists[f.whichList] \subseteq File
    BY <1>3, ScrolledType DEF Contents, FileSet, Inv, TypeOK
  <2>3. \A b \in OnShow(s, Scrolled(f)) :
           /\ b \in Pointer
           /\ b.list = f.whichList
           /\ b.file \in fileLists[f.whichList]
    BY <2>2 DEF OnShow, Pointer
  <2>4. NavOf(s, Scrolled(f)) \in [left : BOOLEAN, right : BOOLEAN, up : BOOLEAN]
    BY DEF NavOf, IsInSubdir
  <2>5. OnShow(s, Scrolled(f)) \subseteq Pointer
    BY <2>3
  <2> HIDE DEF Inv
  <2>6. buttons \in [Sets -> SUBSET Pointer]
        /\ nav \in [Sets -> [left : BOOLEAN, right : BOOLEAN, up : BOOLEAN]]
    BY DEF Inv, TypeOK
  <2>7. buttons' \in [Sets -> SUBSET Pointer] /\ buttons'[s] = OnShow(s, Scrolled(f))
    BY <2>1, <2>5, <2>6
  <2>8. nav' \in [Sets -> [left : BOOLEAN, right : BOOLEAN, up : BOOLEAN]]
    BY <2>1, <2>4, <2>6
  <2>9. \A r \in Sets \ {s} : buttons'[r] = buttons[r]
    BY <2>1, <2>6
  <2> QED
    BY <1>1, <1>3, <2>1, <2>3, <2>7, <2>8, <2>9
<1> QED
  BY <1>2, <1>3

Popups == {"fileList", "macros", "fileDetail", "areYouSure", "alert"}

\* The stack afterwards, with a set's popup put up or not.
LEMMA StackKept ==
    ASSUME Inv, NEW s \in Sets,
           stack' = stack \/ stack' = SetPopup(stack, PopupOf(s))
    PROVE  /\ stack' \in Seq(Popups)
           /\ Ordered(stack')
           /\ \A q : IsPopupActive(stack', q) =>
                        q = PopupOf(s) \/ IsPopupActive(stack, q)
<1>1. stack \in Seq(Popups) /\ Ordered(stack)
  BY DEF Inv, TypeOK, Popups
<1>2. PopupOf(s) \in Popups /\ PopupOf(s) # "fileDetail"
  BY DEF PopupOf, Popups
<1> QED
  BY <1>1, <1>2, PutUp

-----------------------------------------------------------------------------
(* Every step keeps the types and the order of the popups *)

LEMMA InitInv == Init => Inv
<1> SUFFICES ASSUME Init PROVE Inv
  OBVIOUS
<1>1. NumVolumes \in 1 .. 10
  BY FileAssumption
<1>2. /\ InitialSet(Path(0, <<Gcodes>>)) \in FileSet
      /\ InitialSet(MacrosRoot) \in FileSet
  BY <1>1, RootTypes DEF InitialSet, FileSet
<1>3. TypeOK
  <2>1. fs \in [Sets -> FileSet]
    BY <1>2 DEF Init, Sets
  <2>2. /\ stack \in Seq({"fileList", "macros", "fileDetail", "areYouSure",
                         "alert"})
        /\ wire \in Seq(Paths)
        /\ fileDirectoryName \in Paths
    BY RootTypes DEF Init, NoPopups
  <2>3. /\ fileLists \in [Lists -> SUBSET File]
        /\ newFileList \in {None} \cup Lists
        /\ buttons \in [Sets -> SUBSET Pointer]
        /\ errorField \in [Sets -> BOOLEAN]
        /\ nav \in [Sets -> [left : BOOLEAN, right : BOOLEAN, up : BOOLEAN]]
        /\ currentFile \in Pointer \cup {NoFile}
    BY DEF Init
  <2> QED
    BY <2>1, <2>2, <2>3 DEF Init, TypeOK
<1>4. MsgOK /\ ListsFit /\ Ordered(stack)
  BY EmptyFits DEF Init, MsgOK, ListsFit, Ordered, Distinct, DetailOverList,
     NoPopups
<1> QED
  BY <1>3, <1>4 DEF Inv

\* A list that no set displays is found.
LEMMA FreeListIsFree ==
    ASSUME Inv
    PROVE  /\ FreeList \in Lists
           /\ \A s \in Sets : fs[s].whichList # FreeList
<1> DEFINE P(l) == /\ \A s \in Sets : fs[s].whichList # l
                   /\ \A k \in 0 .. l - 1 : \E s \in Sets : fs[s].whichList = k
<1>1. \A s \in Sets : fs[s].whichList \in {-1, 0, 1, 2}
  BY DEF Inv, TypeOK, FileSet, Lists, None
<1>2. \E l \in Lists : P(l)
  <2>1. CASE \A s \in Sets : fs[s].whichList # 0
    BY <2>1 DEF Lists
  <2>2. CASE (\E s \in Sets : fs[s].whichList = 0)
             /\ \A s \in Sets : fs[s].whichList # 1
    <3>1. P(1)
      BY <2>2
    <3> QED
      BY <3>1 DEF Lists
  <2>3. CASE /\ \E s \in Sets : fs[s].whichList = 0
             /\ \E s \in Sets : fs[s].whichList = 1
    <3>1. P(2)
      BY <2>3 DEF Sets
    <3> QED
      BY <3>1 DEF Lists
  <2> QED
    BY <2>1, <2>2, <2>3
<1>3. FreeList = CHOOSE l \in Lists : P(l)
  BY DEF FreeList
<1> HIDE DEF P
<1>4. FreeList \in Lists /\ P(FreeList)
  BY <1>2, <1>3
<1> QED
  BY <1>4 DEF P

\* A list gets nothing but names of the message's directory.
LEMMA ReceivedType ==
    ASSUME NEW files \in SUBSET File, NEW file \in File
    PROVE  /\ Received(files, file) \in SUBSET File
           /\ Received({}, file) \in SUBSET File
  BY DEF Received

\* A message in one of its stages is a message.
LEMMA MessageType ==
    ASSUME Inv, msg.stage \in Stages
    PROVE  msg \in [stage : Stages, dir : Paths, left : SUBSET File]
<1>1. NoMessage.stage = "none"
  BY DEF NoMessage
<1>2. msg # NoMessage
  BY <1>1 DEF Stages
<1> QED
  BY <1>2 DEF Inv, MsgOK

\* What the printer answers is received as it is sent.
LEMMA ReceiveInv ==
    ASSUME Inv, \/ StartMessage \/ ReceiveDirectoryName
                \/ BeginReceivingFiles \/ ReceiveFile \/ ReceiveErrorCode
    PROVE  Inv'
<1> USE DEF messageVars, display, userVars
<1>1. CASE StartMessage
  <2>1. wire[1] \in Paths /\ Tail(wire) \in Seq(Paths)
    BY <1>1, HeadTailProperties, EmptySeq, ElementOfSeq
       DEF StartMessage, Inv, TypeOK
  <2>2. MsgOK'
    BY <1>1, <2>1, ListingType DEF StartMessage, MsgOK, Stages
  <2>3. TypeOK'
    BY <1>1, <2>1, RootTypes DEF StartMessage, Inv, TypeOK
  <2>4. ListsFit' /\ Ordered(stack)'
    BY <1>1 DEF StartMessage, Inv, ListsFit
  <2> QED
    BY <2>2, <2>3, <2>4 DEF Inv
<1>2. CASE ReceiveDirectoryName
  <2>1. msg \in [stage : Stages, dir : Paths, left : SUBSET File]
    <3>1. msg.stage \in Stages
      BY <1>2 DEF ReceiveDirectoryName, Stages
    <3> QED
      BY <3>1, MessageType
  <2>2. MsgOK' /\ msg.dir \in Paths
    BY <1>2, <2>1 DEF ReceiveDirectoryName, MsgOK, Stages
  <2>3. TypeOK'
    BY <1>2, <2>2 DEF ReceiveDirectoryName, Inv, TypeOK
  <2>4. ListsFit' /\ Ordered(stack)'
    BY <1>2 DEF ReceiveDirectoryName, Inv, ListsFit
  <2> QED
    BY <2>2, <2>3, <2>4 DEF Inv
<1>3. CASE BeginReceivingFiles
  <2>1. msg \in [stage : Stages, dir : Paths, left : SUBSET File]
    <3>1. msg.stage \in Stages
      BY <1>3 DEF BeginReceivingFiles, ReceiveNoFiles, ReceiveFirstFile, Stages
    <3> QED
      BY <3>1, MessageType
  <2>2. MsgOK'
    BY <1>3, <2>1 DEF
       BeginReceivingFiles, ReceiveNoFiles, ReceiveFirstFile, MsgOK, Stages
  <2>3. PICK files \in SUBSET File :
           /\ fileLists' = [fileLists EXCEPT ![FreeList] = files]
           /\ IsFiniteSet(files)
           /\ Cardinality(files) <= Capacity
    <3>1. CASE fileLists' = [fileLists EXCEPT ![FreeList] = {}]
      BY <3>1, EmptyFits
    <3>2. CASE \E file \in msg.left :
                  fileLists' = [fileLists EXCEPT ![FreeList] = Received({}, file)]
      BY <3>2, <2>1, EmptyFits, OneMore, ReceivedType
    <3> QED
      BY <1>3, <3>1, <3>2 DEF
       BeginReceivingFiles, ReceiveNoFiles, ReceiveFirstFile
  <2>4. fileLists \in [Lists -> SUBSET File] /\ FreeList \in Lists
    BY FreeListIsFree DEF Inv, TypeOK
  <2>5. fileLists' \in [Lists -> SUBSET File]
    BY <2>3, <2>4
  <2>6. ListsFit'
    BY <2>3, <2>4 DEF Inv, ListsFit
  <2>7. TypeOK'
    BY <1>3, <2>4, <2>5 DEF
       BeginReceivingFiles, ReceiveNoFiles, ReceiveFirstFile, Inv, TypeOK
  <2>8. Ordered(stack)'
    BY <1>3 DEF BeginReceivingFiles, ReceiveNoFiles, ReceiveFirstFile, Inv
  <2> QED
    BY <2>2, <2>6, <2>7, <2>8 DEF Inv
<1>4. CASE ReceiveFile
  <2>1. msg \in [stage : Stages, dir : Paths, left : SUBSET File]
    <3>1. msg.stage \in Stages
      BY <1>4 DEF ReceiveFile, Stages
    <3> QED
      BY <3>1, MessageType
  <2>2. PICK file \in msg.left :
           /\ msg' = [msg EXCEPT !.left = msg.left \ {file}]
           /\ fileLists' =
                 IF newFileList = None THEN fileLists
                 ELSE [fileLists EXCEPT ![newFileList] =
                          Received(fileLists[newFileList], file)]
    BY <1>4 DEF ReceiveFile
  <2>3. MsgOK' /\ file \in File
    BY <2>1, <2>2 DEF MsgOK
  <2>4. fileLists \in [Lists -> SUBSET File] /\ newFileList \in {None} \cup Lists
    BY DEF Inv, TypeOK
  <2>5. fileLists' \in [Lists -> SUBSET File] /\ ListsFit'
    <3>1. CASE newFileList = None
      BY <3>1, <2>2, <2>4 DEF Inv, ListsFit
    <3>2. CASE newFileList # None
      <4> DEFINE files == Received(fileLists[newFileList], file)
      <4>1. newFileList \in Lists
        BY <3>2, <2>4
      <4>2. /\ files \in SUBSET File
            /\ IsFiniteSet(files)
            /\ Cardinality(files) <= Capacity
        BY <4>1, <2>3, <2>4, OneMore, ReceivedType DEF Inv, ListsFit
      <4>3. fileLists' = [fileLists EXCEPT ![newFileList] = files]
        BY <2>2, <3>2
      <4> HIDE DEF files
      <4> QED
        BY <4>1, <4>2, <4>3, <2>4 DEF Inv, ListsFit
    <3> QED
      BY <3>1, <3>2
  <2>6. TypeOK'
    BY <1>4, <2>5 DEF ReceiveFile, Inv, TypeOK
  <2>7. Ordered(stack)'
    BY <1>4 DEF ReceiveFile, Inv
  <2> QED
    BY <2>3, <2>5, <2>6, <2>7 DEF Inv
<1>5. CASE ReceiveErrorCode
  <2>1. msg \in [stage : Stages, dir : Paths, left : SUBSET File]
    <3>1. msg.stage \in Stages
      BY <1>5 DEF ReceiveErrorCode, Stages
    <3> QED
      BY <3>1, MessageType
  <2>2. MsgOK'
    BY <1>5, <2>1 DEF ReceiveErrorCode, MsgOK, Stages
  <2>3. TypeOK'
    BY <1>5 DEF ReceiveErrorCode, Inv, TypeOK
  <2>4. ListsFit' /\ Ordered(stack)'
    BY <1>5 DEF ReceiveErrorCode, Inv, ListsFit
  <2> QED
    BY <2>2, <2>3, <2>4 DEF Inv
<1> QED
  BY <1>1, <1>2, <1>3, <1>4, <1>5

\* The end of a message reloads one set, or none.
LEMMA EndInv ==
    ASSUME Inv, EndReceivedMessage
    PROVE  Inv'
<1> USE DEF display, userVars
<1>1. /\ UNCHANGED <<fileLists, errorCode, fileDirectoryName, userVars, wire>>
      /\ msg' = NoMessage /\ newFileList' = None
  BY DEF EndReceivedMessage
<1>2. MsgOK' /\ ListsFit'
  BY <1>1 DEF Inv, MsgOK, ListsFit
<1>3. ASSUME NEW s \in Sets, Reload(s), shortList' \in SUBSET File
      PROVE  Inv'
  <2>1. /\ errorField' = [errorField EXCEPT ![s] = errorCode]
        /\ FileListUpdated(s, Reloaded(fs[s]))
    BY <1>3 DEF Reload
  <2>2. fs[s] \in FileSet
    BY DEF Inv, TypeOK
  <2>3. Reloaded(fs[s]) \in FileSet
    BY <2>2, ChangedSets
  <2>4. /\ fs' \in [Sets -> FileSet]
        /\ buttons' \in [Sets -> SUBSET Pointer]
        /\ nav' \in [Sets -> [left : BOOLEAN, right : BOOLEAN, up : BOOLEAN]]
        /\ stack' = stack \/ stack' = SetPopup(stack, PopupOf(s))
    BY <2>1, <2>3, UpdatedPopup
  <2>5. stack' \in Seq(Popups) /\ Ordered(stack')
    BY <2>4, StackKept
  <2>6. errorField' \in [Sets -> BOOLEAN]
    BY <2>1 DEF Inv, TypeOK
  <2>7. TypeOK'
    BY <1>1, <1>3, <2>4, <2>5, <2>6 DEF Inv, TypeOK, Popups
  <2> QED
    BY <1>2, <2>5, <2>7 DEF Inv
<1>4. CASE UNCHANGED <<fs, display>>
  BY <1>1, <1>2, <1>4 DEF Inv, TypeOK
<1>5. ASSUME newFileList # None
      PROVE  ShortListNow \in SUBSET File /\ shortList \in SUBSET File
  <2>1. newFileList \in Lists /\ fileLists \in [Lists -> SUBSET File]
        /\ shortList \in SUBSET File
    BY <1>5 DEF Inv, TypeOK
  <2>2. fileLists[newFileList] \subseteq File
    BY <2>1
  <2> QED
    BY <2>1, <2>2 DEF ShortListNow, MacroFiles
<1>6. \/ newFileList # None /\ Reload("macro")
         /\ shortList' \in {ShortListNow, shortList}
      \/ newFileList # None /\ Reload("gcode") /\ shortList' = shortList
      \/ UNCHANGED <<fs, display>>
  BY DEF EndReceivedMessage, ReloadMacroShortList
<1>7. "macro" \in Sets /\ "gcode" \in Sets
  BY DEF Sets
<1> QED
  BY <1>3, <1>4, <1>5, <1>6, <1>7

\* What the user does leaves what is being received alone.
LEMMA UserInv ==
    ASSUME Inv, UNCHANGED receiving,
           fs' \in [Sets -> FileSet],
           buttons' \in [Sets -> SUBSET Pointer],
           nav' \in [Sets -> [left : BOOLEAN, right : BOOLEAN, up : BOOLEAN]],
           stack' \in Seq(Popups), Ordered(stack'),
           currentFile' \in Pointer \cup {NoFile},
           eventToConfirm' \in {"evNull", "evDeleteFile"}
    PROVE  Inv'
<1>1. TypeOK'
  BY DEF Inv, TypeOK, Popups, receiving, messageVars
<1>2. MsgOK' /\ ListsFit'
  BY DEF Inv, MsgOK, ListsFit, receiving, messageVars
<1> QED
  BY <1>1, <1>2 DEF Inv

\* One popup more, or one or two less.
LEMMA StackMoves ==
    ASSUME Inv
    PROVE  /\ stack \in Seq(Popups) /\ Ordered(stack)
           /\ \A p \in Popups :
                 (p = "fileDetail" => OnTop(stack, "fileList")) =>
                    /\ SetPopup(stack, p) \in Seq(Popups)
                    /\ Ordered(SetPopup(stack, p))
           /\ ClearPopup(stack) \in Seq(Popups)
           /\ Ordered(ClearPopup(stack))
           /\ ClearPopup(ClearPopup(stack)) \in Seq(Popups)
           /\ Ordered(ClearPopup(ClearPopup(stack)))
           /\ \A p : /\ ClearThisPopup(stack, p) \in Seq(Popups)
                     /\ Ordered(ClearThisPopup(stack, p))
           /\ NoPopups \in Seq(Popups) /\ Ordered(NoPopups)
<1>1. stack \in Seq(Popups) /\ Ordered(stack)
  BY DEF Inv, TypeOK, Popups
<1>2. ClearPopup(stack) \in Seq(Popups) /\ Ordered(ClearPopup(stack))
  BY <1>1, TakeAway
<1>3. /\ ClearPopup(ClearPopup(stack)) \in Seq(Popups)
      /\ Ordered(ClearPopup(ClearPopup(stack)))
  BY <1>2, TakeAway
<1>4. NoPopups \in Seq(Popups) /\ Ordered(NoPopups)
  BY DEF NoPopups, Ordered, Distinct, DetailOverList
<1> QED
  BY <1>1, <1>2, <1>3, <1>4, PutUp DEF ClearThisPopup

\* A button of a set's popup changes the set: the list is shown from another
\* row, or hidden until the one now asked for arrives.
LEMMA PressedButton ==
    ASSUME Inv, NEW s \in Sets,
           \/ Scroll(s) \/ RequestParentDir(s) \/ OpenSubdir(s)
           \/ NextCard /\ s = "gcode"
    PROVE  /\ OnTop(stack, PopupOf(s))
           /\ UNCHANGED <<receiving, userVars>>
           /\ \E f \in FileSet :
                 /\ FileListUpdated(s, f)
                 /\ \/ /\ f.whichList = None
                       /\ f.timer = "ready"
                       /\ f.scrollOffset = fs[s].scrollOffset
                    \/ /\ f.whichList = fs[s].whichList
                       /\ f.currentPath = fs[s].currentPath
                       /\ f.timer = fs[s].timer
                       /\ f.scrollOffset \in {fs[s].scrollOffset - Rows,
                                              fs[s].scrollOffset + Rows}
<1> DEFINE Hidden(f) == /\ f \in FileSet
                        /\ FileListUpdated(s, f)
                        /\ f.whichList = None
                        /\ f.timer = "ready"
                        /\ f.scrollOffset = fs[s].scrollOffset
<1>1. /\ fs[s] \in FileSet
      /\ fs[s].currentPath \in Paths
      /\ fs[s].scrollOffset \in Int
      /\ Rows \in Nat
  BY FileAssumption DEF Inv, TypeOK, FileSet
<1>2. CASE Scroll(s)
  <2>1. PICK amount \in ScrollBy(s) :
           FileListUpdated(s,
              [fs[s] EXCEPT !.scrollOffset = fs[s].scrollOffset + amount])
    BY <1>2 DEF Scroll
  <2> DEFINE f == [fs[s] EXCEPT !.scrollOffset = fs[s].scrollOffset + amount]
  <2>2. amount \in {-Rows, Rows}
    BY DEF ScrollBy
  <2>3. fs[s].scrollOffset + amount \in
            Int \cap {fs[s].scrollOffset - Rows, fs[s].scrollOffset + Rows}
    BY <1>1, <2>2
  <2>4. f \in FileSet
    BY <1>1, <2>3, ChangedSets
  <2>5. /\ f.whichList = fs[s].whichList
        /\ f.currentPath = fs[s].currentPath
        /\ f.timer = fs[s].timer
        /\ f.scrollOffset = fs[s].scrollOffset + amount
    BY <1>1, ChangedParts
  <2>6. FileListUpdated(s, f)
    BY <2>1
  <2> HIDE DEF f
  <2> QED
    BY <1>2, <2>3, <2>4, <2>5, <2>6 DEF Scroll
<1>3. ASSUME NEW path \in Paths, FileListUpdated(s, Awaiting(fs[s], path))
      PROVE  Hidden(Awaiting(fs[s], path))
  <2> DEFINE f == Awaiting(fs[s], path)
  <2>1. f \in FileSet
    BY <1>1, ChangedSets
  <2>2. /\ f.whichList = None
        /\ f.timer = "ready"
        /\ f.scrollOffset = fs[s].scrollOffset
    BY <1>1, ChangedParts
  <2>3. FileListUpdated(s, f)
    BY <1>3
  <2> HIDE DEF f
  <2>4. Hidden(f)
    BY <2>1, <2>2, <2>3
  <2> QED
    BY <2>4 DEF f
<1>4. CASE RequestParentDir(s)
  <2>1. Parent(fs[s].currentPath) \in Paths
    BY <1>1, PathParts
  <2>2. Hidden(Awaiting(fs[s], Parent(fs[s].currentPath)))
    BY <1>4, <2>1, <1>3 DEF RequestParentDir
  <2> QED
    BY <1>4, <2>2 DEF RequestParentDir
<1>5. CASE OpenSubdir(s)
  <2>1. PICK b \in buttons[s] : /\ NameAt(b) \in DirNames
                                /\ RequestSubdir(s, NameAt(b))
    BY <1>5 DEF OpenSubdir
  <2>2. NameAt(b) \in Names
    BY <2>1, FileAssumption
  <2>3. Child(fs[s].currentPath, NameAt(b)) \in Paths
    BY <1>1, <2>2, PathParts
  <2>4. Hidden(Awaiting(fs[s], Child(fs[s].currentPath, NameAt(b))))
    BY <2>1, <2>3, <1>3 DEF RequestSubdir
  <2> QED
    BY <1>5, <2>4 DEF OpenSubdir
<1>6. CASE NextCard /\ s = "gcode"
  <2> DEFINE g == [fs[s] EXCEPT !.cardNumber = NextCardNumber]
             f == Awaiting(g, RootPath(NextCardNumber))
  <2>1. /\ NextCardNumber \in 0 .. NumVolumes - 1
        /\ RootPath(NextCardNumber) \in Paths
    BY NextCardType, RootTypes DEF Inv
  <2>2. g \in FileSet /\ g.scrollOffset = fs[s].scrollOffset
    BY <1>1, <2>1 DEF FileSet
  <2> HIDE DEF g
  <2>3. /\ f \in FileSet
        /\ f.whichList = None
        /\ f.timer = "ready"
        /\ f.scrollOffset = fs[s].scrollOffset
    BY <2>1, <2>2, ChangedSets, ChangedParts
  <2>4. FileListUpdated(s, f)
    BY <1>6 DEF NextCard, g
  <2>5. OnTop(stack, PopupOf(s)) /\ UNCHANGED <<receiving, userVars>>
    BY <1>6 DEF NextCard, PopupOf
  <2> HIDE DEF f
  <2> QED
    BY <2>3, <2>4, <2>5
<1> QED
  BY <1>2, <1>4, <1>5, <1>6

\* What the user touches.
LEMMA TouchInv ==
    ASSUME Inv, Touch
    PROVE  Inv'
<1> USE DEF userVars
<1>1. ASSUME NEW s \in Sets, NEW f \in FileSet, FileListUpdated(s, f),
             UNCHANGED <<receiving, userVars>>
      PROVE  Inv'
  <2>1. /\ fs' \in [Sets -> FileSet]
        /\ buttons' \in [Sets -> SUBSET Pointer]
        /\ nav' \in [Sets -> [left : BOOLEAN, right : BOOLEAN, up : BOOLEAN]]
        /\ stack' = stack \/ stack' = SetPopup(stack, PopupOf(s))
    BY <1>1, UpdatedPopup
  <2>2. stack' \in Seq(Popups) /\ Ordered(stack')
    BY <2>1, StackKept
  <2>3. /\ currentFile' \in Pointer \cup {NoFile}
        /\ eventToConfirm' \in {"evNull", "evDeleteFile"}
    BY <1>1 DEF Inv, TypeOK
  <2> QED
    BY <1>1, <2>1, <2>2, <2>3, UserInv
<1>2. /\ fs \in [Sets -> FileSet]
      /\ buttons \in [Sets -> SUBSET Pointer]
      /\ nav \in [Sets -> [left : BOOLEAN, right : BOOLEAN, up : BOOLEAN]]
      /\ currentFile \in Pointer \cup {NoFile}
      /\ eventToConfirm \in {"evNull", "evDeleteFile"}
  BY DEF Inv, TypeOK
<1>3. ASSUME NEW s \in Sets, Display(s)
      PROVE  Inv'
  <2>1. fs' = [fs EXCEPT ![s] = Pending(Scrolled(fs[s]))]
    BY <1>3 DEF Display
  <2>2. Pending(Scrolled(fs[s])) \in FileSet
    BY <1>2, ScrolledType, ChangedSets
  <2>3. fs' \in [Sets -> FileSet]
    BY <1>2, <2>1, <2>2
  <2>4. buttons' \in [Sets -> SUBSET Pointer]
    BY <1>2, <1>3 DEF Display
  <2>5. NavOf(s, Scrolled(fs[s])) \in [left : BOOLEAN, right : BOOLEAN, up : BOOLEAN]
    BY DEF NavOf, IsInSubdir
  <2>6. nav' \in [Sets -> [left : BOOLEAN, right : BOOLEAN, up : BOOLEAN]]
    BY <1>2, <1>3, <2>5 DEF Display
  <2>7. stack' \in Seq(Popups) /\ Ordered(stack')
    BY <1>3, StackKept DEF Display
  <2> QED
    BY <1>2, <1>3, <2>3, <2>4, <2>6, <2>7, UserInv DEF Display
<1>4. CASE SelectFile
  <2>1. currentFile' \in Pointer
    BY <1>2, <1>4 DEF SelectFile, Sets
  <2>2. stack' \in Seq(Popups) /\ Ordered(stack')
    BY <1>4, StackMoves DEF SelectFile, Popups
  <2> QED
    BY <1>2, <1>4, <2>1, <2>2, UserInv DEF SelectFile
<1>5. CASE PrintFile
  <2>1. stack' \in Seq(Popups) /\ Ordered(stack')
    BY <1>5, StackMoves DEF PrintFile
  <2> QED
    BY <1>2, <1>5, <2>1, UserInv DEF PrintFile
<1>6. CASE DeleteFile
  <2>1. stack' \in Seq(Popups) /\ Ordered(stack')
    BY <1>6, StackMoves DEF DeleteFile, Popups
  <2> QED
    BY <1>2, <1>6, <2>1, UserInv DEF DeleteFile
<1>7. CASE Confirm
  <2>1. stack' \in Seq(Popups) /\ Ordered(stack')
    BY <1>7, StackMoves DEF Confirm
  <2>2. Pending(fs["gcode"]) \in FileSet
    BY <1>2, ChangedSets DEF Sets
  <2>3. fs' \in [Sets -> FileSet]
    BY <1>2, <1>7, <2>2 DEF Confirm
  <2> QED
    BY <1>2, <1>7, <2>1, <2>3, UserInv DEF Confirm
<1>8. CASE Cancel
  <2>1. stack' \in Seq(Popups) /\ Ordered(stack')
    BY <1>8, StackMoves DEF Cancel
  <2> QED
    BY <1>2, <1>8, <2>1, UserInv DEF Cancel
<1>9. ASSUME NEW s \in Sets,
             \/ Scroll(s) \/ RequestParentDir(s) \/ OpenSubdir(s)
             \/ NextCard /\ s = "gcode"
      PROVE  Inv'
  BY <1>1, <1>9, PressedButton
<1> QED
  BY <1>3, <1>4, <1>5, <1>6, <1>7, <1>8, <1>9 DEF Touch, Sets

\* What the rest of the firmware does.
LEMMA FirmwareInv ==
    ASSUME Inv, Firmware
    PROVE  Inv'
<1> USE DEF userVars
<1>1. /\ fs \in [Sets -> FileSet]
      /\ fs["gcode"] \in FileSet /\ fs["macro"] \in FileSet
      /\ buttons \in [Sets -> SUBSET Pointer]
      /\ nav \in [Sets -> [left : BOOLEAN, right : BOOLEAN, up : BOOLEAN]]
      /\ currentFile \in Pointer \cup {NoFile}
      /\ eventToConfirm \in {"evNull", "evDeleteFile"}
      /\ stack \in Seq(Popups) /\ Ordered(stack)
      /\ wire \in Seq(Paths)
  BY DEF Inv, TypeOK, Sets, Popups
<1>2. ASSUME NEW s \in Sets, SendRequest(s)
      PROVE  Inv'
  <2>1. /\ fs' = [fs EXCEPT ![s] = Sent(fs[s])]
        /\ wire' = Append(wire, fs[s].requestedPath)
        /\ UNCHANGED <<fileLists, messageVars, display, userVars, msg>>
    BY <1>2 DEF SendRequest
  <2>2. Sent(fs[s]) \in FileSet /\ fs[s].requestedPath \in Paths
    BY <1>1, ChangedSets DEF FileSet
  <2>3. fs' \in [Sets -> FileSet] /\ wire' \in Seq(Paths)
    BY <1>1, <2>1, <2>2, AppendProperties
  <2>4. TypeOK'
    BY <2>1, <2>3 DEF Inv, TypeOK, messageVars, display
  <2>5. MsgOK' /\ ListsFit' /\ Ordered(stack)'
    BY <2>1 DEF Inv, MsgOK, ListsFit, display
  <2> QED
    BY <2>4, <2>5 DEF Inv
<1>3. ASSUME NEW s \in Sets, BecomeReady(s)
      PROVE  Inv'
  <2>1. /\ fs' = [fs EXCEPT ![s] = Pending(fs[s])]
        /\ UNCHANGED <<fileLists, messageVars, display, userVars, wire, msg>>
    BY <1>3 DEF BecomeReady
  <2>2. fs' \in [Sets -> FileSet]
    BY <1>1, <2>1, ChangedSets
  <2>3. UNCHANGED <<receiving, buttons, nav, stack>>
    BY <2>1 DEF receiving, messageVars, display
  <2> QED
    BY <1>1, <2>1, <2>2, <2>3, UserInv
<1>4. CASE Response
  <2>1. stack' \in Seq(Popups) /\ Ordered(stack')
    BY <1>4, StackMoves DEF Response, Popups
  <2> QED
    BY <1>1, <1>4, <2>1, UserInv DEF Response
<1>5. CASE Disconnected
  <2>1. stack' \in Seq(Popups) /\ Ordered(stack')
    BY <1>5, StackMoves DEF Disconnected
  <2> QED
    BY <1>1, <1>5, <2>1, UserInv DEF Disconnected
<1>6. CASE RefreshMacrosList
  <2>1. fs' \in [Sets -> FileSet]
    BY <1>1, <1>6, ChangedSets DEF RefreshMacrosList
  <2> QED
    BY <1>1, <1>6, <2>1, UserInv DEF RefreshMacrosList
<1>7. CASE FirmwareFeaturesChanged
  <2>1. fs["gcode"].cardNumber \in 0 .. NumVolumes - 1
    BY <1>1 DEF FileSet
  <2>2. SetupRootPath(fs["gcode"].cardNumber) \in Paths
    BY <2>1, RootTypes
  <2>3. [fs["gcode"] EXCEPT !.requestedPath =
            SetupRootPath(fs["gcode"].cardNumber)] \in FileSet
    BY <1>1, <2>2 DEF FileSet
  <2>4. fs' \in [Sets -> FileSet]
    BY <1>1, <1>7, <2>3 DEF FirmwareFeaturesChanged
  <2> QED
    BY <1>1, <1>7, <2>4, UserInv DEF FirmwareFeaturesChanged
<1> QED
  BY <1>2, <1>3, <1>4, <1>5, <1>6, <1>7 DEF Firmware

LEMMA StepInv ==
    ASSUME Inv, [Next]_vars
    PROVE  Inv'
<1>1. CASE Receive
  BY <1>1, ReceiveInv, EndInv DEF Receive
<1>2. CASE LoseMessage
  <2>1. wire' \in Seq(Paths)
    <3>1. wire \in Seq(Paths)
      BY DEF Inv, TypeOK
    <3>2. wire' = wire \/ (wire # <<>> /\ wire' = Tail(wire))
      BY <1>2 DEF LoseMessage
    <3> QED
      BY <3>1, <3>2, HeadTailProperties
  <2>2. TypeOK'
    BY <1>2, <2>1 DEF LoseMessage, Inv, TypeOK, messageVars, display, userVars
  <2>3. MsgOK' /\ ListsFit' /\ Ordered(stack)'
    BY <1>2 DEF LoseMessage, Inv, MsgOK, ListsFit, display
  <2> QED
    BY <2>2, <2>3 DEF Inv
<1>3. CASE UNCHANGED vars
  BY <1>3 DEF vars, Inv, TypeOK, MsgOK, ListsFit
<1> QED
  BY <1>1, <1>2, <1>3, TouchInv, FirmwareInv DEF Next

\* Every variable has its type, whatever is received while the user presses
\* buttons; a message is received into one of the three lists.
THEOREM TypeCorrect == Spec => []TypeOK
<1>1. Init => Inv
  BY InitInv
<1>2. Inv /\ [Next]_vars => Inv'
  BY StepInv
<1>3. Inv => TypeOK
  BY DEF Inv
<1> QED
  BY <1>1, <1>2, <1>3, PTL DEF Spec

-----------------------------------------------------------------------------
(***************************************************************************)
(* What a step does to a set.  Its list, path and offset stay; or its popup *)
(* is drawn again from some row of the same list; or its list is hidden; or *)
(* it gets the list received, at the end of the message.                    *)
(***************************************************************************)
Kept(s) == /\ fs'[s].whichList = fs[s].whichList
           /\ fs'[s].currentPath = fs[s].currentPath

\* No details of a file are displayed when the set's list goes.
MayGo(s) ==
    s = "gcode" => currentFile = NoFile \/ ~IsPopupActive(stack, "fileDetail")

\* The buttons now lead to names of the list now displayed.
ShowsList(s) ==
    \A b \in buttons'[s] : /\ b.list = fs'[s].whichList
                           /\ b.file \in fileLists[b.list]

Untouched(s) ==
    /\ Kept(s)
    /\ fs'[s].scrollOffset = fs[s].scrollOffset
    /\ fs'[s].timer \in {fs[s].timer, "running", "ready"}
    /\ buttons'[s] = buttons[s]
    /\ errorField'[s] = errorField[s]
    /\ IsPopupActive(stack', PopupOf(s)) => IsPopupActive(stack, PopupOf(s))

Redrawn(s) ==
    /\ Kept(s)
    /\ \E o \in {fs[s].scrollOffset, fs[s].scrollOffset - Rows,
                 fs[s].scrollOffset + Rows} :
          fs'[s].scrollOffset =
             IF fs[s].whichList = None THEN o
             ELSE SensibleOffset(o, Cardinality(Contents(fs[s])))
    /\ \/ fs'[s].timer = fs[s].timer /\ IsPopupActive(stack, PopupOf(s))
       \/ fs'[s].timer = "ready"
    /\ ShowsList(s)
    /\ errorField'[s] = errorField[s]
    /\ UNCHANGED <<fileLists, newFileList>>

Hides(s) ==
    /\ fs'[s].whichList = None
    /\ fs'[s].scrollOffset = fs[s].scrollOffset
    /\ fs'[s].timer = "ready" \/ errorField'[s]
    /\ ShowsList(s)
    /\ MayGo(s)
    /\ UNCHANGED fileLists
    /\ newFileList' \in {newFileList, None}

Loads(s) ==
    /\ msg.stage = "end"
    /\ ~errorCode
    /\ newFileList # None
    /\ fs'[s].whichList = newFileList
    /\ fs'[s].currentPath = fileDirectoryName
    /\ fs'[s].scrollOffset =
          SensibleOffset(fs[s].scrollOffset, Cardinality(fileLists[newFileList]))
    /\ ShowsList(s)
    /\ MayGo(s)
    /\ UNCHANGED fileLists
    /\ newFileList' = None

SetMoves(s) == Untouched(s) \/ Redrawn(s) \/ Hides(s) \/ Loads(s)

\* A set whose place in fs, buttons and errors stays is untouched.
LEMMA Bystander ==
    ASSUME Inv, NEW s \in Sets,
           fs'[s].whichList = fs[s].whichList,
           fs'[s].currentPath = fs[s].currentPath,
           fs'[s].scrollOffset = fs[s].scrollOffset,
           fs'[s].timer \in {fs[s].timer, "running", "ready"},
           buttons'[s] = buttons[s],
           errorField'[s] = errorField[s],
           \A q \in {PopupOf(s)} :
              IsPopupActive(stack', q) => IsPopupActive(stack, q)
    PROVE  SetMoves(s)
  BY DEF SetMoves, Untouched, Kept

LEMMA OtherPopup ==
    ASSUME NEW s \in Sets, NEW r \in Sets, r # s
    PROVE  PopupOf(r) # PopupOf(s)
  BY DEF Sets, PopupOf

\* What a set shows after its popup was updated, by what it was before that.
LEMMA UpdateMoves ==
    ASSUME Inv, NEW s \in Sets, NEW f \in FileSet, FileListUpdated(s, f),
           UNCHANGED fileLists,
           \A r \in Sets \ {s} : errorField'[r] = errorField[r],
           \/ /\ f.whichList = fs[s].whichList
              /\ f.currentPath = fs[s].currentPath
              /\ f.timer = fs[s].timer
              /\ f.scrollOffset \in {fs[s].scrollOffset - Rows,
                                     fs[s].scrollOffset + Rows}
              /\ OnTop(stack, PopupOf(s))
              /\ errorField'[s] = errorField[s]
              /\ newFileList' = newFileList
           \/ /\ f.whichList = None
              /\ f.scrollOffset = fs[s].scrollOffset
              /\ f.timer = "ready" \/ errorField'[s]
              /\ MayGo(s)
              /\ newFileList' \in {newFileList, None}
           \/ /\ msg.stage = "end"
              /\ ~errorCode
              /\ newFileList # None
              /\ f.whichList = newFileList
              /\ f.currentPath = fileDirectoryName
              /\ f.scrollOffset = fs[s].scrollOffset
              /\ MayGo(s)
              /\ newFileList' = None
    PROVE  \A r \in Sets : SetMoves(r)
<1>1. /\ fs \in [Sets -> FileSet]
      /\ fs' = [fs EXCEPT ![s] = Scrolled(f)]
      /\ \A r \in Sets \ {s} : buttons'[r] = buttons[r]
      /\ \A b \in buttons'[s] : /\ f.whichList # None
                                /\ b.list = f.whichList
                                /\ b.file \in fileLists[f.whichList]
      /\ stack' = stack \/ stack' = SetPopup(stack, PopupOf(s))
  BY UpdatedPopup DEF Inv, TypeOK
<1>2. ASSUME NEW r \in Sets \ {s}
      PROVE  SetMoves(r)
  <2>1. fs'[r] = fs[r] /\ buttons'[r] = buttons[r] /\ errorField'[r] = errorField[r]
    BY <1>1
  <2>2. IsPopupActive(stack', PopupOf(r)) => IsPopupActive(stack, PopupOf(r))
    BY <1>1, StackKept, OtherPopup
  <2> QED
    BY <2>1, <2>2, Bystander
<1>3. /\ fs'[s].whichList = f.whichList
      /\ fs'[s].currentPath = f.currentPath
      /\ fs'[s].timer = f.timer
      /\ fs'[s].scrollOffset = IF f.whichList = None THEN f.scrollOffset
                               ELSE SensibleOffset(f.scrollOffset,
                                                   Cardinality(Contents(f)))
  <2>1. fs'[s] = Scrolled(f)
    BY <1>1
  <2> QED
    BY <2>1, ScrolledType
<1>4. ShowsList(s)
  BY <1>1, <1>3 DEF ShowsList
<1>5. SetMoves(s)
  <2>1. CASE /\ f.whichList = fs[s].whichList
             /\ f.currentPath = fs[s].currentPath
             /\ f.timer = fs[s].timer
             /\ f.scrollOffset \in {fs[s].scrollOffset - Rows,
                                    fs[s].scrollOffset + Rows}
             /\ OnTop(stack, PopupOf(s))
             /\ errorField'[s] = errorField[s]
             /\ newFileList' = newFileList
    <3>1. IsPopupActive(stack, PopupOf(s))
      <4>1. Len(stack) \in 1 .. Len(stack)
        BY <2>1, EmptySeq DEF OnTop, Inv, TypeOK
      <4> QED
        BY <2>1, <4>1 DEF OnTop, IsPopupActive
    <3>2. Contents(f) = Contents(fs[s])
      BY <2>1 DEF Contents
    <3> QED
      BY <1>3, <1>4, <2>1, <3>1, <3>2 DEF SetMoves, Redrawn, Kept
  <2>2. CASE /\ f.whichList = None
             /\ f.scrollOffset = fs[s].scrollOffset
             /\ f.timer = "ready" \/ errorField'[s]
             /\ MayGo(s)
             /\ newFileList' \in {newFileList, None}
    BY <1>3, <1>4, <2>2 DEF SetMoves, Hides
  <2>3. CASE /\ msg.stage = "end"
             /\ ~errorCode
             /\ newFileList # None
             /\ f.whichList = newFileList
             /\ f.currentPath = fileDirectoryName
             /\ f.scrollOffset = fs[s].scrollOffset
             /\ MayGo(s)
             /\ newFileList' = None
    BY <1>3, <1>4, <2>3 DEF SetMoves, Loads, Contents
  <2> QED
    BY <2>1, <2>2, <2>3
<1> QED
  BY <1>2, <1>5

\* No popup comes up but the one that is put up.
LEMMA OnDisplay ==
    ASSUME Inv, NEW p \in Popups, p = "fileDetail" => OnTop(stack, "fileList"),
           stack' \in {stack, SetPopup(stack, p), ClearThisPopup(stack, p),
                       ClearPopup(stack), ClearPopup(ClearPopup(stack)), NoPopups}
    PROVE  \A q : IsPopupActive(stack', q) => q = p \/ IsPopupActive(stack, q)
<1>1. stack \in Seq(Popups) /\ Ordered(stack)
  BY DEF Inv, TypeOK, Popups
<1>2. \A q : IsPopupActive(SetPopup(stack, p), q) => q = p \/ IsPopupActive(stack, q)
  BY <1>1, PutUp
<1>3. /\ \A q : IsPopupActive(ClearPopup(stack), q) => IsPopupActive(stack, q)
      /\ ClearPopup(stack) \in Seq(Popups) /\ Ordered(ClearPopup(stack))
  BY <1>1, TakeAway
<1>4. \A q : IsPopupActive(ClearPopup(ClearPopup(stack)), q) =>
                IsPopupActive(ClearPopup(stack), q)
  BY <1>3, TakeAway
<1>5. \A q : IsPopupActive(ClearThisPopup(stack, p), q) => IsPopupActive(stack, q)
  BY <1>3 DEF ClearThisPopup
<1>6. \A q : ~IsPopupActive(NoPopups, q)
  BY DEF NoPopups, IsPopupActive
<1>7. CASE stack' = stack
  BY <1>7
<1>8. CASE stack' = SetPopup(stack, p)
  BY <1>2, <1>8
<1>9. CASE stack' = ClearThisPopup(stack, p)
  BY <1>5, <1>9
<1>10. CASE stack' = ClearPopup(stack)
  BY <1>3, <1>10
<1>11. CASE stack' = ClearPopup(ClearPopup(stack))
  BY <1>3, <1>4, <1>11
<1>12. CASE stack' = NoPopups
  BY <1>6, <1>12
<1> QED
  BY <1>7, <1>8, <1>9, <1>10, <1>11, <1>12

\* A step that only sends, delays or asks for requests, or turns to another
\* popup, moves no set.
LEMMA NoMoves ==
    ASSUME Inv, NEW p \in Popups \ {"fileList", "macros"},
           p = "fileDetail" => OnTop(stack, "fileList"),
           stack' \in {stack, SetPopup(stack, p), ClearThisPopup(stack, p),
                       ClearPopup(stack), ClearPopup(ClearPopup(stack)), NoPopups},
           UNCHANGED <<buttons, errorField>>,
           NEW s \in Sets,
           fs' \in {fs, [fs EXCEPT ![s] = Pending(fs[s])],
                    [fs EXCEPT ![s] = Sent(fs[s])],
                    [fs EXCEPT !["gcode"].requestedPath =
                       SetupRootPath(fs["gcode"].cardNumber)]}
    PROVE  \A r \in Sets : SetMoves(r)
<1> SUFFICES ASSUME NEW r \in Sets PROVE SetMoves(r)
  OBVIOUS
<1>1. PopupOf(r) # p
  BY DEF PopupOf
<1>2. IsPopupActive(stack', PopupOf(r)) => IsPopupActive(stack, PopupOf(r))
  BY <1>1, OnDisplay
<1>3. fs \in [Sets -> FileSet]
  BY DEF Inv, TypeOK
<1>4. /\ fs'[r].whichList = fs[r].whichList
      /\ fs'[r].currentPath = fs[r].currentPath
      /\ fs'[r].scrollOffset = fs[r].scrollOffset
      /\ fs'[r].timer \in {fs[r].timer, "running", "ready"}
  BY <1>3 DEF Pending, Sent, FileSet
<1> QED
  BY <1>2, <1>4, Bystander

LEMMA ReceiveMoves ==
    ASSUME Inv, Receive \/ LoseMessage \/ UNCHANGED vars
    PROVE  \A s \in Sets : SetMoves(s)
<1>1. ASSUME UNCHANGED <<fs, buttons, errorField, stack>>
      PROVE  \A s \in Sets : SetMoves(s)
  BY <1>1, Bystander
<1>2. ASSUME NEW s \in Sets, EndReceivedMessage, Reload(s), newFileList # None,
             s = "gcode" => currentFile = NoFile
      PROVE  \A r \in Sets : SetMoves(r)
  <2> DEFINE f == Reloaded(fs[s])
  <2>1. /\ errorField' = [errorField EXCEPT ![s] = errorCode]
        /\ FileListUpdated(s, f)
        /\ msg.stage = "end"
        /\ newFileList' = None
        /\ UNCHANGED fileLists
    BY <1>2 DEF Reload, EndReceivedMessage
  <2>2. /\ errorField \in [Sets -> BOOLEAN]
        /\ fs[s] \in FileSet
    BY DEF Inv, TypeOK
  <2>3. /\ f \in FileSet
        /\ f.whichList = IF errorCode THEN None ELSE newFileList
        /\ f.currentPath =
              IF errorCode THEN fs[s].currentPath ELSE fileDirectoryName
        /\ f.scrollOffset = fs[s].scrollOffset
    BY <2>2, ChangedSets, ChangedParts
  <2>4. errorField'[s] = errorCode /\ \A r \in Sets \ {s} : errorField'[r] = errorField[r]
    BY <2>1, <2>2
  <2>5. MayGo(s)
    BY <1>2 DEF MayGo
  <2> HIDE DEF f
  <2>6. CASE errorCode
    BY <2>1, <2>3, <2>4, <2>5, <2>6, UpdateMoves
  <2>7. CASE ~errorCode
    BY <1>2, <2>1, <2>3, <2>4, <2>5, <2>7, UpdateMoves
  <2> QED
    BY <2>6, <2>7
<1>3. CASE EndReceivedMessage
  <2>1. CASE UNCHANGED <<fs, display>>
    BY <2>1, <1>1 DEF display
  <2>2. CASE newFileList # None /\ Reload("macro")
    BY <2>2, <1>2, <1>3 DEF Sets
  <2>3. CASE newFileList # None /\ Reload("gcode") /\ currentFile = NoFile
    BY <2>3, <1>2, <1>3 DEF Sets
  <2> QED
    BY <1>3, <2>1, <2>2, <2>3 DEF EndReceivedMessage, IsDisplayingFileInfo
<1>4. CASE \/ StartMessage \/ ReceiveDirectoryName
           \/ BeginReceivingFiles \/ ReceiveFile \/ ReceiveErrorCode
           \/ LoseMessage \/ UNCHANGED vars
  <2>1. UNCHANGED <<fs, buttons, errorField, stack>>
    BY <1>4 DEF StartMessage, ReceiveDirectoryName,
       BeginReceivingFiles, ReceiveNoFiles, ReceiveFirstFile,
       ReceiveFile, ReceiveErrorCode, LoseMessage, display, vars
  <2> QED
    BY <2>1, <1>1
<1> QED
  BY <1>3, <1>4 DEF Receive

LEMMA TouchMoves ==
    ASSUME Inv, Touch
    PROVE  \A s \in Sets : SetMoves(s)
<1>1. ASSUME NEW s \in Sets,
             \/ Scroll(s) \/ RequestParentDir(s) \/ OpenSubdir(s)
             \/ NextCard /\ s = "gcode"
      PROVE  \A r \in Sets : SetMoves(r)
  <2>1. PICK f \in FileSet :
           /\ FileListUpdated(s, f)
           /\ \/ /\ f.whichList = None
                 /\ f.timer = "ready"
                 /\ f.scrollOffset = fs[s].scrollOffset
              \/ /\ f.whichList = fs[s].whichList
                 /\ f.currentPath = fs[s].currentPath
                 /\ f.timer = fs[s].timer
                 /\ f.scrollOffset \in {fs[s].scrollOffset - Rows,
                                        fs[s].scrollOffset + Rows}
    BY <1>1, PressedButton
  <2>2. OnTop(stack, PopupOf(s)) /\ UNCHANGED <<receiving, userVars>>
    BY <1>1, PressedButton
  <2>3. MayGo(s)
    <3>1. ASSUME s = "gcode" PROVE ~IsPopupActive(stack, "fileDetail")
      <4>1. stack \in Seq(Popups) /\ Ordered(stack) /\ OnTop(stack, "fileList")
        BY <2>2, <3>1 DEF Inv, TypeOK, Popups, PopupOf
      <4> QED
        BY <4>1, NoDetailUnderList
    <3> QED
      BY <3>1 DEF MayGo
  <2>4. UNCHANGED <<fileLists, newFileList, errorField>>
    BY <2>2 DEF receiving, messageVars
  <2> QED
    BY <2>1, <2>2, <2>3, <2>4, UpdateMoves
<1>2. ASSUME NEW s \in Sets, Display(s)
      PROVE  \A r \in Sets : SetMoves(r)
  <2>1. /\ stack' = SetPopup(stack, PopupOf(s))
        /\ fs' = [fs EXCEPT ![s] = Pending(Scrolled(fs[s]))]
        /\ buttons' = [buttons EXCEPT ![s] = {}]
        /\ UNCHANGED <<fileLists, newFileList, errorField>>
    BY <1>2 DEF Display, receiving, messageVars
  <2>2. /\ fs \in [Sets -> FileSet] /\ fs[s] \in FileSet
        /\ buttons \in [Sets -> SUBSET Pointer]
    BY DEF Inv, TypeOK
  <2>3. ASSUME NEW r \in Sets \ {s}
        PROVE  SetMoves(r)
    <3>1. fs'[r] = fs[r] /\ buttons'[r] = buttons[r]
      BY <2>1, <2>2
    <3>2. IsPopupActive(stack', PopupOf(r)) => IsPopupActive(stack, PopupOf(r))
      BY <2>1, StackKept, OtherPopup
    <3> QED
      BY <2>1, <3>1, <3>2, Bystander
  <2>4. fs'[s] = Pending(Scrolled(fs[s])) /\ buttons'[s] = {}
    BY <2>1, <2>2
  <2>5. Scrolled(fs[s]) \in FileSet
    BY <2>2, ScrolledType
  <2>6. /\ fs'[s].whichList = Scrolled(fs[s]).whichList
        /\ fs'[s].currentPath = Scrolled(fs[s]).currentPath
        /\ fs'[s].scrollOffset = Scrolled(fs[s]).scrollOffset
        /\ fs'[s].timer = "ready"
    BY <2>4, <2>5, ChangedParts
  <2>7. /\ Kept(s)
        /\ fs'[s].scrollOffset =
              IF fs[s].whichList = None THEN fs[s].scrollOffset
              ELSE SensibleOffset(fs[s].scrollOffset, Cardinality(Contents(fs[s])))
    BY <2>2, <2>6, ScrolledType DEF Kept
  <2>8. Redrawn(s)
    BY <2>1, <2>4, <2>6, <2>7 DEF Redrawn, ShowsList
  <2> QED
    BY <2>3, <2>8 DEF SetMoves
<1>3. "gcode" \in Sets
      /\ {"alert", "areYouSure", "fileDetail"} \subseteq Popups \ {"fileList", "macros"}
  BY DEF Sets, Popups
<1>4. CASE SelectFile
  <2>1. /\ OnTop(stack, "fileList")
        /\ stack' = SetPopup(stack, "fileDetail")
        /\ UNCHANGED <<fs, buttons, errorField>>
    BY <1>4 DEF SelectFile, receiving
  <2> QED
    BY <1>3, <2>1, NoMoves
<1>5. CASE PrintFile \/ DeleteFile \/ Confirm \/ Cancel
  <2>1. /\ stack' \in {NoPopups, ClearPopup(stack), ClearPopup(ClearPopup(stack)),
                       SetPopup(stack, "areYouSure")}
        /\ fs' \in {fs, [fs EXCEPT !["gcode"] = Pending(fs["gcode"])]}
        /\ UNCHANGED <<buttons, errorField>>
    BY <1>5 DEF PrintFile, DeleteFile, Confirm, Cancel, receiving
  <2> QED
    BY <1>3, <2>1, NoMoves
<1> QED
  BY <1>1, <1>2, <1>4, <1>5 DEF Touch, Sets

LEMMA FirmwareMoves ==
    ASSUME Inv, Firmware
    PROVE  \A s \in Sets : SetMoves(s)
<1>1. "gcode" \in Sets /\ "macro" \in Sets
      /\ "alert" \in Popups \ {"fileList", "macros"}
  BY DEF Sets, Popups
<1>2. PICK s \in Sets :
         fs' \in {fs, [fs EXCEPT ![s] = Pending(fs[s])],
                  [fs EXCEPT ![s] = Sent(fs[s])],
                  [fs EXCEPT !["gcode"].requestedPath =
                     SetupRootPath(fs["gcode"].cardNumber)]}
  BY <1>1 DEF Firmware, SendRequest, BecomeReady, Response, Disconnected,
     RefreshMacrosList, FirmwareFeaturesChanged
<1>3. stack' \in {stack, SetPopup(stack, "alert"), ClearThisPopup(stack, "alert"),
                  NoPopups}
  BY DEF Firmware, SendRequest, BecomeReady, Response, Disconnected,
     RefreshMacrosList, FirmwareFeaturesChanged, display
<1>4. UNCHANGED <<buttons, errorField>>
  BY DEF Firmware, SendRequest, BecomeReady, Response, Disconnected,
     RefreshMacrosList, FirmwareFeaturesChanged, display, receiving
<1> QED
  BY <1>1, <1>2, <1>3, <1>4, NoMoves

LEMMA SetStep ==
    ASSUME Inv, [Next]_vars
    PROVE  \A s \in Sets : SetMoves(s)
  BY ReceiveMoves, TouchMoves, FirmwareMoves DEF Next

-----------------------------------------------------------------------------
(* The list that is filled, and the buttons *)

\* Lists change only as the elements of an array of files are received.
LEMMA ListStep ==
    ASSUME [Next]_vars
    PROVE  \/ BeginReceivingFiles \/ ReceiveFile
           \/ UNCHANGED fileLists /\ newFileList' \in {newFileList, None}
<1>1. CASE Receive \/ LoseMessage \/ UNCHANGED vars
  BY <1>1 DEF Receive, StartMessage, ReceiveDirectoryName, ReceiveErrorCode,
     EndReceivedMessage, LoseMessage, vars, messageVars
<1>2. CASE Touch
  <2>1. UNCHANGED receiving
    BY <1>2 DEF Touch, Display, Scroll, RequestParentDir, OpenSubdir, SelectFile,
       PrintFile, DeleteFile, Confirm, Cancel, NextCard
  <2> QED
    BY <2>1 DEF receiving, messageVars
<1>3. CASE Firmware
  BY <1>3 DEF Firmware, SendRequest, BecomeReady, Response, Disconnected,
     RefreshMacrosList, FirmwareFeaturesChanged, receiving, messageVars
<1> QED
  BY <1>1, <1>2, <1>3 DEF Next

\* The list being filled, and what the other lists are afterwards.
LEMMA FilledList ==
    ASSUME Inv, FillsFreeList, BeginReceivingFiles \/ ReceiveFile
    PROVE  /\ UNCHANGED <<fs, display, userVars>>
           /\ \A s \in Sets : fs[s].whichList # None =>
                 /\ fs[s].whichList # newFileList'
                 /\ fileLists'[fs[s].whichList] = fileLists[fs[s].whichList]
<1>1. UNCHANGED <<fs, display, userVars>>
  BY DEF BeginReceivingFiles, ReceiveNoFiles, ReceiveFirstFile, ReceiveFile
<1>2. /\ fileLists \in [Lists -> SUBSET File]
      /\ \A s \in Sets : fs[s].whichList \in {None} \cup Lists
  BY DEF Inv, TypeOK, FileSet
<1>3. CASE BeginReceivingFiles
  <2>1. /\ newFileList' = FreeList
        /\ \A l \in Lists \ {FreeList} : fileLists'[l] = fileLists[l]
    BY <1>2, <1>3 DEF BeginReceivingFiles, ReceiveNoFiles, ReceiveFirstFile
  <2>2. \A s \in Sets : fs[s].whichList # FreeList
    BY FreeListIsFree
  <2> QED
    BY <1>1, <1>2, <2>1, <2>2
<1>4. CASE ReceiveFile
  <2>1. /\ newFileList' = newFileList
        /\ \A l \in Lists \ {newFileList} : fileLists'[l] = fileLists[l]
    BY <1>2, <1>4 DEF ReceiveFile, messageVars
  <2> QED
    BY <1>1, <1>2, <2>1 DEF FillsFreeList
<1> QED
  BY <1>3, <1>4

\* A list on display stays as it is.
LEMMA ListOnDisplay ==
    ASSUME Inv, FillsFreeList, [Next]_vars,
           NEW s \in Sets, fs[s].whichList # None
    PROVE  fileLists'[fs[s].whichList] = fileLists[fs[s].whichList]
  BY ListStep, FilledList

DisplayInv == Inv /\ FillsFreeList /\ ButtonsLeadToList

LEMMA StepDisplay ==
    ASSUME DisplayInv, [Next]_vars
    PROVE  DisplayInv'
<1>1. Inv /\ FillsFreeList /\ ButtonsLeadToList /\ Inv'
  BY StepInv DEF DisplayInv
<1>2. \A s \in Sets : SetMoves(s)
  BY <1>1, SetStep
<1>3. CASE BeginReceivingFiles \/ ReceiveFile
  <2>1. /\ fs' = fs /\ buttons' = buttons
        /\ \A s \in Sets : fs[s].whichList # None =>
              /\ fs[s].whichList # newFileList'
              /\ fileLists'[fs[s].whichList] = fileLists[fs[s].whichList]
    BY <1>1, <1>3, FilledList DEF display
  <2>2. FillsFreeList'
    BY <2>1 DEF FillsFreeList
  <2>3. \A s \in Sets : \A b \in buttons[s] : b.list \in Lists
    BY <1>1 DEF Inv, TypeOK, Pointer
  <2>4. None \notin Lists
    BY DEF None, Lists
  <2>5. ButtonsLeadToList'
    BY <1>1, <2>1, <2>3, <2>4 DEF ButtonsLeadToList
  <2> QED
    BY <1>1, <2>2, <2>5 DEF DisplayInv
<1>4. CASE UNCHANGED fileLists /\ newFileList' \in {newFileList, None}
  <2>1. FillsFreeList'
    <3> SUFFICES ASSUME newFileList' # None, NEW s \in Sets
                 PROVE  fs'[s].whichList # newFileList'
      BY DEF FillsFreeList
    <3>1. newFileList' = newFileList /\ fs[s].whichList # newFileList
      BY <1>1, <1>4 DEF FillsFreeList
    <3>2. Untouched(s) \/ Redrawn(s) \/ Hides(s)
      BY <1>2, <3>1 DEF SetMoves, Loads
    <3>3. fs'[s].whichList \in {fs[s].whichList, None}
      BY <3>2 DEF Untouched, Redrawn, Hides, Kept
    <3> QED
      BY <3>1, <3>3
  <2>2. ButtonsLeadToList'
    <3> SUFFICES ASSUME NEW s \in Sets, NEW b \in buttons'[s]
                 PROVE  b.list = fs'[s].whichList /\ b.file \in fileLists'[b.list]
      BY DEF ButtonsLeadToList
    <3>1. CASE Untouched(s)
      BY <1>1, <1>4, <3>1 DEF Untouched, Kept, ButtonsLeadToList
    <3>2. CASE Redrawn(s) \/ Hides(s) \/ Loads(s)
      BY <1>4, <3>2 DEF Redrawn, Hides, Loads, ShowsList
    <3> QED
      BY <1>2, <3>1, <3>2 DEF SetMoves
  <2> QED
    BY <1>1, <2>1, <2>2 DEF DisplayInv
<1> QED
  BY <1>3, <1>4, ListStep

LEMMA InitDisplay == Init => DisplayInv
<1> SUFFICES ASSUME Init PROVE DisplayInv
  OBVIOUS
<1>1. FillsFreeList /\ ButtonsLeadToList
  BY DEF Init, FillsFreeList, ButtonsLeadToList
<1> QED
  BY <1>1, InitInv DEF DisplayInv

\* A listing is never received into a list that a popup displays: when the
\* message's array begins a list is free, and no set takes it before the end.
THEOREM ListingFillsFreeList == Spec => []FillsFreeList
<1>1. Init => DisplayInv
  BY InitDisplay
<1>2. DisplayInv /\ [Next]_vars => DisplayInv'
  BY StepDisplay
<1>3. DisplayInv => FillsFreeList
  BY DEF DisplayInv
<1> QED
  BY <1>1, <1>2, <1>3, PTL DEF Spec

\* A button on show leads to a name of the list that its popup displays.
THEOREM ButtonLeadsToName == Spec => []ButtonsLeadToList
<1>1. Init => DisplayInv
  BY InitDisplay
<1>2. DisplayInv /\ [Next]_vars => DisplayInv'
  BY StepDisplay
<1>3. DisplayInv => ButtonsLeadToList
  BY DEF DisplayInv
<1> QED
  BY <1>1, <1>2, <1>3, PTL DEF Spec

-----------------------------------------------------------------------------
(* The offset of a popup *)

\* An offset at the start of a row is brought to the start of a row that the
\* list has.
LEMMA SensibleRow ==
    ASSUME NEW o \in Int, o % Rows = 0, NEW size \in Nat
    PROVE  /\ SensibleOffset(o, size) % Rows = 0
           /\ SensibleOffset(o, size) \in 0 .. size
           /\ size # 0 => SensibleOffset(o, size) # size
<1>1. Rows \in Nat \ {0}
  BY FileAssumption
<1>2. 0 % Rows = 0
  <2>1. (0 * Rows) % Rows = 0
    BY <1>1, WholeRows
  <2> QED
    BY <1>1, <2>1
<1>3. CASE o < 0 \/ size = 0
  BY <1>2, <1>3 DEF SensibleOffset
<1>4. CASE ~(o < 0 \/ size = 0) /\ o >= size
  <2> DEFINE last == ((size - 1) \div Rows) * Rows
  <2>1. last \in 0 .. size - 1 /\ last % Rows = 0
    BY <1>1, <1>4, LastPage
  <2>2. SensibleOffset(o, size) = last
    BY <1>4 DEF SensibleOffset
  <2> HIDE DEF last
  <2> QED
    BY <2>1, <2>2
<1>5. CASE ~(o < 0 \/ size = 0) /\ ~(o >= size)
  BY <1>5 DEF SensibleOffset
<1> QED
  BY <1>3, <1>4, <1>5

\* The offset of a hidden list, too, is the start of a row.
OffsetInv ==
    /\ \A s \in Sets : fs[s].scrollOffset % Rows = 0
    /\ OffsetInList

LEMMA StepOffset ==
    ASSUME DisplayInv, OffsetInv, [Next]_vars
    PROVE  OffsetInv'
<1>1. Inv /\ FillsFreeList
  BY DEF DisplayInv
<1>2. SUFFICES ASSUME NEW s \in Sets
               PROVE  /\ fs'[s].scrollOffset % Rows = 0
                      /\ fs'[s].whichList # None =>
                           LET size == Cardinality(fileLists'[fs'[s].whichList])
                           IN  /\ fs'[s].scrollOffset \in 0 .. size
                               /\ size # 0 => fs'[s].scrollOffset # size
  <2>1. ASSUME NEW l \in Lists
        PROVE  fileLists'[l] # {} => Cardinality(fileLists'[l]) # 0
    <3>1. IsFiniteSet(fileLists'[l])
      BY <1>1, StepInv DEF Inv, ListsFit
    <3> QED
      BY <3>1, FS_EmptySet
  <2>2. \A s \in Sets : fs'[s].whichList # None => fs'[s].whichList \in Lists
    BY <1>1, StepInv DEF Inv, TypeOK, FileSet
  <2> QED
    BY <1>2, <2>1, <2>2 DEF OffsetInv, OffsetInList, Contents
<1>3. /\ fs[s].scrollOffset \in Int
      /\ fs[s].scrollOffset % Rows = 0
      /\ fs[s].whichList \in {None} \cup Lists
      /\ newFileList \in {None} \cup Lists
      /\ Rows \in Nat \ {0}
  BY <1>1, FileAssumption DEF Inv, TypeOK, FileSet, OffsetInv
<1>4. \A l \in Lists : /\ IsFiniteSet(fileLists[l])
                       /\ Cardinality(fileLists[l]) \in Nat
                       /\ Cardinality(fileLists[l]) # 0 => fileLists[l] # {}
  BY <1>1, FS_CardinalityType, FS_EmptySet DEF Inv, ListsFit
<1>5. SetMoves(s)
  BY <1>1, SetStep
<1>6. CASE Untouched(s)
  <2>1. /\ fs'[s].scrollOffset = fs[s].scrollOffset
        /\ fs'[s].whichList = fs[s].whichList
    BY <1>6 DEF Untouched, Kept
  <2>2. fs[s].whichList # None =>
           fileLists'[fs[s].whichList] = fileLists[fs[s].whichList]
    BY <1>1, ListOnDisplay
  <2> QED
    BY <1>3, <1>4, <2>1, <2>2 DEF OffsetInv, OffsetInList, Contents
<1>7. CASE Redrawn(s)
  <2>1. PICK o \in {fs[s].scrollOffset, fs[s].scrollOffset - Rows,
                    fs[s].scrollOffset + Rows} :
           fs'[s].scrollOffset =
              IF fs[s].whichList = None THEN o
              ELSE SensibleOffset(o, Cardinality(fileLists[fs[s].whichList]))
    BY <1>7 DEF Redrawn, Contents
  <2>2. o \in Int /\ o % Rows = 0
    <3>1. /\ (fs[s].scrollOffset + Rows) % Rows = 0
          /\ (fs[s].scrollOffset - Rows) % Rows = 0
      BY <1>3, RowStep
    <3>2. CASE o = fs[s].scrollOffset
      BY <1>3, <3>2
    <3>3. CASE o = fs[s].scrollOffset - Rows
      BY <1>3, <3>1, <3>3
    <3>4. CASE o = fs[s].scrollOffset + Rows
      BY <1>3, <3>1, <3>4
    <3> QED
      BY <3>2, <3>3, <3>4
  <2>3. fs'[s].whichList = fs[s].whichList /\ fileLists' = fileLists
    BY <1>7 DEF Redrawn, Kept
  <2>4. CASE fs[s].whichList = None
    BY <2>1, <2>2, <2>3, <2>4
  <2>5. CASE fs[s].whichList # None
    BY <1>3, <1>4, <2>1, <2>2, <2>3, <2>5, SensibleRow
  <2> QED
    BY <2>4, <2>5
<1>8. CASE Hides(s)
  BY <1>3, <1>8 DEF Hides
<1>9. CASE Loads(s)
  <2>1. /\ newFileList \in Lists
        /\ fs'[s].whichList = newFileList
        /\ fileLists' = fileLists
        /\ fs'[s].scrollOffset = SensibleOffset(fs[s].scrollOffset,
                                    Cardinality(fileLists[newFileList]))
    BY <1>3, <1>9 DEF Loads
  <2> QED
    BY <1>3, <1>4, <2>1, SensibleRow
<1> QED
  BY <1>5, <1>6, <1>7, <1>8, <1>9 DEF SetMoves

\* A popup shows its list from the start of a row that the list has, also
\* after a listing became shorter or was scrolled while it was hidden.
THEOREM OffsetIsInList == Spec => []OffsetInList
<1>1. Init => DisplayInv /\ OffsetInv
  <2>1. Rows \in Nat \ {0}
    BY FileAssumption
  <2>2. 0 % Rows = 0
    <3>1. (0 * Rows) % Rows = 0
      BY <2>1, WholeRows
    <3> QED
      BY <2>1, <3>1
  <2> QED
    BY <2>2, InitDisplay DEF Init, InitialSet, OffsetInv, OffsetInList
<1>2. DisplayInv /\ OffsetInv /\ [Next]_vars => DisplayInv' /\ OffsetInv'
  BY StepDisplay, StepOffset
<1>3. OffsetInv => OffsetInList
  BY DEF OffsetInv
<1> QED
  BY <1>1, <1>2, <1>3, PTL DEF Spec

-----------------------------------------------------------------------------
(* The listing received *)

(* What a list holds while "left" of the names of "all" are still to come:  *)
(* every name that came before, or as many as fit.                          *)
PartOf(files, left, all) ==
    /\ files \subseteq all
    /\ left \subseteq all
    /\ files \cup left = all \/ Cardinality(files) = Capacity

MessageInv ==
    /\ msg.stage \in {"dir", "files"} => msg.left = ListingOf(msg.dir)
    /\ msg.stage \in Stages \ {"dir"} => fileDirectoryName = msg.dir
    /\ msg.stage \in {"err", "end"} => msg.left = {}
    /\ msg.stage \in {"more", "err", "end"} =>
          /\ newFileList # None
          /\ PartOf(fileLists[newFileList], msg.left, ListingOf(msg.dir))

\* One more name came, and fitted or did not.
LEMMA PartGrows ==
    ASSUME NEW files, NEW left, NEW all, PartOf(files, left, all),
           IsFiniteSet(files), Cardinality(files) <= Capacity, NEW file \in left
    PROVE  PartOf(Received(files, file), left \ {file}, all)
<1>1. Cardinality(files) \in Nat /\ Capacity \in Nat
  BY FS_CardinalityType, FileAssumption
<1>2. CASE Cardinality(files) < Capacity
  <2>1. Received(files, file) = files \cup {file}
    BY <1>2 DEF Received
  <2>2. files \cup left = all
    BY <1>1, <1>2 DEF PartOf
  <2> QED
    BY <2>1, <2>2 DEF PartOf
<1>3. CASE ~(Cardinality(files) < Capacity)
  <2>1. Received(files, file) = files
    BY <1>3 DEF Received
  <2>2. Cardinality(files) = Capacity
    BY <1>1, <1>3
  <2> QED
    BY <2>1, <2>2 DEF PartOf
<1> QED
  BY <1>2, <1>3

\* Only the receiver changes what is known of the message.
LEMMA MessageStep ==
    ASSUME [Next]_vars
    PROVE  \/ StartMessage \/ ReceiveDirectoryName \/ BeginReceivingFiles
           \/ ReceiveFile \/ ReceiveErrorCode
           \/ msg' = NoMessage
           \/ UNCHANGED <<msg, newFileList, fileDirectoryName, fileLists>>
<1>1. CASE Receive \/ LoseMessage \/ UNCHANGED vars
  BY <1>1 DEF Receive, EndReceivedMessage, LoseMessage, vars, messageVars
<1>2. CASE Touch
  <2>1. UNCHANGED receiving
    BY <1>2 DEF Touch, Display, Scroll, RequestParentDir, OpenSubdir, SelectFile,
       PrintFile, DeleteFile, Confirm, Cancel, NextCard
  <2> QED
    BY <2>1 DEF receiving, messageVars
<1>3. CASE Firmware
  BY <1>3 DEF Firmware, SendRequest, BecomeReady, Response, Disconnected,
     RefreshMacrosList, FirmwareFeaturesChanged, receiving, messageVars
<1> QED
  BY <1>1, <1>2, <1>3 DEF Next

LEMMA StepMessage ==
    ASSUME Inv, MessageInv, [Next]_vars
    PROVE  MessageInv'
<1>1. /\ fileLists \in [Lists -> SUBSET File]
      /\ newFileList \in {None} \cup Lists
      /\ \A l \in Lists : /\ IsFiniteSet(fileLists[l])
                          /\ Cardinality(fileLists[l]) <= Capacity
  BY DEF Inv, TypeOK, ListsFit
<1>2. msg.stage \in Stages =>
         msg \in [stage : Stages, dir : Paths, left : SUBSET File]
  BY MessageType
<1>3. None \notin Lists
  BY DEF None, Lists
<1>4. CASE StartMessage
  <2>1. /\ msg'.stage = "dir"
        /\ msg'.left = ListingOf(msg'.dir)
    BY <1>4 DEF StartMessage
  <2> QED
    BY <2>1 DEF MessageInv
<1>5. CASE ReceiveDirectoryName
  <2>1. /\ msg.stage = "dir"
        /\ msg' = [msg EXCEPT !.stage = "files"]
        /\ fileDirectoryName' = msg.dir
    BY <1>5 DEF ReceiveDirectoryName
  <2>2. /\ msg'.stage = "files"
        /\ msg'.dir = msg.dir
        /\ msg'.left = msg.left
    BY <1>2, <2>1 DEF Stages
  <2> QED
    BY <2>1, <2>2 DEF MessageInv
<1>6. CASE BeginReceivingFiles
  <2>1. /\ msg.stage = "files"
        /\ newFileList' = FreeList
        /\ fileDirectoryName' = fileDirectoryName
        /\ FreeList \in Lists
    BY <1>6, FreeListIsFree DEF
       BeginReceivingFiles, ReceiveNoFiles, ReceiveFirstFile
  <2>2. /\ msg \in [stage : Stages, dir : Paths, left : SUBSET File]
        /\ msg.left = ListingOf(msg.dir)
        /\ fileDirectoryName = msg.dir
    BY <1>2, <2>1 DEF Stages, MessageInv
  <2>3. CASE /\ msg.left = {}
             /\ fileLists' = [fileLists EXCEPT ![FreeList] = {}]
             /\ msg' = [msg EXCEPT !.stage = "err"]
    <3>1. msg'.stage = "err" /\ msg'.dir = msg.dir /\ msg'.left = {}
      BY <2>2, <2>3
    <3>2. fileLists'[newFileList'] = {}
      BY <1>1, <2>1, <2>3
    <3>3. PartOf({}, {}, ListingOf(msg.dir))
      BY <2>2, <2>3 DEF PartOf
    <3> QED
      BY <1>3, <2>1, <2>2, <3>1, <3>2, <3>3 DEF MessageInv
  <2>4. ASSUME NEW file \in msg.left,
               fileLists' = [fileLists EXCEPT ![FreeList] = Received({}, file)],
               msg' = [msg EXCEPT !.stage = "more", !.left = msg.left \ {file}]
        PROVE  MessageInv'
    <3>1. /\ msg'.stage = "more"
          /\ msg'.dir = msg.dir
          /\ msg'.left = msg.left \ {file}
      BY <2>2, <2>4
    <3>2. fileLists'[newFileList'] = Received({}, file)
      BY <1>1, <2>1, <2>4
    <3>3. PartOf({}, msg.left, ListingOf(msg.dir))
      BY <2>2 DEF PartOf
    <3>4. PartOf(Received({}, file), msg.left \ {file}, ListingOf(msg.dir))
      BY <3>3, EmptyFits, PartGrows
    <3> QED
      BY <1>3, <2>1, <2>2, <3>1, <3>2, <3>4 DEF MessageInv
  <2> QED
    BY <1>6, <2>3, <2>4 DEF
       BeginReceivingFiles, ReceiveNoFiles, ReceiveFirstFile
<1>7. CASE ReceiveFile
  <2>1. /\ msg.stage = "more"
        /\ UNCHANGED <<newFileList, fileDirectoryName>>
    BY <1>7 DEF ReceiveFile, messageVars
  <2>2. /\ msg \in [stage : Stages, dir : Paths, left : SUBSET File]
        /\ fileDirectoryName = msg.dir
        /\ newFileList \in Lists
        /\ newFileList # None
        /\ PartOf(fileLists[newFileList], msg.left, ListingOf(msg.dir))
    BY <1>1, <1>2, <2>1 DEF Stages, MessageInv
  <2>3. PICK file \in msg.left :
           /\ msg' = [msg EXCEPT !.left = msg.left \ {file}]
           /\ fileLists' = [fileLists EXCEPT ![newFileList] =
                               Received(fileLists[newFileList], file)]
    BY <1>7, <2>2 DEF ReceiveFile
  <2>4. /\ msg'.stage = "more"
        /\ msg'.dir = msg.dir
        /\ msg'.left = msg.left \ {file}
    BY <2>1, <2>2, <2>3
  <2>5. fileLists'[newFileList'] = Received(fileLists[newFileList], file)
    BY <1>1, <2>1, <2>2, <2>3
  <2>6. PartOf(Received(fileLists[newFileList], file), msg.left \ {file},
               ListingOf(msg.dir))
    BY <1>1, <2>2, PartGrows
  <2> QED
    BY <2>1, <2>2, <2>4, <2>5, <2>6 DEF MessageInv
<1>8. CASE ReceiveErrorCode
  <2>1. /\ msg.stage = "err" \/ (msg.stage = "more" /\ msg.left = {})
        /\ msg' = [msg EXCEPT !.stage = "end"]
        /\ UNCHANGED <<fileLists, newFileList, fileDirectoryName>>
    BY <1>8 DEF ReceiveErrorCode
  <2>2. /\ msg \in [stage : Stages, dir : Paths, left : SUBSET File]
        /\ fileDirectoryName = msg.dir
        /\ msg.left = {}
        /\ newFileList # None
        /\ PartOf(fileLists[newFileList], msg.left, ListingOf(msg.dir))
    BY <1>2, <2>1 DEF Stages, MessageInv
  <2>3. /\ msg'.stage = "end"
        /\ msg'.dir = msg.dir
        /\ msg'.left = msg.left
    BY <2>1, <2>2
  <2> QED
    BY <2>1, <2>2, <2>3 DEF MessageInv
<1>9. CASE msg' = NoMessage
  <2>1. msg'.stage = "none"
    BY <1>9 DEF NoMessage
  <2> QED
    BY <2>1 DEF MessageInv, Stages
<1>10. CASE UNCHANGED <<msg, newFileList, fileDirectoryName, fileLists>>
  BY <1>10 DEF MessageInv
<1> QED
  BY <1>4, <1>5, <1>6, <1>7, <1>8, <1>9, <1>10, MessageStep

ListingInv == DisplayInv /\ MessageInv /\ ListIsOfPath

LEMMA StepListing ==
    ASSUME ListingInv, [Next]_vars
    PROVE  ListingInv'
<1>1. /\ DisplayInv /\ Inv /\ FillsFreeList /\ MessageInv /\ ListIsOfPath
      /\ DisplayInv' /\ Inv' /\ MessageInv'
  BY StepDisplay, StepMessage, StepInv DEF ListingInv, DisplayInv
<1>2. ListIsOfPath'
  <2> SUFFICES ASSUME NEW s \in Sets, fs'[s].whichList # None
               PROVE  LET all == ListingOf(fs'[s].currentPath)
                          files == fileLists'[fs'[s].whichList]
                      IN  /\ files \subseteq all
                          /\ Cardinality(files) <= Capacity
                          /\ files = all \/ Cardinality(files) = Capacity
    BY DEF ListIsOfPath, Contents
  <2>1. SetMoves(s)
    BY <1>1, SetStep
  <2>2. fs'[s].whichList \in Lists
    BY <1>1 DEF Inv, TypeOK, FileSet
  <2>3. Cardinality(fileLists'[fs'[s].whichList]) <= Capacity
    BY <1>1, <2>2 DEF Inv, ListsFit
  <2>4. CASE Untouched(s) \/ Redrawn(s)
    <3>1. fs'[s].whichList = fs[s].whichList /\ fs'[s].currentPath = fs[s].currentPath
      BY <2>4 DEF Untouched, Redrawn, Kept
    <3>2. fileLists'[fs[s].whichList] = fileLists[fs[s].whichList]
      BY <1>1, <3>1, ListOnDisplay
    <3> QED
      BY <1>1, <3>1, <3>2 DEF ListIsOfPath, Contents
  <2>5. CASE Loads(s)
    <3>1. /\ msg.stage = "end"
          /\ fs'[s].whichList = newFileList
          /\ fs'[s].currentPath = fileDirectoryName
          /\ fileLists' = fileLists
      BY <2>5 DEF Loads
    <3>2. /\ fileDirectoryName = msg.dir
          /\ msg.left = {}
          /\ PartOf(fileLists[newFileList], msg.left, ListingOf(msg.dir))
      BY <1>1, <3>1 DEF MessageInv, Stages
    <3>3. /\ fileLists[newFileList] \subseteq ListingOf(msg.dir)
          /\ \/ fileLists[newFileList] = ListingOf(msg.dir)
             \/ Cardinality(fileLists[newFileList]) = Capacity
      BY <3>2 DEF PartOf
    <3> QED
      BY <2>3, <3>1, <3>2, <3>3
  <2> QED
    BY <2>1, <2>4, <2>5 DEF SetMoves, Hides
<1> QED
  BY <1>1, <1>2 DEF ListingInv

LEMMA InitListing == Init => ListingInv
<1> SUFFICES ASSUME Init PROVE ListingInv
  OBVIOUS
<1>1. \A s \in Sets : fs[s].whichList = None
  BY DEF Init, InitialSet
<1>2. ListIsOfPath
  BY <1>1 DEF ListIsOfPath
<1>3. msg.stage = "none"
  BY DEF Init, NoMessage
<1>4. MessageInv
  BY <1>3 DEF MessageInv, Stages
<1> QED
  BY <1>2, <1>4, InitDisplay DEF ListingInv

\* The list a popup displays is all of the directory whose path it puts before
\* the names, or as much of it as fits, also when answers were cut short.
THEOREM ListIsTheListing == Spec => []ListIsOfPath
<1>1. Init => ListingInv
  BY InitListing
<1>2. ListingInv /\ [Next]_vars => ListingInv'
  BY StepListing
<1>3. ListingInv => ListIsOfPath
  BY DEF ListingInv
<1> QED
  BY <1>1, <1>2, <1>3, PTL DEF Spec

-----------------------------------------------------------------------------
(* What the commands name *)

\* The file whose details are displayed is in the list of the G-code files,
\* and the macros on the Control page are in the macros' root.
CommandInv ==
    /\ currentFile # NoFile /\ IsPopupActive(stack, "fileDetail") =>
          /\ currentFile.list = fs["gcode"].whichList
          /\ currentFile.file \in fileLists[currentFile.list]
    /\ \A g \in shortList : g.dir = MacrosRoot

\* A directory below which there are the macros and nothing above them.
LEMMA RootOfMacros ==
    ASSUME NEW path \in Paths, IsMacroPath(path), Len(path.names) = 1
    PROVE  path = MacrosRoot
<1>1. /\ path.names \in Seq(Names)
      /\ Len(path.names) = 1
      /\ path.names[1] = Macros
      /\ path.card = 0
      /\ path = [card |-> path.card, names |-> path.names]
  BY DEF Paths, IsMacroPath
<1>2. /\ <<Macros>> \in Seq(Names)
      /\ Len(<<Macros>>) = 1
      /\ <<Macros>>[1] = Macros
  BY FileAssumption
<1>3. path.names = <<Macros>>
  BY <1>1, <1>2, SeqEqual
<1> QED
  BY <1>1, <1>3 DEF MacrosRoot, Path

\* The macros on the Control page change with the listing of the macros' root.
LEMMA StepShortList ==
    ASSUME ListingInv, CommandInv, [Next]_vars
    PROVE  \A g \in shortList' : g.dir = MacrosRoot
<1>1. CASE shortList' = shortList
  BY <1>1 DEF CommandInv
<1>2. CASE /\ EndReceivedMessage /\ newFileList # None
           /\ IsMacroPath(fileDirectoryName) /\ InMacrosRoot
           /\ shortList' = ShortListNow
  <2>1. /\ fileDirectoryName \in Paths
        /\ fileDirectoryName = msg.dir
        /\ PartOf(fileLists[newFileList], msg.left, ListingOf(msg.dir))
    BY <1>2 DEF EndReceivedMessage, ListingInv, DisplayInv, Inv, TypeOK,
       MessageInv, Stages
  <2>2. fileDirectoryName = MacrosRoot
    BY <1>2, <2>1, RootOfMacros DEF InMacrosRoot
  <2>3. shortList' \subseteq fileLists[newFileList]
    BY <1>2 DEF ShortListNow, MacroFiles
  <2> QED
    BY <2>1, <2>2, <2>3, ListingType DEF PartOf
<1>3. CASE Receive \/ LoseMessage \/ UNCHANGED vars
  <2>1. CASE EndReceivedMessage
    BY <1>1, <1>2, <2>1 DEF EndReceivedMessage, ReloadMacroShortList, display
  <2>2. CASE ~EndReceivedMessage
    BY <1>1, <1>3, <2>2 DEF Receive, StartMessage, ReceiveDirectoryName,
       BeginReceivingFiles, ReceiveNoFiles, ReceiveFirstFile, ReceiveFile,
       ReceiveErrorCode, LoseMessage, display, vars
  <2> QED
    BY <2>1, <2>2
<1>4. CASE Touch
  <2>1. UNCHANGED receiving
    BY <1>4 DEF Touch, Display, Scroll, RequestParentDir, OpenSubdir, SelectFile,
       PrintFile, DeleteFile, Confirm, Cancel, NextCard
  <2> QED
    BY <1>1, <2>1 DEF receiving
<1>5. CASE Firmware
  BY <1>1, <1>5 DEF Firmware, SendRequest, BecomeReady, Response, Disconnected,
     RefreshMacrosList, FirmwareFeaturesChanged, receiving, display
<1> QED
  BY <1>3, <1>4, <1>5 DEF Next

\* The details of a file come up as it is selected, and not otherwise.
LEMMA CurrentStep ==
    ASSUME Inv, [Next]_vars, ~SelectFile
    PROVE  /\ currentFile' \in {currentFile, NoFile}
           /\ IsPopupActive(stack', "fileDetail") =>
                 IsPopupActive(stack, "fileDetail")
<1> DEFINE Still == IsPopupActive(stack', "fileDetail") =>
                       IsPopupActive(stack, "fileDetail")
<1>1. ASSUME NEW s \in Sets, NEW f \in FileSet, FileListUpdated(s, f)
      PROVE  Still
  <2>1. stack' = stack \/ stack' = SetPopup(stack, PopupOf(s))
    BY <1>1, UpdatedPopup
  <2>2. PopupOf(s) # "fileDetail"
    BY DEF PopupOf
  <2> QED
    BY <2>1, <2>2, StackKept
<1>2. ASSUME NEW p \in Popups \ {"fileDetail"},
             stack' \in {stack, SetPopup(stack, p), ClearThisPopup(stack, p),
                         ClearPopup(stack), ClearPopup(ClearPopup(stack)),
                         NoPopups}
      PROVE  Still
  BY <1>2, OnDisplay
<1>3. {"alert", "areYouSure"} \subseteq Popups \ {"fileDetail"}
      /\ \A s \in Sets : PopupOf(s) \in Popups \ {"fileDetail"}
  BY DEF Popups, PopupOf
<1> HIDE DEF Still
<1>4. CASE Receive
  <2>1. currentFile' = currentFile
    BY <1>4 DEF Receive, StartMessage, ReceiveDirectoryName,
       BeginReceivingFiles, ReceiveNoFiles, ReceiveFirstFile,
       ReceiveFile, ReceiveErrorCode, EndReceivedMessage, userVars
  <2>2. CASE \E s \in Sets : Reload(s)
    <3>1. PICK s \in Sets : FileListUpdated(s, Reloaded(fs[s]))
      BY <2>2 DEF Reload
    <3>2. Reloaded(fs[s]) \in FileSet
      BY ChangedSets DEF Inv, TypeOK
    <3> QED
      BY <1>1, <2>1, <3>1, <3>2 DEF Still
  <2>3. CASE stack' = stack
    BY <2>1, <2>3
  <2>4. stack' = stack \/ \E s \in Sets : Reload(s)
    BY <1>4 DEF Receive, StartMessage, ReceiveDirectoryName,
       BeginReceivingFiles, ReceiveNoFiles, ReceiveFirstFile,
       ReceiveFile, ReceiveErrorCode, EndReceivedMessage, display, Sets
  <2> QED
    BY <2>2, <2>3, <2>4
<1>5. CASE LoseMessage \/ UNCHANGED vars
  BY <1>5 DEF LoseMessage, userVars, display, vars
<1>6. CASE Firmware
  <2>1. /\ currentFile' = currentFile
        /\ stack' \in {stack, SetPopup(stack, "alert"),
                       ClearThisPopup(stack, "alert"), NoPopups}
    BY <1>6 DEF Firmware, SendRequest, BecomeReady, Response, Disconnected,
       RefreshMacrosList, FirmwareFeaturesChanged, userVars, display
  <2> QED
    BY <1>2, <1>3, <2>1 DEF Still
<1>7. ASSUME NEW s \in Sets,
             \/ Scroll(s) \/ RequestParentDir(s) \/ OpenSubdir(s)
             \/ NextCard /\ s = "gcode"
      PROVE  currentFile' = currentFile /\ Still
  <2>1. UNCHANGED userVars /\ \E f \in FileSet : FileListUpdated(s, f)
    BY <1>7, PressedButton
  <2> QED
    BY <1>1, <2>1 DEF userVars
<1>8. ASSUME NEW s \in Sets, Display(s)
      PROVE  currentFile' = currentFile /\ Still
  BY <1>2, <1>3, <1>8 DEF Display, userVars
<1>9. CASE PrintFile \/ DeleteFile \/ Confirm \/ Cancel
  <2>1. /\ currentFile' \in {currentFile, NoFile}
        /\ stack' \in {NoPopups, ClearPopup(stack), ClearPopup(ClearPopup(stack)),
                       SetPopup(stack, "areYouSure")}
    BY <1>9 DEF PrintFile, DeleteFile, Confirm, Cancel
  <2> QED
    BY <1>2, <1>3, <2>1 DEF Still
<1>10. CASE Touch
  BY <1>7, <1>8, <1>9, <1>10 DEF Touch, Still, Sets
<1> QED
  BY <1>4, <1>5, <1>6, <1>10 DEF Next

LEMMA StepCommand ==
    ASSUME ListingInv, CommandInv, [Next]_vars
    PROVE  CommandInv'
<1>1. Inv /\ FillsFreeList /\ ButtonsLeadToList
  BY DEF ListingInv, DisplayInv
<1>2. "gcode" \in Sets
  BY DEF Sets
<1>3. ASSUME currentFile' # NoFile, IsPopupActive(stack', "fileDetail")
      PROVE  /\ currentFile'.list = fs'["gcode"].whichList
             /\ currentFile'.file \in fileLists'[currentFile'.list]
  <2>1. CASE SelectFile
    <3>1. PICK b \in buttons["gcode"] : currentFile' = b
      BY <2>1 DEF SelectFile
    <3>2. UNCHANGED <<fs, fileLists>>
      BY <2>1 DEF SelectFile, receiving
    <3> QED
      BY <1>1, <1>2, <3>1, <3>2 DEF ButtonsLeadToList
  <2>2. CASE ~SelectFile
    <3>1. /\ currentFile' = currentFile
          /\ currentFile # NoFile
          /\ IsPopupActive(stack, "fileDetail")
      BY <1>1, <1>3, <2>2, CurrentStep
    <3>2. /\ currentFile.list = fs["gcode"].whichList
          /\ currentFile.file \in fileLists[currentFile.list]
      BY <3>1 DEF CommandInv
    <3>3. fs["gcode"].whichList # None
      BY <1>1, <3>1, <3>2 DEF Inv, TypeOK, Pointer, Lists, None
    <3>4. fileLists'[currentFile.list] = fileLists[currentFile.list]
      BY <1>1, <1>2, <3>2, <3>3, ListOnDisplay
    <3>5. Untouched("gcode") \/ Redrawn("gcode")
      BY <1>1, <1>2, <3>1, SetStep DEF SetMoves, Hides, Loads, MayGo
    <3> QED
      BY <3>1, <3>2, <3>4, <3>5 DEF Untouched, Redrawn, Kept
  <2> QED
    BY <2>1, <2>2
<1> QED
  BY <1>3, StepShortList DEF CommandInv

\* A name that a button or a command takes from a list on display is that of
\* the file with the path in front of it.
LEMMA NamedFile ==
    ASSUME ListingInv, NEW s \in Sets, NEW p \in Pointer,
           p.list = fs[s].whichList, p.file \in fileLists[p.list]
    PROVE  Named(fs[s].currentPath, NameAt(p)) = p.file
<1>1. /\ fs[s].currentPath \in Paths
      /\ p.file \in File
      /\ fs[s].whichList # None
  BY DEF ListingInv, DisplayInv, Inv, TypeOK, FileSet, Pointer, Lists, None
<1>2. p.file \in ListingOf(fs[s].currentPath)
  BY <1>1 DEF ListingInv, ListIsOfPath, Contents
<1>3. p.file.dir = fs[s].currentPath
  BY <1>1, <1>2, ListingType
<1>4. NameAt(p) = p.file.name
  BY DEF NameAt
<1>5. p.file = [dir |-> p.file.dir, name |-> p.file.name]
  BY <1>1 DEF File
<1> QED
  BY <1>3, <1>4, <1>5 DEF Named

LEMMA CommandsFollow ==
    ASSUME ListingInv, CommandInv
    PROVE  CommandsNameFiles
<1>1. /\ currentFile \in Pointer \cup {NoFile}
      /\ buttons \in [Sets -> SUBSET Pointer]
      /\ shortList \subseteq File
      /\ ButtonsLeadToList
  BY DEF ListingInv, DisplayInv, Inv, TypeOK
<1>2. "gcode" \in Sets /\ "macro" \in Sets
  BY DEF Sets
<1>3. ASSUME currentFile # NoFile, IsPopupActive(stack, "fileDetail")
      PROVE  Named(fs["gcode"].currentPath, NameAt(currentFile)) = currentFile.file
  BY <1>1, <1>2, <1>3, NamedFile DEF CommandInv
<1>4. \A b \in buttons["macro"] :
         Named(fs["macro"].currentPath, NameAt(b)) = b.file
  BY <1>1, <1>2, NamedFile DEF ButtonsLeadToList
<1>5. ASSUME NEW g \in shortList
      PROVE  Named(MacrosRoot, g.name) = g
  <2>1. g.dir = MacrosRoot /\ g = [dir |-> g.dir, name |-> g.name]
    BY <1>1 DEF CommandInv, File
  <2> QED
    BY <2>1 DEF Named
<1> QED
  BY <1>3, <1>4, <1>5 DEF CommandsNameFiles

\* The print, delete and macro commands put together the path and the name of
\* the file that the user pressed, whatever arrived since.
THEOREM CommandNamesFile == Spec => []CommandsNameFiles
<1>1. Init => ListingInv /\ CommandInv
  BY InitListing DEF Init, CommandInv
<1>2. ListingInv /\ CommandInv /\ [Next]_vars => ListingInv' /\ CommandInv'
  BY StepListing, StepCommand
<1>3. ListingInv /\ CommandInv => CommandsNameFiles
  BY CommandsFollow
<1> QED
  BY <1>1, <1>2, <1>3, PTL DEF Spec

-----------------------------------------------------------------------------
(* A hidden list *)

LEMMA StepHidden ==
    ASSUME Inv, HiddenListIsAwaited, [Next]_vars
    PROVE  HiddenListIsAwaited'
<1> SUFFICES ASSUME NEW s \in Sets,
                    IsPopupActive(stack', PopupOf(s)), fs'[s].whichList = None
             PROVE  errorField'[s] \/ fs'[s].timer # "stopped"
  BY DEF HiddenListIsAwaited
<1>1. SetMoves(s)
  BY SetStep
<1>2. CASE Untouched(s) \/ Redrawn(s)
  BY <1>2 DEF Untouched, Redrawn, Kept, HiddenListIsAwaited
<1>3. CASE Hides(s) \/ Loads(s)
  BY <1>3 DEF Hides, Loads
<1> QED
  BY <1>1, <1>2, <1>3 DEF SetMoves

\* A popup without a list shows an error, or the listing is asked for until it
\* comes: the timer stops only as a set is reloaded.
THEOREM HiddenIsAwaited == Spec => []HiddenListIsAwaited
<1>1. Init => Inv /\ HiddenListIsAwaited
  <2>1. Init => HiddenListIsAwaited
    BY DEF Init, NoPopups, IsPopupActive, HiddenListIsAwaited
  <2> QED
    BY <2>1, InitInv
<1>2. Inv /\ HiddenListIsAwaited /\ [Next]_vars => Inv' /\ HiddenListIsAwaited'
  BY StepInv, StepHidden
<1> QED
  BY <1>1, <1>2, PTL DEF Spec
=============================================================================
