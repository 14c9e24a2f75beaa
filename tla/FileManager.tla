----------------------------- MODULE FileManager -----------------------------
(***************************************************************************)
(* Browsing the printer's SD cards (FileManager.cpp, RequestTimer.cpp and   *)
(* the file buttons and popups of UserInterface.cpp).                       *)
(*                                                                          *)
(* There are two file sets, the G-code files and the macros, and three      *)
(* lists: each set may display one of them while the third receives the     *)
(* next listing.  A set requests a directory through its RequestTimer,      *)
(* which sends M20 from the poll loop and again when no answer has come.    *)
(* An answer arrives as a JSON message, one field at a time, and the user   *)
(* presses buttons between the fields.                                      *)
(*                                                                          *)
(* A path is the number of a card and the names below its root; a file is   *)
(* its name with the directory the printer listed it in, which the code     *)
(* does not keep: the button's text is only the name.  Buttons and          *)
(* currentFile are pointers into one of the lists, here the number of the   *)
(* list and the file that was at the place pointed to.                      *)
(***************************************************************************)
EXTENDS Integers, FiniteSets, PopupStack

CONSTANTS
    Listing,         \* the printer's directories: names by path
    Names,           \* names of files and directories
    DirNames,        \* those listed with a '*', that is, directories
    Rank,            \* position of a name in alphabetical order
    Gcodes, Macros,  \* the names "gcodes" and "macros"
    NoGcodesFolder,  \* firmware feature: files are kept in the card's root
    NumVolumes,      \* number of card sockets
    Rows,            \* rows of file buttons in a popup
    Capacity,        \* names that fit in a list
    NumShort,        \* macro buttons on the Control page
    Opened,          \* bound: sets whose popup the user opens
    MaxWire,         \* bound: requests the printer has yet to answer
    MaxScroll,       \* bound: scroll offset while the list is hidden
    Lossy            \* TRUE if answers may be lost or cut short

Path(card, names) == [card |-> card, names |-> names]
Paths == [card : 0 .. 9, names : Seq(Names)]

ASSUME FileAssumption ==
    /\ DirNames \subseteq Names /\ {Gcodes, Macros} \subseteq Names
    /\ Rank \in [Names -> Nat]
    /\ \A n, m \in Names : Rank[n] = Rank[m] => n = m
    /\ DOMAIN Listing \subseteq Paths
    /\ \A p \in DOMAIN Listing : Listing[p] \subseteq Names
    /\ Opened \subseteq {"gcode", "macro"}
    /\ NumVolumes \in 1 .. 10
    /\ {Rows, Capacity} \subseteq Nat \ {0}
    /\ {NumShort, MaxWire, MaxScroll} \subseteq Nat
    /\ {NoGcodesFolder, Lossy} \subseteq BOOLEAN

Sets == {"gcode", "macro"}
Lists == 0 .. 2
None == -1                       \* no list: whichList, newFileList

File == [dir : Paths, name : Names]
Named(path, name) == [dir |-> path, name |-> name]
Pointer == [list : Lists, file : File]
NoFile == [list |-> None]        \* a nullptr
NoMessage == [stage |-> "none"]

VARIABLES
    fs,                 \* the FileSet objects gcodeFilesList, macroFilesList
    fileLists,          \* contents of the three lists
    newFileList,        \* list the message is received into
    errorCode,          \* TRUE if the message carries an error
    fileDirectoryName,  \* directory the message is about
    buttons,            \* file buttons on show in each set's popup
    errorField,         \* whether each popup shows an error
    nav,                \* which navigation buttons each popup shows
    shortList,          \* macros on the Control page, copied
    stack,              \* the popups on display
    currentFile,        \* file whose details are displayed
    eventToConfirm      \* what the "are you sure" popup asks about

VARIABLES
    wire,       \* directories requested and not yet answered, in order
    msg         \* the answer being received

vars == <<fs, fileLists, newFileList, errorCode, fileDirectoryName, buttons,
          errorField, nav, shortList, stack, currentFile, eventToConfirm, wire,
          msg>>

display == <<buttons, errorField, nav, shortList, stack>>
messageVars == <<newFileList, errorCode, fileDirectoryName>>
userVars == <<currentFile, eventToConfirm>>

-----------------------------------------------------------------------------
(* Paths *)

(* SetupRootPath; SelectCard asks for the root of a removable card itself.   *)
SetupRootPath(cardNumber) ==
    Path(0, IF cardNumber = 0 /\ NoGcodesFolder THEN <<>> ELSE <<Gcodes>>)
RootPath(cardNumber) ==
    IF cardNumber = 0 THEN SetupRootPath(cardNumber) ELSE Path(cardNumber, <<>>)
MacrosRoot == Path(0, <<Macros>>)

Child(path, name) == [path EXCEPT !.names = Append(path.names, name)]
Parent(path) == [path EXCEPT !.names = ClearPopup(path.names)]

(* On card 0 the first component is the effective root, whatever card the   *)
(* path itself is on.                                                       *)
IsInSubdir(f) ==
    Len(f.currentPath.names) > IF f.cardNumber = 0 THEN 1 ELSE 0

IsMacroPath(path) ==
    path.card = 0 /\ path.names # <<>> /\ path.names[1] = Macros

-----------------------------------------------------------------------------
(* What a set's popup shows of its list *)

Columns(s) == IF s = "gcode" THEN 1 ELSE 2
NumDisplayed(s) == Rows * Columns(s)

(* The place of a file in its sorted list, from 0.                          *)
PlaceIn(files, file) ==
    Cardinality({g \in files : Rank[g.name] < Rank[file.name]})

\* Mutant: the last page starts at the last file.
SensibleOffsetLast(offset, size) ==
    IF offset < 0 \/ size = 0 THEN 0
    ELSE IF offset >= size THEN size
    ELSE offset

SensibleOffset(offset, size) ==
    IF offset < 0 \/ size = 0 THEN 0
    ELSE IF offset >= size THEN ((size - 1) \div Rows) * Rows
    ELSE offset

Contents(f) == fileLists[f.whichList]
Scrolled(f) ==
    IF f.whichList = None THEN f
    ELSE [f EXCEPT !.scrollOffset =
              SensibleOffset(f.scrollOffset, Cardinality(Contents(f)))]

OnShow(s, f) ==
    {[list |-> f.whichList, file |-> g] :
        g \in {h \in Contents(f) :
                  PlaceIn(Contents(f), h) - f.scrollOffset
                      \in 0 .. NumDisplayed(s) - 1}}
NavOf(s, f) ==
    [left |-> f.scrollOffset # 0,
     right |-> f.scrollOffset + NumDisplayed(s) < Cardinality(Contents(f)),
     up |-> IsInSubdir(f)]

PopupOf(s) == IF s = "gcode" THEN "fileList" ELSE "macros"

\* Mutant: the buttons stay while there is no list.
FileListUpdatedOnShow(s, f) ==
    /\ fs' = [fs EXCEPT ![s] = Scrolled(f)]
    /\ buttons' = IF f.whichList = None THEN buttons
                  ELSE [buttons EXCEPT ![s] = OnShow(s, Scrolled(f))]
    /\ stack' = SetPopup(stack, PopupOf(s))
    /\ UNCHANGED nav

(* FileSet::FileListUpdated, with f the file set after the caller's changes: *)
(* buttons for the part of the list in view, or the popup with no buttons   *)
(* while there is no list.  The navigation buttons are then left as they    *)
(* were.                                                                    *)
FileListUpdated(s, f) ==
    /\ fs' = [fs EXCEPT ![s] = Scrolled(f)]
    /\ \/ /\ f.whichList = None
          /\ buttons' = [buttons EXCEPT ![s] = {}]
          /\ stack' = SetPopup(stack, PopupOf(s))
          /\ UNCHANGED nav
       \/ /\ f.whichList # None
          /\ buttons' = [buttons EXCEPT ![s] = OnShow(s, Scrolled(f))]
          /\ nav' = [nav EXCEPT ![s] = NavOf(s, Scrolled(f))]
          /\ UNCHANGED stack

\* Mutant: the request is not made pending.
PendingIfRunning(f) ==
    IF f.timer = "running" THEN [f EXCEPT !.timer = "ready"] ELSE f

(* SetPending, in the file set f.                                           *)
Pending(f) == [f EXCEPT !.timer = "ready"]

(* A set that hides its list until the one of "path" arrives.               *)
Awaiting(f, path) ==
    Pending([f EXCEPT !.whichList = None, !.requestedPath = path])

-----------------------------------------------------------------------------
InitialSet(root) ==
    [requestedPath |-> root, currentPath |-> Path(0, <<>>), timer |-> "stopped",
     whichList |-> None, scrollOffset |-> 0, cardNumber |-> 0]

Init ==
    /\ fs = [s \in Sets |-> InitialSet(IF s = "gcode" THEN Path(0, <<Gcodes>>)
                                       ELSE MacrosRoot)]
    /\ fileLists = [l \in Lists |-> {}]
    /\ newFileList = None
    /\ errorCode = FALSE
    /\ fileDirectoryName = Path(0, <<>>)
    /\ buttons = [s \in Sets |-> {}]
    /\ errorField = [s \in Sets |-> FALSE]
    /\ nav = [s \in Sets |-> [left |-> FALSE, right |-> FALSE, up |-> FALSE]]
    /\ shortList = {}
    /\ stack = NoPopups
    /\ currentFile = NoFile
    /\ eventToConfirm = "evNull"
    /\ wire = <<>>
    /\ msg = NoMessage

-----------------------------------------------------------------------------
(* Requests (RequestTimer::Process, called for the macros first) *)

\* Mutant: a request goes out only when the delay has passed.
DueWhenLate(s, late) == fs[s].timer = "running" /\ s \in late

(* A running timer may find that its delay has passed.                      *)
Due(s, late) == fs[s].timer = "ready" \/ (fs[s].timer = "running" /\ s \in late)
Sent(f) == [f EXCEPT !.timer = "running"]
GoesFirst(s, late) == s = "macro" \/ ~Due("macro", late)

(* The line is quiet: the first request that is due goes out.  Its text is  *)
(* read from requestedPath as it is sent.                                   *)
SendRequest(s) ==
    /\ Len(wire) < MaxWire
    /\ \E late \in SUBSET Sets :
          /\ Due(s, late)
          /\ GoesFirst(s, late)
          /\ fs' = [fs EXCEPT ![s] = Sent(fs[s])]
    /\ wire' = Append(wire, fs[s].requestedPath)
    /\ UNCHANGED <<fileLists, messageVars, display, userVars, msg>>

(* The line is busy: a timer that finds its delay passed stays ready.       *)
BecomeReady(s) ==
    /\ fs[s].timer = "running"
    /\ fs' = [fs EXCEPT ![s] = Pending(fs[s])]
    /\ UNCHANGED <<fileLists, messageVars, display, userVars, wire, msg>>

-----------------------------------------------------------------------------
(* Receiving an answer *)

ListingOf(path) ==
    IF path \in DOMAIN Listing THEN {Named(path, n) : n \in Listing[path]}
    ELSE {}

(* BeginNewMessage; the printer's answer is what is received from here on.  *)
StartMessage ==
    /\ msg = NoMessage
    /\ wire # <<>>
    /\ msg' = [stage |-> "dir", dir |-> wire[1], left |-> ListingOf(wire[1])]
    /\ wire' = Tail(wire)
    /\ fileDirectoryName' = Path(0, <<>>)
    /\ errorCode' = FALSE
    /\ newFileList' = None
    /\ UNCHANGED <<fs, fileLists, display, userVars>>

ReceiveDirectoryName ==
    /\ msg.stage = "dir"
    /\ fileDirectoryName' = msg.dir
    /\ msg' = [msg EXCEPT !.stage = "files"]
    /\ UNCHANGED <<fs, fileLists, newFileList, errorCode, display, userVars,
                   wire>>

\* Mutant: only the G-code set's list is avoided.
FreeListOfOne ==
    CHOOSE l \in Lists :
        /\ fs["gcode"].whichList # l
        /\ \A k \in 0 .. l - 1 : fs["gcode"].whichList = k

\* Mutant: a list once used is not taken again.
FreeListNext ==
    IF \E s \in Sets : fs[s].whichList # None
    THEN 1 + (IF fs["gcode"].whichList > fs["macro"].whichList
              THEN fs["gcode"].whichList ELSE fs["macro"].whichList)
    ELSE 0

(* BeginReceivingFiles takes the first list that no set displays.           *)
FreeList ==
    CHOOSE l \in Lists :
        /\ \A s \in Sets : fs[s].whichList # l
        /\ \A k \in 0 .. l - 1 : \E s \in Sets : fs[s].whichList = k

\* Mutant: the capacity is not checked.
ReceivedAny(files, file) == files \cup {file}

(* ReceiveFile leaves out what does not fit.                                *)
Received(files, file) ==
    IF Cardinality(files) < Capacity THEN files \cup {file} ELSE files

(* The end of an empty array.                                               *)
ReceiveNoFiles ==
    /\ msg.left = {}
    /\ fileLists' = [fileLists EXCEPT ![FreeList] = {}]
    /\ msg' = [msg EXCEPT !.stage = "err"]

ReceiveFirstFile ==
    \E file \in msg.left :
        /\ fileLists' = [fileLists EXCEPT ![FreeList] = Received({}, file)]
        /\ msg' = [msg EXCEPT !.stage = "more", !.left = msg.left \ {file}]

(* Both find a free list.                                                   *)
BeginReceivingFiles ==
    /\ msg.stage = "files"
    /\ newFileList' = FreeList
    /\ ReceiveNoFiles \/ ReceiveFirstFile
    /\ UNCHANGED <<fs, errorCode, fileDirectoryName, display, userVars, wire>>

ReceiveFile ==
    /\ msg.stage = "more"
    /\ \E file \in msg.left :
          /\ msg' = [msg EXCEPT !.left = msg.left \ {file}]
          /\ fileLists' =
                IF newFileList = None THEN fileLists
                ELSE [fileLists EXCEPT ![newFileList] =
                         Received(fileLists[newFileList], file)]
    /\ UNCHANGED <<fs, messageVars, display, userVars, wire>>

ReceiveErrorCode ==
    /\ msg.stage = "err" \/ (msg.stage = "more" /\ msg.left = {})
    /\ errorCode' = (newFileList # None /\ msg.dir \notin DOMAIN Listing)
    /\ msg' = [msg EXCEPT !.stage = "end"]
    /\ UNCHANGED <<fs, fileLists, newFileList, fileDirectoryName, display,
                   userVars, wire>>

\* Mutant: the path is the one last requested, not the one the answer names.
ReloadedAnyPath(f) ==
    [f EXCEPT !.whichList = IF errorCode THEN None ELSE newFileList,
              !.currentPath = f.requestedPath,
              !.timer = "stopped"]

(* FileSet::Reload.  On an error the set is left without a list.            *)
Reloaded(f) ==
    [f EXCEPT !.whichList = IF errorCode THEN None ELSE newFileList,
              !.currentPath =
                  IF errorCode THEN f.currentPath ELSE fileDirectoryName,
              !.timer = "stopped"]
Reload(s) ==
    /\ errorField' = [errorField EXCEPT ![s] = errorCode]
    /\ FileListUpdated(s, Reloaded(fs[s]))

\* Mutant: the list is updated while a file's details are displayed.
IsDisplayingFileInfoNever == FALSE

(* UI::IsDisplayingFileInfo.                                                *)
IsDisplayingFileInfo == currentFile # NoFile

(* The first names that are not directories; on an error, when there is no  *)
(* list and the two sizes read at index -1 are the same, none.              *)
MacroFiles == {g \in fileLists[newFileList] : g.name \notin DirNames}
ShortListNow ==
    IF errorCode THEN {}
    ELSE {g \in MacroFiles : PlaceIn(MacroFiles, g) < NumShort}
InMacrosRoot == Len(fileDirectoryName.names) = 1

(* Only the root's names are copied, and only while the Control page has    *)
(* room for the buttons.                                                    *)
ReloadMacroShortList ==
    \/ UNCHANGED shortList
    \/ InMacrosRoot /\ shortList' = ShortListNow

(* The end of the message goes to the set its directory belongs to.         *)
EndReceivedMessage ==
    /\ msg.stage = "end"
    /\ msg' = NoMessage
    /\ newFileList' = None
    /\ \/ /\ newFileList # None
          /\ IsMacroPath(fileDirectoryName)
          /\ Reload("macro")
          /\ ReloadMacroShortList
       \/ /\ newFileList # None
          /\ ~IsMacroPath(fileDirectoryName)
          /\ ~IsDisplayingFileInfo
          /\ Reload("gcode")
          /\ UNCHANGED shortList
       \/ /\ \/ newFileList = None
             \/ ~IsMacroPath(fileDirectoryName) /\ IsDisplayingFileInfo
          /\ UNCHANGED <<fs, display>>
    /\ UNCHANGED <<fileLists, errorCode, fileDirectoryName, userVars, wire>>

(* The rest of the message is lost on the line, or its answer altogether.   *)
LoseMessage ==
    /\ Lossy
    /\ \/ /\ msg # NoMessage
          /\ msg' = NoMessage
          /\ UNCHANGED wire
       \/ /\ wire # <<>>
          /\ wire' = Tail(wire)
          /\ UNCHANGED msg
    /\ UNCHANGED <<fs, fileLists, messageVars, display, userVars>>

-----------------------------------------------------------------------------
(* The user *)

receiving == <<fileLists, messageVars, errorField, shortList, wire, msg>>

(* FileSet::Display: the popup comes up with its buttons hidden and the     *)
(* list is asked for again.                                                 *)
Display(s) ==
    /\ stack = NoPopups
    /\ s \in Opened
    /\ fs' = [fs EXCEPT ![s] = Pending(Scrolled(fs[s]))]
    /\ stack' = SetPopup(stack, PopupOf(s))
    /\ buttons' = [buttons EXCEPT ![s] = {}]
    /\ nav' = IF fs[s].whichList = None THEN nav
              ELSE [nav EXCEPT ![s] = NavOf(s, Scrolled(fs[s]))]
    /\ UNCHANGED <<receiving, userVars>>

ScrollBy(s) == {amount \in {-Rows, Rows} :
                   \/ amount < 0 /\ nav[s].left
                   \/ amount > 0 /\ nav[s].right}

Scroll(s) ==
    /\ OnTop(stack, PopupOf(s))
    /\ \E amount \in ScrollBy(s) :
          /\ fs[s].scrollOffset + amount \in -MaxScroll .. MaxScroll
          /\ FileListUpdated(s,
                [fs[s] EXCEPT !.scrollOffset = fs[s].scrollOffset + amount])
    /\ UNCHANGED <<receiving, userVars>>

RequestParentDir(s) ==
    /\ OnTop(stack, PopupOf(s))
    /\ nav[s].up
    /\ FileListUpdated(s, Awaiting(fs[s], Parent(fs[s].currentPath)))
    /\ UNCHANGED <<receiving, userVars>>

RequestSubdir(s, name) ==
    FileListUpdated(s, Awaiting(fs[s], Child(fs[s].currentPath, name)))

(* The name a pointer leads to: what is at that place of the list now.      *)
NameAt(pointer) ==
    IF pointer.file \in fileLists[pointer.list] THEN pointer.file.name
    ELSE "garbage"

(* evFile and evMacro on a directory.                                       *)
OpenSubdir(s) ==
    /\ OnTop(stack, PopupOf(s))
    /\ \E b \in buttons[s] :
          /\ NameAt(b) \in DirNames
          /\ RequestSubdir(s, NameAt(b))
    /\ UNCHANGED <<receiving, userVars>>

(* evFile on a file: its details are displayed.                             *)
SelectFile ==
    /\ OnTop(stack, "fileList")
    /\ \E b \in buttons["gcode"] :
          /\ NameAt(b) \notin DirNames
          /\ currentFile' = b
    /\ stack' = SetPopup(stack, "fileDetail")
    /\ UNCHANGED <<receiving, fs, buttons, nav, eventToConfirm>>

(* evPrintFile and evSimulateFile take two popups away, the file's details  *)
(* and the list under it, and send the command.  PrintStarted then changes  *)
(* to the Status page, which takes all away.                                *)
PrintFile ==
    /\ OnTop(stack, "fileDetail")
    /\ \/ /\ currentFile # NoFile
          /\ currentFile' = NoFile
          /\ stack' = NoPopups
       \/ /\ currentFile = NoFile
          /\ stack' = ClearPopup(ClearPopup(stack))
          /\ UNCHANGED currentFile
    /\ UNCHANGED <<receiving, fs, buttons, nav, eventToConfirm>>

DeleteFile ==
    /\ OnTop(stack, "fileDetail")
    /\ eventToConfirm' = "evDeleteFile"
    /\ stack' = SetPopup(stack, "areYouSure")
    /\ UNCHANGED <<receiving, fs, buttons, nav, currentFile>>

(* evYes.                                                                   *)
Confirm ==
    /\ OnTop(stack, "areYouSure")
    /\ \/ /\ eventToConfirm = "evDeleteFile" /\ currentFile # NoFile
          /\ stack' = ClearPopup(ClearPopup(stack))
          /\ fs' = [fs EXCEPT !["gcode"] = Pending(fs["gcode"])]
       \/ /\ eventToConfirm # "evDeleteFile" \/ currentFile = NoFile
          /\ stack' = ClearPopup(stack)
          /\ UNCHANGED fs
    /\ eventToConfirm' = "evNull"
    /\ currentFile' = NoFile
    /\ UNCHANGED <<receiving, buttons, nav>>

(* evCancel, the close button of every popup and the "no" of the            *)
(* confirmation.                                                            *)
Cancel ==
    /\ stack # NoPopups
    /\ stack' = ClearPopup(stack)
    /\ currentFile' = NoFile
    /\ eventToConfirm' = "evNull"
    /\ UNCHANGED <<receiving, fs, buttons, nav>>

(* FileSet::NextCard and SelectCard.                                        *)
NextCardNumber == (fs["gcode"].cardNumber + 1) % NumVolumes
NextCard ==
    /\ OnTop(stack, "fileList")
    /\ NumVolumes > 1
    /\ FileListUpdated("gcode",
          Awaiting([fs["gcode"] EXCEPT !.cardNumber = NextCardNumber],
                   RootPath(NextCardNumber)))
    /\ UNCHANGED <<receiving, userVars>>

-----------------------------------------------------------------------------
(* The rest of the firmware *)

(* A response or a simple alert comes up (NewResponseReceived); it goes     *)
(* away by itself if it is still on top (ClearAlertOrResponse).             *)
Response ==
    /\ \/ stack' = SetPopup(stack, "alert")
       \/ OnTop(stack, "alert") /\ stack' = ClearThisPopup(stack, "alert")
    /\ stack' # stack
    /\ UNCHANGED <<receiving, fs, buttons, nav, userVars>>

(* The printer does not answer any more: Reconnect takes all popups away.   *)
Disconnected ==
    /\ stack # NoPopups
    /\ stack' = NoPopups
    /\ UNCHANGED <<receiving, fs, buttons, nav, userVars>>

(* UpdateGeometry: the number of axes changed.                              *)
RefreshMacrosList ==
    /\ fs' = [fs EXCEPT !["macro"] = Pending(fs["macro"])]
    /\ UNCHANGED <<receiving, buttons, nav, stack, userVars>>

(* The printer named its firmware, whose features are not those assumed.    *)
FirmwareFeaturesChanged ==
    /\ fs' = [fs EXCEPT !["gcode"].requestedPath =
                 SetupRootPath(fs["gcode"].cardNumber)]
    /\ UNCHANGED <<receiving, buttons, nav, stack, userVars>>

-----------------------------------------------------------------------------
Receive ==
    \/ StartMessage \/ ReceiveDirectoryName \/ BeginReceivingFiles
    \/ ReceiveFile \/ ReceiveErrorCode \/ EndReceivedMessage
Touch ==
    \/ \E s \in Sets :
          Display(s) \/ Scroll(s) \/ RequestParentDir(s) \/ OpenSubdir(s)
    \/ SelectFile \/ PrintFile \/ DeleteFile
    \/ Confirm \/ Cancel \/ NextCard
Firmware ==
    \/ \E s \in Sets : SendRequest(s) \/ BecomeReady(s)
    \/ Response \/ Disconnected \/ RefreshMacrosList \/ FirmwareFeaturesChanged

Next == Receive \/ LoseMessage \/ Touch \/ Firmware
Spec == Init /\ [][Next]_vars

(* The main loop runs for ever and the printer answers.  The G-code set's   *)
(* request yields to the macros' when both are due, but that one is due     *)
(* again only after 8 s, many turns of the loop later; and the machine's    *)
(* geometry is known at some time.                                          *)
Fairness ==
    /\ WF_vars(Receive)
    /\ WF_vars(SendRequest("macro"))
    /\ SF_vars(SendRequest("gcode"))
    /\ <>[][~RefreshMacrosList]_vars
FairSpec == Spec /\ Fairness

-----------------------------------------------------------------------------
(* Properties *)

FileSet ==
    [requestedPath : Paths, currentPath : Paths,
     timer : {"stopped", "running", "ready"}, whichList : {None} \cup Lists,
     scrollOffset : Int, cardNumber : 0 .. NumVolumes - 1]

(* Every variable has its type.  The assertion of BeginReceivingFiles, that *)
(* newFileList is less than 3, is part of it.                               *)
TypeOK ==
    /\ fs \in [Sets -> FileSet]
    /\ fileLists \in [Lists -> SUBSET File]
    /\ newFileList \in {None} \cup Lists
    /\ errorCode \in BOOLEAN
    /\ fileDirectoryName \in Paths
    /\ buttons \in [Sets -> SUBSET Pointer]
    /\ errorField \in [Sets -> BOOLEAN]
    /\ nav \in [Sets -> [left : BOOLEAN, right : BOOLEAN, up : BOOLEAN]]
    /\ shortList \in SUBSET File
    /\ stack \in Seq({"fileList", "macros", "fileDetail", "areYouSure", "alert"})
    /\ currentFile \in Pointer \cup {NoFile}
    /\ eventToConfirm \in {"evNull", "evDeleteFile"}
    /\ wire \in Seq(Paths)

(* A listing is never received into a list that a set displays, whatever    *)
(* the user does between the fields of the message.                         *)
FillsFreeList ==
    newFileList # None => \A s \in Sets : fs[s].whichList # newFileList

(* The list a set displays is the whole listing, up to the capacity, of the *)
(* directory whose path it puts before the names: not part of a message     *)
(* that was cut short, and not mixed with another.                          *)
ListIsOfPath ==
    \A s \in Sets : fs[s].whichList # None =>
        LET all == ListingOf(fs[s].currentPath)
        IN  /\ Contents(fs[s]) \subseteq all
            /\ Cardinality(Contents(fs[s])) <= Capacity
            /\ \/ Contents(fs[s]) = all
               \/ Cardinality(Contents(fs[s])) = Capacity

(* A button on show leads to a name of the list on show.                    *)
ButtonsLeadToList ==
    \A s \in Sets : \A b \in buttons[s] :
        b.list = fs[s].whichList /\ b.file \in fileLists[b.list]

(* What the print, delete and macro commands put together, a path and a    *)
(* name, is the file the user pressed, though listings of other directories *)
(* arrived in between: the file whose details are displayed, the macros in  *)
(* the popup, and those on the Control page, which are run from the root.   *)
CommandsNameFiles ==
    /\ currentFile # NoFile /\ IsPopupActive(stack, "fileDetail") =>
          Named(fs["gcode"].currentPath, NameAt(currentFile)) = currentFile.file
    /\ \A b \in buttons["macro"] :
          Named(fs["macro"].currentPath, NameAt(b)) = b.file
    /\ \A g \in shortList : Named(MacrosRoot, g.name) = g

(* The offset is a whole number of rows and there is something to show from *)
(* there on, also after the list became shorter or was scrolled while       *)
(* hidden.                                                                  *)
OffsetInList ==
    \A s \in Sets : fs[s].whichList # None =>
        /\ fs[s].scrollOffset % Rows = 0
        /\ fs[s].scrollOffset \in 0 .. Cardinality(Contents(fs[s]))
        /\ Contents(fs[s]) # {} =>
              fs[s].scrollOffset # Cardinality(Contents(fs[s]))

(* A popup without a list shows an error, or the listing has been asked for *)
(* and will be asked for again.                                             *)
HiddenListIsAwaited ==
    \A s \in Sets :
        IsPopupActive(stack, PopupOf(s)) /\ fs[s].whichList = None =>
            errorField[s] \/ fs[s].timer # "stopped"

(* A listing asked for arrives or an error is shown, as long as the line    *)
(* loses nothing; the G-code list may be held back while a file's details   *)
(* are displayed.                                                           *)
ListComes ==
    \A s \in Sets :
        fs[s].whichList = None /\ fs[s].timer # "stopped" ~>
            fs[s].whichList # None \/ errorField[s] \/ IsDisplayingFileInfo

=============================================================================
