# PanelDue firmware: formal models, model checks and proofs

PanelDue is a touch-screen controller for printers that run RepRapFirmware. It
is one bare-metal program for SAM3S/SAM4S microcontrollers: a main loop, two
interrupt handlers (the UART and the 1 ms system tick), and a serial line to the
printer's main board, the *host*. This directory holds TLA+ modules that model
its logic, TLC configurations that check them on small instances, and theorems
that the TLA+ proof system TLAPS checks for every value of the constants.

Paths below are relative to the repository; the firmware's own sources are in
`src/`, so `PanelDue.cpp` stands for `src/PanelDue.cpp`.

## 1. Inventory

### How the parts interact

```
 host <--- serial line ---> UART interrupt -> ring buffer -> CheckInput (JSON)
                                                                  | callbacks
   ^                                                              v
   |                     PanelDue.cpp: Start/EndReceivedMessage, ProcessReceivedValue,
   |                     ProcessArrayEnd, ParserErrorEncountered
   |                        |          |            |            |
   |                      seqs[]   UI tables   FileManager   thumbnail
   |                        |          |            |            |
   +--- M409, M20, M36 <--- main loop: poll, timers, touch, encoder, screensaver
```

Everything except the two interrupt handlers runs in the main loop, one thing
after the other: the concurrency that matters is between the interrupt handlers
and the loop, and between the panel and the host, whose answers arrive whenever
they arrive, and sometimes do not.

### Components

| Part | State | Operations | What is hard | What makes it correct |
|---|---|---|---|---|
| Polling protocol (`PanelDue.cpp`) | `seqs[]` (state and last sequence number per object-model key), `currentReqSeq`, `currentRespSeq`, `initialized`, status, remote uptime, poll and response times | poll, time out, reconnect, message start/end, key, sequence numbers, uptime, parse error | late, lost and cut replies, host restart, messages without a key | an entry is `ok` only with fresh data; errors are retried; the copy converges |
| Serial receiver (`Hardware/SerialIo.cpp`) | `rxBuffer`, `nextIn`, `nextOut`, `inError` | `receiveChar`, `receiveError` (interrupt), `CheckInput` (loop) | the interrupt runs between any two accesses of the loop; the buffer fills | no stored character is overwritten or read twice; the parser sees prefixes of lines only |
| JSON parser (`Hardware/SerialIo.cpp`) | parser state, `fieldId`, `fieldVal`, `arrayIndices`, `arrayDepth` | one step per character; callbacks | nesting kept in a string, callbacks that change that string, errors at any character | array index in bounds; the field id is the nesting; messages end exactly at the outer brace |
| File lists (`FileManager.cpp`) | three lists with double-buffered text, folder, pending requests, timers | begin/receive/end list, errors, folder moves, scrolling, timers | lists arrive while others are displayed; pointers into buffers that are reused | a displayed list is never the one being filled; the displayed folder matches the list |
| Thumbnail transfer (`PanelDue.cpp`, `Library/Thumbnail.cpp`) | file name, offset, size, decoder state, transfer state | header, data request, data, errors | replies for another file, lost replies, sizes that disagree | an undisturbed popup shows the best picture of its own file, in order, and gets it whole |
| Alerts, popups and screensaver (`PanelDue.cpp`, `UI/UserInterface.cpp`) | `currentAlert`, `lastAlertSeq`, UI alert mode, popup fields, dim state, last action time | alert received, shown, acknowledged, cleared; dim, restore, screen saver | a message box may arrive, change or disappear at any time | every active box is shown once; a closed one is not acknowledged; a box that waits stays on display |
| Messages (`UI/MessageLog.cpp`) | message ring, per-line times | append, split, display update | long lines, the ring wrapping, arrivals that redraw | the newest lines are shown, in order, each response once |
| User interface (`UI/UserInterface.cpp`) | current page and tab, popup stack, tool/bed/chamber slots, axis slots, keyboard history | page changes, touch events, value changes from the host | buttons refer to tools and files that the host may remove | a button acts on an object that exists |
| Object model (`ObjectModel/*`) | sorted lists of tools, beds, chambers, axes, spindles; spindle pointers of tools | get-or-create, remove from an index, assign | a spindle is removed while a tool points at it | what is shown is the machine once all is read; a pointer leads to a freed object only while the tools are to be read again, or have gone unnoticed |
| Settings (`FlashData.cpp`, `Hardware/FlashStorage.cpp`) | RAM copy, flash copy, saved flag | load, save, reset to defaults, restart | power off during a save; old layouts | the copy taken to be in flash is there; what is in use off the Setup page is what a restart finds |
| Buzzer, backlight, tick (`Hardware/Buzzer.cpp`, `Backlight.cpp`, `SysTick.cpp`) | beep tick counters, dim state | beep, tick interrupt, dim, restore | the loop restarts a beep while the interrupt ends one | the sounder is on exactly while ticks are counted, and not for long |
| Request timers (`RequestTimer.cpp`) | pending request, due time, state | set, stop, process | requests while busy; an answer never comes | a request is repeated until it is stopped |
| Rotary encoder, touch (`Hardware/RotaryEncoder.cpp`, `UTouch.cpp`) | quadrature state, counts, press state | poll, read | bounce, missed transitions | counted steps match the turned detents |
| Not modelled | | | | fonts, icons, strings, colour schemes, the LCD driver (`Hardware/UTFT.cpp`) and widget drawing (`UI/Display.cpp`) are pixels and text; ASF, `Mem`, `Reset`, `OneBitPort` are board support; `Tools/` are build tools; the submodules under `lib/` are not part of the tree |

The hazards of each part, at the line where they bite, are in `PROJECT.json`
under `hazards`, with the properties that would catch them.

## 2. Plan

The order follows the importance of the behaviour: first what decides whether
the panel shows the truth about the machine, then what decides whether a touch
does what the user meant, then the local parts.

| Step | Module | Abstract specification | Theorems | State |
|---|---|---|---|---|
| 1 | `PollLoop` | `Mirror`: every copy moves forward, to versions the host has had, and catches up | types, `OkIsFresh`, `ErrorIsRetried`, `OneOutstanding`, the refinement but for catching up | done |
| 2 | `SerialRx` | `CharQueue`: a bounded queue | types, `NoSplice`, `Resynchronizes`, the refinement | done |
| 3 | `JsonParser` | (none; the nesting is a ghost stack) | types, `IndexInBounds`, `IdIsNesting`, `IndexIsPlace`, `EndsWithNesting` | done |
| 4 | `FileManager` over `PopupStack` | (none) | types, `FillsFreeList`, `ListIsOfPath`, `ButtonsLeadToList`, `CommandsNameFiles`, `OffsetInList`, `HiddenListIsAwaited` | done |
| 5 | `Alerts` over `PopupStack` | (none) | types, `WaitingBoxIsShown`, `WaitingBoxStays`, `ShownOnce` | done |
| 6 | `ObjectModel`: lists of tools, spindles, heaters, beds, chambers; columns of the Control page; the value being adjusted | (none) | types, `ListsAreHosts`, `PointersLive`, `AdjustedIsTouched`, `PageShowsMachine` | done |
| 7 | `Thumbnail`: M36 and M36.1 | (none) | `PictureCompletes` | done |
| 8 | `MessageLog`, `History` | a log whose tail is on display, kept as a history variable | `LogIsOfArrived`, `HistoryIsOfSent` | done |
| 9 | `Settings`, `Buzzer` | | `SettingsKept`, `BeepEnds` | done |
| 10 | proofs about the layout of the page by `AllToolsSeen` (no two columns share a place, a place has one owner), below `PageShowsMachine` | | | done |

Modules compose by `EXTENDS` (`FileManager` and `Alerts` over `PopupStack`) and
by `INSTANCE` with a refinement mapping (`PollLoop` into `Mirror`, `SerialRx`
into `CharQueue`). The receive path is a chain whose links meet at an
interface: `SerialRx` promises that the parser is handed prefixes of lines,
with at most one wrong character at their end (`NoSplice`), and that is the only damage `JsonParser` (a newline at any
character) and `PollLoop` (`ReceiveCut`, which stops a message before its key, after it, among
its sequence numbers, or after its status or its uptime) have to reckon with. The modules of steps 6 to 9 share
no state with each other; `Panel` puts them side by side, in behaviours each of
which is one of one part, and `MCPanel` gives them small constants.

## 3. The modules

### PollLoop, Mirror

One action per branch of the poll code of `main` and per message handler:

| Code | Action or operator |
|---|---|
| `seqs[]`, `GetNextSeq`, `UpdateSeq`, `ResetSeqs` | `seqState`, `lastSeq`; `GetNextSeq`, `SkipErrors`, `UpdatedState`, `UpdatedLastSeq`, `ReconnectEffect` |
| poll of the next entry; live poll and file requests; request timeout; reconnect | `PollSeq`, `PollIdle`, `RequestTimeout`, `Reconnect` |
| messages: with a key, live (`M409 F"d99fp"`), without a key | `Receive` with `ReceiveKey`, `ReceiveLive`, `ReceiveKeyless`, `EndReceivedMessage` |
| status and uptime, in a live reply and in the one for the key `state` (`StateSeq`); a restart seen there | `StateFields`, `Restarted`, `ResetSeqs`, `SeqsAfter` |
| request for a piece of a picture, in place of an entry | `PollThumbnail` |
| `ParserErrorEncountered` after part of a message | `ReceiveCut` with `CutEarly`, `CutKey`, `CutLive`; `EndCutLine`, `NoUpTime`, `WithUpTime` |
| visits to the Setup page, which stop polling | `EnterSetup`, `LeaveSetup` |

The clock is abstracted to what is read off it: `responded` is
`lastResponseTime >= lastPollTime`, and a delay is the free choice of when an
action runs. `Patient` says whether the timeouts outlast the answers. The ghost
`held` is a version that the data held under a key is at least as new as.

### SerialRx, CharQueue

The interrupt handler is atomic (nothing preempts it); the loop of `CheckInput`
takes three steps per character, its test, its read of the slot and its move of
`nextOut` with the call of the parser (`Test`, `Fetch`, `Advance`), between any
two of which the interrupt may run.

### JsonParser

`CheckInput` is one step per character, one operator per state of its `switch`.
The field id, in the code a string of names, `^` and `:`, is a sequence of
names and separators; the values of fields are left out. `Rewritten` is what
`ProcessReceivedValue` does to the parser's field id from inside the callback:
it replaces `result` by the key. The ghost `open` is the stack of objects and
arrays the parser does not have.

### FileManager, PopupStack

Two file sets, three lists. `RequestTimer` is the field `timer` of a set, with
`SendRequest` and `BecomeReady`. An answer arrives in stages: `StartMessage`,
`ReceiveDirectoryName`, `ReceiveNoFiles` or `ReceiveFirstFile` (both call
`BeginReceivingFiles`), `ReceiveFile`, `ReceiveErrorCode`, `EndReceivedMessage`; between any two of them the user
presses a button. A pointer into a list is the list's number and the file that
was at that place, so that a pointer into a list that was overwritten is seen
to lead elsewhere. The short list of macros on the Control page is copied from the
root's names at the end of a message (`ReloadMacroShortList`), or left alone: the code copies
nothing while the tools leave no room for the buttons. After an error the code
reads the size of a list at index -1 (`FileManager.cpp:98`), compares it with
itself, and copies no name. `PopupStack` is `Window::SetPopup`, both `ClearPopup`s and
`ClearAllPopups`; a window's `next` pointers are a sequence.

### Alerts

The fields of a message box arrive in `ReceiveBox`, the box is put up in
`EndReceivedMessage`, responses and pushed messages come with `ReceiveText`.
The press of a button and its release are two actions, because the code sends
M292 at the press and takes the popup away at the release, with whatever button
is under the finger at that time. `pressed` is the place that is touched. A box
that wants an answer may have a Cancel button or not; the model has it always, and
need not press it.
`Sweep` is every `ClearAllPopups` (a new connection, the start of a print) and
`PressOutside` a touch next to a popup on the Setup page; pages themselves are
not modelled, so `PressOutside` may happen at any time, which is more than the
program does. The printer opens a box, closes it when it times out or is
answered elsewhere, and takes answers: one with a number is for that box only,
one without (`Cancel`) for whatever is open.

### ObjectModel

The lists are functions from numbers to objects, which abstracts the sorted
vectors of `ListHelpers.hpp`; the heaters of a tool are a function from places,
because a value set for a place may create a heater above a gap. A spindle is a
cell of memory, and a tool holds a cell. An answer is the set of calls of
`ProcessReceivedValue` and `ProcessArrayEnd` it leads to, one action each, which
come in the order `Precedes`: an array before what follows its end, its elements by
number, the fields of an element by the alphabet:

| Code | Action |
|---|---|
| poll of the next list, of the state; timeout; reconnect; parse error | `RequestList`, `RequestStatus`, `RequestTimeout`, `Reconnect`, `CutShort` |
| `seqs`, live values of tools and spindles | `ReceiveSeqs`, `UpdateToolTemps`, `SetSpindleActive`, `SetSpindleCurrent` |
| fields of a tool | `SetToolExtruderOrOffset`, `SetToolHeaters`, `RemoveToolHeaters`, `ReceiveToolNumber`, `SetToolSpindle` |
| beds and chambers | `SetBedHeater`, `SetChamberHeater` |
| ends of arrays | `EndOfTools`, `EndOfSpindles`, `EndOfBeds`, `EndOfChambers` |
| the name of a field while `result` is not yet replaced | `HasValues`, `Ended`, `EndFields` |
| `AllToolsSeen` and what it calls | the operator `AllToolsSeen`, part of each action that calls it |
| popups to adjust a value; the setting for columns | `Adjust`, `SetInt`, `PopupsCleared`, `ChangeHeaterCombineType` |

**Empty lists.** A list in the answer to a request is an array named `result` (tools,
spindles), or `result:bedHeaters` and `result:chamberHeaters`. The callback
replaces `result` by the key when the first value comes
(`PanelDue.cpp:1146`), so an array that ends before any value
(`Hardware/SerialIo.cpp:688`) has a name that none of the comparisons at
`PanelDue.cpp:2188`, `2196`, `2213` and `2224` knows: nothing is removed, the
page is not laid out again, and the entry is `ok` all the same. `Ended` is the lists whose
end is recognized: those with an element, and the chambers if a bed came first.
A printer that fills up the arrays of beds and chambers with -1 sends values
for none; `Padded` names the arrays for which it does. The history variable
`used` is the lists that have ever held anything, and `LeftOver` those of them
whose end the panel does not recognize in the present machine's answers.

`GetHeaterSlots` is only read: it tells where a temperature is displayed.
The polling is that of `PollLoop`, cut down to three entries.

### Thumbnail

The states `Init` to `Data` of `thumbnailCurrent`, and one action per field of
an answer. A piece of a picture is its file, its picture and its number; the
decoder, which is not in the tree, takes the pieces of one picture in their order
and makes some pixels or an error of anything else.

### Settings, Buzzer, History, MessageLog

`Settings` has the copy in use, the copy the panel believes to be in flash
memory, and flash memory, and a save in three steps, between and in which power
and flash memory may fail. An erasure that failed leaves flash memory as it was or,
on a SAM4S, where the code goes on to write (`FlashData.cpp:89`), with anything. `Buzzer` cuts `Beep` where the tick interrupt can see a
difference. `History` is the ring of command buffers, `MessageLog` the ring of
rows; both have as a history variable what the ring must contain.

## 4. The runs

| Run | Instance | What it shows |
|---|---|---|
| `poll_lossy` | two keys, one change, one restart, two lines in flight each way, one disturbance, late answers | `TypeOK`, `OkIsFresh` in every interleaving |
| `poll_live` | the same with cut lines, two disturbances, patient timeouts and fairness | `OneOutstanding`, `Converges`, `ComesBack`; the refinement of `Mirror` |
| `poll_stale` | one key, a cut line and a message without a key | violation: an error that is taken for a success |
| `rx` | a buffer of three slots, three lines of four characters, two UART errors | `NoSplice`, `Resynchronizes`, the refinement of `CharQueue` |
| `json` | two arrays in each other, ids of seven parts, arrays of two elements | the nesting, the indices, the end of a message |
| `files` | files below the root, macros, answers late, cut or lost | lists, buttons and commands agree |
| `file_macros` | more macros than a list holds, a directory that cannot be read, scrolling | also the scroll offset and errors |
| `file_live` | two cards, no losses, fairness | `ListComes` |
| `alerts` | two boxes of three modes, keyboard, screensaver, responses | a box that waits stays, complete and on display; it comes up once |
| `alert_live` | two boxes, a cut message, popups taken away, fairness | boxes come and go with the printer's |
| `alert_closed` | two boxes and the screensaver | violation: a popup that stays |
| `panel` | four machines with three columns, one change and one fault; two files with seven pictures; three settings; a beep limit of five ticks; three buffers of two keys; three rows and responses of up to four lines | `ObjectModel`: `TypeOK`, `ListsAreHosts`, `PointersLive`, `PageShowsMachine`, `AdjustedIsTouched`; one property each of the other parts: `PictureCompletes`, `SettingsKept`, `BeepEnds`, `HistoryIsOfSent`, `LogIsOfArrived` |

**Why the bounds are enough.** Each is the least at which the interesting case
happens, and the header of the `.cfg` says which that is. Two keys make one wait while the other
is asked for; one restart gives sequence numbers that repeat; two
lines in flight let a late answer meet a new request. A buffer of three slots
fills within a line of four characters, wraps in every line, and two errors can
meet in one. Two nested arrays are as deep as that instance's limit, so the
third hits it. Three lists are the code's own number; two directories with a
file of the same name make a wrong path visible; two message boxes are an old
and a new one. The machines of `panel` have, between them, a tool with a
spindle and heaters, more heaters than a tool may have, a list that is full
while numbers change, no column left for a chamber, one bed after the tools, a
list of chambers that becomes empty behind beds (and is noticed) and lists of
tools and chambers that become empty with nothing before (and are not);
one change with one fault puts an answer of the old machine before, and an
unfinished answer of the new one after it. A ring of three wraps twice within
the bounds. Two cells for spindles make a freed one be used again. The proofs of
section 5 remove the bounds for what is proved.

Only `rx` turns off the check for deadlock: the host sends so many lines and then no more.

**Fairness.** The main loop runs for ever and does each of its steps in every
turn; this justifies weak fairness of what it can always do: receive what has
arrived, poll, time out. The user is assumed to leave the Setup page (`LeaveSetup`), which
suspends polling. `PollLoop` needs no fairness of losses (they are
bounded by `MaxTrouble`), and of the host only that it answers. In
`FileManager` the request for the files yields to the one for the macros when
both are due, but the latter is then not due for 8 seconds, many turns of the
loop: strong fairness of `SendRequest("gcode")`. There `<>[][~RefreshMacrosList]`
says that the machine's geometry, whose every change asks for the macros again,
settles. In `Alerts` an answer about `state` is begun as long as the last whole
one is not of what the printer has now (`fetched`): that the entry `state` is asked
for again until it has come whole is what `Converges` of `PollLoop` says.

**What a property leaves out.** `OkIsFresh` is proved for lines that are not both
cut short and mixed with messages without a key, and no passing run has both;
where they are, `poll_stale` shows what fails. `Converges` and `ComesBack` say that every
entry is fetched and that the panel is initialized in the end, and do not exclude that it
says so too early after a `Reconnect` in the middle of a round, as it does.
`ListComes` asks for some listing, or an error: that a late answer to an older request
takes the place of the newer one is not excluded, since the code does that. In
`file_macros` a column has one row, so that only the theorem says anything about
offsets at the start of a row. `IdIsNesting`, `IndexIsPlace` and `EndsWithNesting` exempt
messages in which the callback erased an array's separator
(`Derailed`). `NewBoxIsShown` exempts a box in whose message an alert times out
or is dismissed (`upset`): `ClearAlertOrResponse` resets the box being received,
and it is not shown.

`ListsAreHosts`, `PageShowsMachine` and `AdjustedIsTouched` speak of a panel that
has read every list since the machine last changed; four ghosts name what
they leave out, all of which the code does:
`LeftOver`, a list that has become empty, whose end the panel does not recognize: its
tools, spindles, beds or chambers stay, with their columns, and a tool that stays may
keep a pointer to a spindle that is freed. `ListsAreHosts` and `PointersLive` leave
out just that list, the properties of the page any such state;
`crowded`, a new tool, spindle, bed or chamber is dropped when its list is still
full of what the same answer goes on to remove; `unfound`, the tools that did not
find their spindle: tools are read before spindles, so a tool does not know its
spindle if the status answer that names it was cut, or found no room in the list
of spindles;
`meddled`, a popup stays up while its column becomes another's, and the value
goes there. `TemperaturesInColumns` leaves out pages with too many things (an
object keeps its old slot) and tools with a spindle and heaters. `PictureCompletes` requires that the popup was drawn when no transfer
was under way, and no answer was cut short since (`disturbed`); its comment
says what happens otherwise. `LogIsOfArrived` counts the responses whose number
differs from the last one's: after a restart of the printer, one that happens to have
that number is dropped.

### Disagreements between the code and its documents

Two are findings, each with a run whose counterexample shows it: `poll_stale`
(an error is not retried) and `alert_closed` (a popup is left behind when the
printer closes a box below the screensaver or the keyboard). Others were met
while modelling, are what the modules do, and have no run:

* The columns of beds, chambers and tools stay on the Control page when the
  printer has none of them any more, because the end of an empty list is not recognized
  (`PanelDue.cpp:2188`, `2196`, `2213`, `2224`; see `ObjectModel` above).
  `whatsnew.md:288` says of bed and chamber controls that were not hidden when they were
  removed from the configuration that this is fixed. A tool that stays so may point at a
  spindle that is freed, and be displayed with it; and `evAdjustActiveRPM` uses
  the spindle it looks up without a test that there is one
  (`UI/UserInterface.cpp:2505`).
* A touch that begins before a box comes up and ends on its button dismisses the
  box with no answer sent (`UI/UserInterface.cpp:2324`): M292 is sent at the
  press, and the release acts on whatever button is under the finger. The
  comment at `UI/UserInterface.cpp:2108` speaks of alerts that require
  acknowledgement.
* A popup taken away with all others leaves `fieldBeingAdjusted` set, so that
  the field it adjusted is not updated until another one is adjusted
  (`UI/UserInterface.cpp:432`).
* The extruders and fans of a tool only accumulate
  (`UI/UserInterface.cpp:3710`).
* An answer with a piece of a picture that is lost leaves the transfer in
  `DataWait`; only a bigger picture gets it out.
* `Reconnect` resets the table of entries but not the position in it, so the
  panel may call itself initialized before every entry was asked for, although
  the comment at `PanelDue.cpp:2689` says it has asked for all.
* In a message without a key the callback erases an array's separator where the
  comment at `PanelDue.cpp:1162` speaks of a colon.
* The answer to an older request stops the timer of a newer one
  (`FileManager.cpp:91`), though `FileManager.cpp:255` says a request is
  repeated until there is a response.
* Listings are ignored, and asked for again and again, after the details popup
  went with a lost connection, because `IsDisplayingFileInfo`
  (`UI/UserInterface.cpp:2262`) looks at `currentFile` and not at the popup.
* `RequestParentDir` is reached at the root of another card, outside the
  precondition at `FileManager.hpp:46`.
* The cross of an alert's popup does not call `ClearAlertOrResponse`, which the
  comment at `UI/UserInterface.cpp:2088` says it does.

## 5. The proofs

They hold for every value of the constants that satisfies the assumption in the
module (`PollAssumption`, `RxAssumption`, `JsonAssumption`, `FileAssumption`, `AlertAssumption`,
`ObjectModelAssumption`, `PanelAssumption`), which TLC evaluates in the runs. `ObjectModelAssumption` takes
machines as the printer has them: finitely many tools, spindles, beds and chambers, numbered from 0, a tool's spindle
one of the machine's or none, room for one heater of a tool, and a page of two columns at least. `PanelAssumption` collects what the small parts
assume: the default settings are valid; the longest beep, 20 seconds, is positive
and less than 2^32 ticks; there are two buffers for commands and one row on the
Console page at least; and the pictures of a file are a sequence, with sizes that
are natural numbers.

| Theorem | Says | Argument |
|---|---|---|
| `PollLoopProofs!TypeCorrect` | types | `TypeOK` is inductive; one lemma per group of actions |
| `PollLoopProofs!Freshness` | `OkIsFresh` when a line is not both cut and mixed with keyless messages | `FreshInv`, below |
| `PollLoopProofs!ErrorsRetried` | `ErrorIsRetried`, on the same condition | from `FreshInv`: with an entry in error, `currentRespSeq` is null between messages |
| `PollLoopProofs!OneAtATime` | `OneOutstanding` with patient timeouts and no keyless messages | nothing is under way once a response has come |
| `PollLoopProofs!MirrorsHost` | `Mirror!Forward`, for any losses | `MirrorInv`, below |
| `SerialRxProofs!TypeCorrect` | types; the indices stay in the buffer | `TypeOK` is inductive |
| `SerialRxProofs!Unspliced` | `NoSplice` | `SpliceInv`: every character in the buffer may follow the one before it, the first the one last parsed, and the host's next one the last |
| `SerialRxProofs!RingImplementsQueue` | the ring refines `CharQueue` | storing appends to, and advancing removes from, the sequence the indices delimit |
| `SerialRxProofs!Recovers` | `Resynchronizes` | `ResyncInv`, below |
| `JsonParserProofs!TypeCorrect` | types; `arrayDepth` stays within its limit | with the next |
| `JsonParserProofs!IndexSafety` | `IndexInBounds` | `Backed`, below |
| `JsonParserProofs!IdNests`, `IndicesArePlaces`, `EndsWhole` | `IdIsNesting`, `IndexIsPlace`, `EndsWithNesting` | `NestInv`, below |
| `FileManagerProofs!TypeCorrect` | types | `Inv`: also the message being received, the sizes of the lists, and the order of the popups on the stack |
| `FileManagerProofs!ListingFillsFreeList`, `ButtonLeadsToName` | `FillsFreeList`, `ButtonsLeadToList` | `DisplayInv`, below |
| `FileManagerProofs!OffsetIsInList` | `OffsetInList` | `OffsetInv`: the offset of a hidden list is the start of a row, too |
| `FileManagerProofs!ListIsTheListing` | `ListIsOfPath` | `MessageInv`, below |
| `FileManagerProofs!CommandNamesFile` | `CommandsNameFiles` | `CommandInv`, below |
| `FileManagerProofs!HiddenIsAwaited` | `HiddenListIsAwaited` | inductive with the types |
| `AlertsProofs!TypeCorrect` | types; no window is twice in the list of popups | `Inv`, below |
| `AlertsProofs!WaitingShown` | `WaitingBoxIsShown` | part of `Inv` |
| `AlertsProofs!StaysUp` | `WaitingBoxStays` | `ModeChanges` names the steps that change the alert; `NoTimeout` and `MayShowText` exclude two of them |
| `AlertsProofs!OnlyOnce` | `ShownOnce` | the box received is not older than the one shown last (`Newer`) and has another number |
| `PanelProofs!Kept` | `SettingsKept` | the copy believed to be in flash is there except during a save, which ends by reading it back |
| `PanelProofs!Ends` | `BeepEnds` | `SounderInv`: ticks are counted down only outside `Beep`, where the sounder and the count agree |
| `PanelProofs!RingHoldsSent` | `HistoryIsOfSent` | inductive with the types; `Back` and the step to the next buffer are sums around the ring |
| `PanelProofs!ConsoleShowsArrived` | `LogIsOfArrived` | `ConsoleInv`, below |
| `PanelProofs!PictureShown` | `PictureCompletes` | `PictureInv`, below |
| `ObjectModelTypes!TypeCorrect` | types; no two spindles in one cell; no list beyond its room | with the message being received: it holds what is left of an answer of the machine as it is |
| `ObjectModelProofs!SettledLists` | `ListsAreHosts` | `IInv`, below |
| `ObjectModelProofs!NoDanglingSpindle` | `PointersLive` | `PointerInv` |
| `ObjectModelProofs!TouchedIsAdjusted` | `AdjustedIsTouched` | `SeenInv` and `TouchInv` |
| `ObjectModelProofs!PageIsMachines` | `PageShowsMachine` | `PlacedInv` and `PlaceIs`, below |
| `PanelProofs!PanelHolds` | all the properties of the panel | each step of the panel is a step or a stutter of each part |

`OkIsFresh` is not inductive: whether a reply makes an entry fresh depends on
what the reply carries and on what was announced when. `FreshInv` adds that no
message in flight carries a number the host has not reached; that a keyed reply in
flight is not older than what is announced for its key, by the last live reply
processed or by one that is before it on the line; that no announcement of the
current boot exceeds the host's number; that a restart the panel has not noticed
shows in the uptime of every live reply to come; and that `currentRespSeq` is
null between messages unless lines are cut.

`Mirror!Forward` needs to know of each reply in flight that it will not take a
copy back: `MirrorInv` says that key replies for one key are in the order of
their numbers, that none is newer than the host's data, and that what is held
is not newer than any on its way (`InOrder`, `HeldBehind`). It needs no
assumption about the line.

`Resynchronizes` becomes inductive by following the newline of a line: in the buffer
it has the rest of its line before it, unless the line was disturbed
(`LinesWhole`); the parser has seen as much of its line as it has been handed
(`SeenSoFar`); every older line without a fault has been handed over, or its
newline is in the buffer (`AllThere`); and characters are dropped only in a line
with a fault (`Awake`).

`IndexInBounds` relates a count (`arrayDepth`) to a text (the `^`s of the field
id), which the callback changes in between. `Backed` says that the `^`s can
be numbered in their order with numbers up to `arrayDepth`, and each operation
on the field id is shown to keep such a numbering; this holds also where the
callback has erased a separator.

`IdIsNesting`, `IndexIsPlace` and `EndsWithNesting` are proved together, as
`NestInv`. A stack that is counted is the difficulty: how many separators there
are in an id is a recursion over it, about which nothing can be proved here.
`UpTo(S, i)` counts instead the places of a set up to `i`, as a
cardinality, so that pushing and popping change it by one or not at all
(`UpToNext`, `UpToSame`, `UpToShift`). `Nests` then says that the separators of the id
are, in their order, the frames of the stack, and `Placed` that the indices are
the counts of its arrays; there is a lemma for each operation of the parser on
the id, the indices and the stack, and for what the callback does to the id
(`RenamedNests`, `ShortenedNests`). `ResultFirst`, that the callback finds
`result` only as the outermost name and only once, is why at most one separator
is ever erased from the id.

In `FileManager` every step does to a set of files one of four things
(`SetMoves`): it leaves it alone, draws its popup again, hides its list, or
loads the list that was received. That reduces `DisplayInv` (a list on display is not
being received into, and the buttons are of that list) to four cases instead of
one for each action. `MessageInv` adds what the list being received holds: all
the names that came before, or as many as fit, of the directory the message
is about (`PartOf`). `CommandInv` adds that the file whose details are on display is in
the list on display, which holds because the list below is not loaded while its
details are shown. `Ordered`, the order of the popups on the stack, is what keeps
the details above their list.

`WaitingBoxIsShown` becomes inductive with the types, of which the absence of
duplicates from the list of popups is one (taking a popup off the top leaves no
second one of its kind below, and takes no other away). `Inv` adds `NoTimeout`, a box that waits has no
timer, and `Newer`, by which the numbers of the box that is open, of the one on
its way and of the one received lie between the one shown last and the
printer's count.

`LogIsOfArrived` needs to know of the answer being received where its response
stands: `AnswerInv` says that its text and its number are those of one response, or
that it brings none that is new. Appending to the ring is then
compared row by row, the new rows with the lines of the response, the others with the
lines that were there (`AppendStep`).

`PictureCompletes` says nothing of what is under way, so `Transfer` names the phases: the
details are asked for (`Asked`), come one picture at a time (`Listing`, with the
best so far), and then each piece is wanted, requested and received (`Wanted`,
`Requested`, `Answering`, over `Fetched`), until nothing is left (`Done`). In each there is at most one
request or answer of the transfer. One lemma per action shows that it stays in a phase or goes to the
next; polls answered in between change nothing, and what disturbs a transfer
sets `disturbed`.

`ListsAreHosts` says what the lists are when every answer has been read;
`IInv` says it of every moment while one is read, for a list that has never held
anything or whose end is recognized: `UsedInv`, that `used` has every list that holds something,
makes the first of these empty, and `EndedAre` names what an answer holds of the
second. The code does not compare lists:
it removes, at each element, what the answer has passed over (`Skipped`), and at the
end of the array all that follows the last (`AllFollowing`). So `SpindleInv`, `ToolInv` and
`HeatInv` say the same thing of three kinds of list: up to the element read
last, the panel has just the machine's numbers; of the rest, those still to come are `Left` in the
message; when it is read to its end, nothing else remains; and what live values do
meanwhile, in a status answer, adds only numbers of the machine's. Whether a number
read has indeed been created depends on room, and the room is known at the
request: the union of what the list holds and what the answer names fits
(`Crowding`), and no step makes that union grow. This is induction along
the answer, and needs none over data: `Precedes` orders the calls, and
`LastIs` and `InOrder` say that what is read before the others is the least. `HeatersInv` does it again for the heaters
of one tool, whose places are created by a value and removed by the end of an array.

`PointerInv` has a tool point at its spindle from when the field `spindle` of its
answer is read (`Pointed`) until the machine changes. It is inductive because an
answer about spindles, or a status answer, removes only spindles the machine does not have
(`SpindlesStay`), so that the cell a tool points at is not freed. Two things were found
by the attempt to prove it: the ghost that preceded
`unfound` was one flag, set only by a cut status answer, and `PointersLive` was false for a machine with more
spindles than the list has room for, where a tool does not find a spindle that
was dropped; and `Crowding` had left out beds and chambers.

`AdjustedIsTouched` needs more than what was touched: whatever column is on
display must adjust something that exists, once every list has been read to its end
(`SeenInv`), because any may be touched. `AllToolsSeen` lays the columns out from
the lists as they are (`ShownWhenLaidOut`), and from then on only a list that is
being received can lose an object, which ends `AllRead`. `TouchInv` says
that a popup whose field is as touched belongs to a settled panel.

`PageShowsMachine` compares the columns with what the page of a machine should be, which is
written as a set (`Page`) with an order (`LeftOf`): the place of a column is the
number of columns to the left of it. The code instead adds up widths as it walks over
the lists (`Start`). Two things are shown. `PlacedInv`, an invariant, says
that the columns are those of the lists as they are (`PlacedAs`) whenever every
list has been read to its end, none was crowded, and no value was set for a field
that had moved: at the end of each array the page is laid out again
(`SeenPlaced`), a status answer creates nothing then (`NoneCreated`), and what the
popup sets was there before (`HeatersStaySet`), so that no tool becomes wider
unseen (`PlacesDepend`). And in such a state, where the lists are the machine's
(`Matches`), the columns of the machine and the columns the things have on the panel
are the same: `ColumnOf`, `ColumnFor` and `OneColumn` match them, `LeftIs` their orders, and
`PlaceIs` counts them, by numbering the columns to the left of one with the pairs of
a thing and a number below its width (`Counted`), so that a place is a sum of
widths after all. `PageIs` then has each column in a place of its own, below the
number of columns, from which both conjuncts follow.

**Model-checked only:** liveness (`Converges`, `ComesBack`, `ListComes`,
`NewBoxIsShown`, `ClosedBoxGoes` and the fairness part of `Mirror`), which is
beyond the prover. The two runs that find a property violated (`poll_stale`, `alert_closed`) have
nothing to prove.

## 6. What is not modelled

* The rotary encoder, whose changes the program does nothing with
  (`UI/UserInterface.cpp:1750`), the touch converter, the backlight, and start-up.
* Temperatures, speeds, positions and the maps of extruders and fans: data that is
  shown as it comes. The axes, whose list is never shortened. The commands that
  buttons send. The old field `spindles[].tool`.
* The decoders of pictures, which are submodules.
* Within the modelled parts: time as a number (a tick counter that wraps), the
  texts of names, values and messages, `ConvertUnicode`, the warning after a
  number of consecutive errors, the time stamps of `SerialLineQuiet`, M36 and
  M21, running a macro (it changes no state of the panel), choice boxes (mode 4),
  jog buttons in a message box, the dimming of the backlight, and portrait
  displays.
* Drawing, fonts, texts, colours, vendor code, build tools, and the libraries
  that are git submodules.
