-------------------------------- MODULE Panel --------------------------------
(***************************************************************************)
(* Parts of the panel that share no state: the lists and columns of         *)
(* ObjectModel, and the modules Thumbnail, Settings, Buzzer, History and    *)
(* MessageLog.  A behaviour is one of one part, while the others stay as    *)
(* they began.                                                              *)
(***************************************************************************)
EXTENDS ObjectModel

CONSTANTS Files, NoFile, Images, FieldWidth, FieldHeight, MaxViews, MaxCuts

VARIABLES popup, picture, requests, answer, filenameCurrent, thumbnailCurrent,
          thumbnailData, decoded, views, cuts, disturbed
pictureVars == <<popup, picture, requests, answer, filenameCurrent, thumbnailCurrent,
                 thumbnailData, decoded, views, cuts, disturbed>>
Picture == INSTANCE Thumbnail

(* See Thumbnail.                                                           *)
PictureCompletes == Picture!PictureCompletes

-----------------------------------------------------------------------------
CONSTANTS Values, Defaults, Invalid

VARIABLES doing, onSetup, nvData, savedNvData, flash, restarts, writeFailed
flashVars == <<doing, onSetup, nvData, savedNvData, flash, restarts, writeFailed>>
Flash == INSTANCE Settings

(* See Settings.                                                            *)
SettingsKept == Flash!SettingsKept

-----------------------------------------------------------------------------
CONSTANTS Lengths, MaxLength, TouchLength, Modulus

VARIABLES beepLength, at, ms, inBuzzer, beepTicksToGo, sounding
sounderVars == <<beepLength, at, ms, inBuzzer, beepTicksToGo, sounding>>
Sounder == INSTANCE Buzzer

(* See Buzzer.                                                              *)
BeepEnds == Sounder!BeepEnds

-----------------------------------------------------------------------------
CONSTANTS Keys, MaxCommand, NumBuffers

VARIABLES userCommandBuffers, currentUserCommandBuffer, currentHistoryBuffer, sent
keyboardVars == <<userCommandBuffers, currentUserCommandBuffer,
                  currentHistoryBuffer, sent>>
Keyboard == INSTANCE History WITH MaxLength <- MaxCommand

(* See History.                                                             *)
HistoryIsOfSent == Keyboard!HistoryIsOfSent

-----------------------------------------------------------------------------
CONSTANTS NumMessageRows, MaxLines, MaxResponses, MaxOwn

VARIABLES response, logAnswer, answered, messageSeq, newMessageSeq, newMessage,
          messages, messageStartRow, own, arrivedSeq, arrived
consoleVars == <<response, logAnswer, answered, messageSeq, newMessageSeq,
                 newMessage, messages, messageStartRow, own, arrivedSeq, arrived>>
Console == INSTANCE MessageLog WITH answer <- logAnswer

(* See MessageLog.                                                          *)
LogIsOfArrived == Console!LogIsOfArrived

-----------------------------------------------------------------------------
ASSUME PanelAssumption ==
    /\ Picture!ThumbnailAssumption
    /\ Flash!SettingsAssumption
    /\ Sounder!BuzzerAssumption
    /\ Keyboard!HistoryAssumption
    /\ Console!LogAssumption

VARIABLE part       \* the part whose behaviour this is

Parts == {"ObjectModel", "Thumbnail", "Settings", "Buzzer", "History", "MessageLog"}

PanelInit ==
    /\ part \in Parts
    /\ Init
    /\ Picture!Init /\ Flash!Init /\ Sounder!Init /\ Keyboard!Init /\ Console!Init

(* Only p changes.                                                          *)
OnlyPart(p) ==
    /\ part = p
    /\ part' = part
    /\ p # "ObjectModel" => UNCHANGED vars
    /\ p # "Thumbnail" => UNCHANGED pictureVars
    /\ p # "Settings" => UNCHANGED flashVars
    /\ p # "Buzzer" => UNCHANGED sounderVars
    /\ p # "History" => UNCHANGED keyboardVars
    /\ p # "MessageLog" => UNCHANGED consoleVars

PanelNext ==
    \/ OnlyPart("ObjectModel") /\ Next
    \/ OnlyPart("Thumbnail") /\ Picture!Next
    \/ OnlyPart("Settings") /\ Flash!Next
    \/ OnlyPart("Buzzer") /\ Sounder!Next
    \/ OnlyPart("History") /\ Keyboard!Next
    \/ OnlyPart("MessageLog") /\ Console!Next

PanelSpec == PanelInit /\ [][PanelNext]_<<vars, pictureVars, flashVars,
    sounderVars, keyboardVars, consoleVars, part>>
=============================================================================
