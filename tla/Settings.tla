------------------------------- MODULE Settings -------------------------------
(***************************************************************************)
(* The settings: the copy in use, the copy known to be in flash memory, and *)
(* flash memory itself, which a save erases before it writes it             *)
(* (FlashData.cpp, Hardware/FlashStorage.cpp, SaveSettings and FactoryReset *)
(* in PanelDue.cpp, ChangePage in UserInterface.cpp).                       *)
(*                                                                          *)
(* The power may fail at any time and a write may fail.                     *)
(***************************************************************************)
CONSTANTS
    Values,         \* settings with the right magic number and values in range
    Defaults,       \* those of SetDefaults and of a calibration
    Invalid         \* anything else, as erased memory

SettingsAssumption == Defaults \in Values /\ Invalid \notin Values

VARIABLES
    doing,          \* what the loop is doing
    onSetup,        \* the Setup page is on display
    nvData, savedNvData, flash,
    restarts,       \* the save under way is the last thing before a restart
    writeFailed     \* history: the last write failed

vars == <<doing, onSetup, nvData, savedNvData, flash, restarts, writeFailed>>

Init ==
    /\ doing = "off" /\ onSetup = FALSE
    /\ nvData = Defaults /\ savedNvData = Defaults /\ flash = Invalid
    /\ restarts = FALSE /\ writeFailed = FALSE

(* Both copies are constructed with the defaults; Load and, if what was     *)
(* read is not valid, SetDefaults, CalibrateTouch and SaveSettings.         *)
Start ==
    /\ doing = "off"
    /\ onSetup' = FALSE
    /\ restarts' = FALSE
    /\ IF flash = Invalid
       THEN doing' = "erasing" /\ nvData' = Defaults /\ savedNvData' = Defaults
       ELSE doing' = "running" /\ nvData' = flash /\ savedNvData' = flash
    /\ UNCHANGED <<flash, writeFailed>>

(* A button of the Setup page changes a setting.                            *)
Change ==
    /\ doing = "running" /\ onSetup
    /\ nvData' \in Values
    /\ UNCHANGED <<doing, onSetup, savedNvData, flash, restarts, writeFailed>>

(* The language or the colour scheme: saved at once, then Reset.            *)
ChangeAndRestart ==
    /\ doing = "running" /\ onSetup
    /\ nvData' \in Values \ {nvData}
    /\ doing' = "erasing" /\ restarts' = TRUE
    /\ UNCHANGED <<onSetup, savedNvData, flash, writeFailed>>

IsSaveNeeded == nvData # savedNvData

ChangePage ==
    /\ doing = "running"
    /\ onSetup' = ~onSetup
    /\ doing' = IF onSetup /\ IsSaveNeeded THEN "erasing" ELSE doing
    /\ UNCHANGED <<nvData, savedNvData, flash, restarts, writeFailed>>

FactoryReset ==
    /\ doing = "running" /\ onSetup
    /\ nvData' = Invalid
    /\ doing' = "erasing" /\ restarts' = TRUE
    /\ UNCHANGED <<onSetup, savedNvData, flash, writeFailed>>

(* FlashData::Save: flash memory is erased, and then written unless that    *)
(* fails.  If it cannot be erased it is left alone, or, on a SAM4S, written *)
(* over what is there, which may leave anything.                            *)
Erase ==
    /\ doing = "erasing"
    /\ \/ flash' = Invalid /\ doing' = "writing" /\ UNCHANGED writeFailed
       \/ /\ flash' \in Values \cup {Invalid}
          /\ doing' = "loading"
          /\ writeFailed' = TRUE
    /\ UNCHANGED <<onSetup, nvData, savedNvData, restarts>>
Write ==
    /\ doing = "writing"
    /\ doing' = "loading"
    /\ \/ flash' = nvData /\ writeFailed' = FALSE
       \/ writeFailed' = TRUE /\ UNCHANGED flash
    /\ UNCHANGED <<onSetup, nvData, savedNvData, restarts>>

\* Mutant: the write is taken to have worked.
LoadNot ==
    /\ doing = "loading"
    /\ savedNvData' = nvData
    /\ doing' = IF restarts THEN "off" ELSE "running"
    /\ UNCHANGED <<onSetup, nvData, flash, restarts, writeFailed>>

(* "To make sure it worked, load the settings again", but not after a       *)
(* factory reset.                                                           *)
Load ==
    /\ doing = "loading"
    /\ savedNvData' = IF nvData = Invalid THEN nvData ELSE flash
    /\ doing' = IF restarts THEN "off" ELSE "running"
    /\ UNCHANGED <<onSetup, nvData, flash, restarts, writeFailed>>

PowerFails ==
    /\ doing # "off"
    /\ doing' = "off"
    /\ UNCHANGED <<onSetup, nvData, savedNvData, flash, restarts, writeFailed>>

Next ==
    \/ Start \/ Change \/ ChangeAndRestart \/ ChangePage \/ FactoryReset
    \/ Erase \/ Write \/ Load \/ PowerFails
Spec == Init /\ [][Next]_vars

-----------------------------------------------------------------------------
(* What the loop takes to be in flash memory is there, also when a write    *)
(* failed or a restart interrupted it, so that the settings are saved again *)
(* when the Setup page is left the next time; and off that page, the        *)
(* settings in use are those the panel will start with, unless the last     *)
(* write failed.                                                            *)
SettingsKept ==
    doing = "running" =>
        /\ savedNvData = flash
        /\ onSetup \/ writeFailed \/ nvData = flash

=============================================================================
