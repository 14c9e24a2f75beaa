\* Two boxes and all that may come above them.
CONSTANTS
    Modes = {"info", "confirm", "input"}
    Screensaver = TRUE
    MaxSeq = 2
    MaxSweeps = 1
    MaxCuts = 0
SPECIFICATION Spec
INVARIANTS TypeOK WaitingBoxIsShown
PROPERTIES WaitingBoxStays ShownOnce
