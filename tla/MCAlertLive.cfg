\* Messages may be cut short and popups taken away; no screensaver.
CONSTANTS
    Modes = {"info", "input"}
    Screensaver = FALSE
    MaxSeq = 2
    MaxSweeps = 1
    MaxCuts = 1
SPECIFICATION FairSpec
PROPERTIES NewBoxIsShown ClosedBoxGoes
