\* A box is closed by the printer while another popup is above it.
CONSTANTS
    Modes = {"confirm"}
    Screensaver = TRUE
    MaxSeq = 2
    MaxSweeps = 0
    MaxCuts = 0
SPECIFICATION Spec
PROPERTY ClosedBoxIsGone
