\* Lost lines, late replies, pushes, refusals and restarts; no line is cut.
CONSTANTS
    NumSeqs = 2
    StateSeq = 2
    MaxSeq = 1
    MaxBoot = 1
    MaxUp = 1
    MaxQueue = 2
    MaxTrouble = 1
    CutLines = FALSE
    Keyless = TRUE
    Patient = FALSE
SPECIFICATION Spec
INVARIANTS TypeOK OkIsFresh
