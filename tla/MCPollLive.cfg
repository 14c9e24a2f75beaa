\* A host that speaks only when asked; lines are lost and cut; it may restart.
CONSTANTS
    NumSeqs = 2
    StateSeq = 2
    MaxSeq = 1
    MaxBoot = 1
    MaxUp = 1
    MaxQueue = 2
    MaxTrouble = 2
    CutLines = TRUE
    Keyless = FALSE
    Patient = TRUE
SPECIFICATION FairSpec
INVARIANT OneOutstanding
PROPERTIES Converges ComesBack MirrorSpec
