\* Lines are cut short and some messages carry no key.
CONSTANTS
    NumSeqs = 1
    StateSeq = 1
    MaxSeq = 1
    MaxBoot = 0
    MaxUp = 0
    MaxQueue = 1
    MaxTrouble = 2
    CutLines = TRUE
    Keyless = TRUE
    Patient = TRUE
SPECIFICATION Spec
PROPERTY ErrorIsRetried
