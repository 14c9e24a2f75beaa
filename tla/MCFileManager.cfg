\* One card, a directory below the root of the files; answers may be lost.
CONSTANTS
    Listing <- MCListingFiles
    Names <- MCNames
    DirNames = {"gcodes", "macros", "sub", "old"}
    Rank <- MCRank
    Gcodes = "gcodes"
    Macros = "macros"
    NoGcodesFolder = FALSE
    NumVolumes = 1
    Rows = 1
    Capacity = 3
    NumShort = 1
    Opened = {"gcode", "macro"}
    MaxWire = 1
    MaxScroll = 1
    Lossy = TRUE
SPECIFICATION Spec
INVARIANTS TypeOK FillsFreeList ListIsOfPath ButtonsLeadToList CommandsNameFiles
