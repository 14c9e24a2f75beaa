\* Macros in directories, one of which cannot be read; answers may be lost.
CONSTANTS
    Listing <- MCListingMacros
    Names <- MCNames
    DirNames = {"gcodes", "macros", "sub", "old"}
    Rank <- MCRank
    Gcodes = "gcodes"
    Macros = "macros"
    NoGcodesFolder = FALSE
    NumVolumes = 1
    Rows = 1
    Capacity = 3
    NumShort = 1
    Opened = {"macro"}
    MaxWire = 1
    MaxScroll = 1
    Lossy = TRUE
SPECIFICATION Spec
INVARIANTS ListIsOfPath OffsetInList HiddenListIsAwaited
