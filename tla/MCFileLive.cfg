\* Two cards; nothing is lost; the macros are read again and again.
CONSTANTS
    Listing <- MCListingCards
    Names <- MCNames
    DirNames = {"gcodes", "macros", "sub", "old"}
    Rank <- MCRank
    Gcodes = "gcodes"
    Macros = "macros"
    NoGcodesFolder = FALSE
    NumVolumes = 2
    Rows = 1
    Capacity = 3
    NumShort = 1
    Opened = {"gcode"}
    MaxWire = 1
    MaxScroll = 1
    Lossy = FALSE
SPECIFICATION FairSpec
PROPERTY ListComes
