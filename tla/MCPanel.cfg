\* Four machines, one change and one fault for the lists; two files with
\* seven pictures; three settings; a limit of five ticks for a beep; three
\* buffers of two keys; three rows and responses of up to four lines.
CONSTANTS
    Machines <- MCMachines
    FirstMachines <- MCFirstMachines
    MaxSlots = 3
    MaxHeatersPerTool = 2
    Cells = {c1, c2}
    Null = Null
    Padded = {}
    MaxChanges = 1
    MaxFaults = 1
    Files = {"f1", "f2"}
    NoFile = "nofile"
    Images <- MCImages
    FieldWidth = 4
    FieldHeight = 4
    MaxViews = 3
    MaxCuts = 1
    Values = {"v1", "v2", "v3"}
    Defaults = "v1"
    Invalid = "invalid"
    Lengths <- MCLengths
    MaxLength = 5
    TouchLength = 1
    Modulus = 16
    Keys = {"k1", "k2"}
    MaxCommand = 2
    NumBuffers = 3
    NumMessageRows = 3
    MaxLines = 4
    MaxResponses = 3
    MaxOwn = 1
SPECIFICATION PanelSpec
INVARIANTS TypeOK ListsAreHosts PointersLive PageShowsMachine AdjustedIsTouched
INVARIANTS PictureCompletes SettingsKept BeepEnds HistoryIsOfSent LogIsOfArrived
SYMMETRY Symmetry
