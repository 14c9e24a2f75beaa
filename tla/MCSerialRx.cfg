\* Lines longer than the buffer and three of them.
CONSTANTS
    BufSize = 3
    LineLen = 4
    MaxLine = 3
    MaxErrors = 2
SPECIFICATION Spec
INVARIANTS TypeOK Resynchronizes
PROPERTIES NoSplice FifoSpec
CHECK_DEADLOCK FALSE
