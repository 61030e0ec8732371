CONSTANTS
    NData = 8
    Length = 2
    MaxSaves = 3
    MaxResets = 2
    MaxFailures = 0
SPECIFICATION Spec
INVARIANTS
    ReadsLatestBlock
CHECK_DEADLOCK FALSE
