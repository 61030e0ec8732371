CONSTANTS
    NData = 6
    Length = 2
    MaxSaves = 4
    MaxResets = 2
    MaxFailures = 1
SPECIFICATION Spec
INVARIANTS
    TypeOK
    WholeBlocks
    SettledReadsLatest
PROPERTIES
    ReadSideUntouched
CHECK_DEADLOCK FALSE
