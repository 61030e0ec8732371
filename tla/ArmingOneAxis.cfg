CONSTANTS
    AxisCount = 1
    Words = 3
    ArmIsPrompt = TRUE
SPECIFICATION FairSpec
INVARIANTS
    NoTornTimings
PROPERTIES
    DeadManSwitch
    LostInterruptFloats
CHECK_DEADLOCK FALSE
