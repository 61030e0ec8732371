CONSTANTS
    AxisCount = 2
    Words = 0
    ArmIsPrompt = FALSE
SPECIFICATION Spec
INVARIANTS
    TypeOK
    BrakeInterlock
    ArmStartsFloating
PROPERTIES
    DeadlineEnforced
    InterlockSpec
CHECK_DEADLOCK FALSE
