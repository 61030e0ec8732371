SPECIFICATION Spec
CONSTANTS
    Thread = {t1, t2}
    Calls = 2
    Attempts = 2
    SeqCount = 8
    HardBit = 2
    Capacity = 2
PROPERTY
    AnswersMatch
CHECK_DEADLOCK FALSE
