SPECIFICATION FairSpec
CONSTANTS
    Thread = {t1, t2}
    Calls = 2
    Attempts = 2
    SeqCount = 8
    HardBit = 4
    Capacity = 2
INVARIANTS
    TypeOK
PROPERTIES
    AnswersMatch
    RemoteCallSpec
    EveryCallEnds
CHECK_DEADLOCK FALSE
