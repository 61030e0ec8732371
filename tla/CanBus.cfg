SPECIFICATION FairSpec
CONSTANTS
    AxisCount = 2
    MailboxCount = 1
    FifoDepth = 1
    NodeId = {0, 1}
    MaxReinit = 1
INVARIANTS
    TypeOK
    IdOutranksData
PROPERTIES
    DuplicatesStay
    HighestNeverLatches
    MessagesRead
