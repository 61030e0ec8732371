SPECIFICATION Spec
CONSTANTS
    AxisCount = 1
    MailboxCount = 3
    FifoDepth = 1
    NodeId = {0}
    MaxReinit = 0
INVARIANT
    FramesIntact
