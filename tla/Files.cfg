SPECIFICATION Spec
CONSTANTS
    Packets <- MCPackets
    Link = 1
    MaxBlanks = 2
    BufferSize = 6
    BlockSize = 2
    Rooms = {3, 20, 49, 1000}
    Foreign <- MCForeign
    BLOCK_SIZE = 2
INVARIANTS
    CaptureInOrder
    PcapReads
    GenetAllOrNothing
    DoneMeansWritten
    ArrayReads
    HandlesStay
PROPERTIES
    CaptureDelivers
    CaptureStops
CHECK_DEADLOCK FALSE
