SPECIFICATION Spec
CONSTANTS
    Sent <- MCSent
    First = 7
    MaxU32 = 65535
    Checksums = {0}
INVARIANT Reassembled
