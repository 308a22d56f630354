\* Clean logs read from offset 0: LastRecordOffset after each record.
CONSTANTS
    kBlockSize = 8
    kHeaderSize = 3
    checksum = TRUE
    Logs <- MC_CleanLogs
    InitialOffsets = {0}
SPECIFICATION Spec
INVARIANT LastOffsetExact
CHECK_DEADLOCK FALSE
