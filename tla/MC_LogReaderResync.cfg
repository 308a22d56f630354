\* Clean logs read from an initial offset: the reporter must hear nothing.
CONSTANTS
    kBlockSize = 8
    kHeaderSize = 3
    checksum = TRUE
    Logs <- MC_CleanLogs
    InitialOffsets <- MC_Offsets
SPECIFICATION Spec
INVARIANT NoSpuriousReports
CHECK_DEADLOCK FALSE
