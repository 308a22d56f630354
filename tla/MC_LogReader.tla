--------------------------- MODULE MC_LogReader ----------------------------
(* Small blocks (kBlockSize 8, kHeaderSize 3, so 5 payload bytes fit in a  *)
(* block and 1 or 2 byte trailers occur) and records of 1, 2, 3, 6 and 11 *)
(* bytes: whole, split First/Last, First/Middle/Last, and an empty First   *)
(* at a block tail.                                                        *)
EXTENDS LogWriter

MC_Lens(n) == UNION {[1 .. m -> {1, 2, 3, 6, 11}] : m \in 1 .. n}

\* Every prefix of every log of up to three records.
Torn(l) == {Truncated(WriteLog(l), n) : n \in 0 .. Len(WriteLog(l).file)}

MC_CleanLogs == UNION {Torn(l) : l \in MC_Lens(3)}

\* Logs of up to two records, whole or torn, with one damaged header, and
\* with or without preallocated zeros after them.
MC_DamagedLogs ==
    LET torn == UNION {Torn(l) : l \in MC_Lens(2)}
        damaged == UNION {{Corrupted(t, p) : p \in HeaderPositions(t)} : t \in torn}
    IN  damaged \cup {ZeroFilled(d) : d \in damaged \cup torn}

MC_AllLogs == MC_CleanLogs \cup MC_DamagedLogs

MC_Offsets == 0 .. 40
=============================================================================
