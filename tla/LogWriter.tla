----------------------------- MODULE LogWriter ------------------------------
(***************************************************************************)
(* The log files a leveldb::log::Writer produces (log_writer.h declares    *)
(* AddRecord; its body is not in the tree, so it is written from the       *)
(* format of log_format.h), and the damage a file may have when a reader  *)
(* opens it: the writer dying part-way, a physical record whose crc no     *)
(* longer matches, and preallocated space of zeros after the data.        *)
(***************************************************************************)
EXTENDS LogReader

\* AddRecord's do-while: pad a block tail shorter than a header with zeros,
\* emit as much as fits, typed by whether it begins and/or ends the record.
RECURSIVE EmitFragments(_, _, _, _)
EmitFragments(f, id, left, begin) ==
    LET leftover == kBlockSize - (Len(f) % kBlockSize)
        f1 == IF leftover < kHeaderSize THEN f \o [i \in 1 .. leftover |-> Zero] ELSE f
        n == MinOf(left, kBlockSize - (Len(f1) % kBlockSize) - kHeaderSize)
        end == left = n
        type == IF begin THEN (IF end THEN kFullType ELSE kFirstType)
                ELSE (IF end THEN kLastType ELSE kMiddleType)
        f2 == f1 \o <<Hdr(type, n, TRUE, id)>> \o [i \in 1 .. kHeaderSize - 1 |-> Pad]
                 \o [i \in 1 .. n |-> Data(id)]
    IN IF end THEN f2 ELSE EmitFragments(f2, id, left - n, FALSE)

\* Where the next record's first header goes.
NextStart(f) ==
    IF kBlockSize - (Len(f) % kBlockSize) < kHeaderSize
    THEN Len(f) + kBlockSize - (Len(f) % kBlockSize) ELSE Len(f)

\* A log of the records 1 .. Len(lens), record i being lens[i] bytes of i.
RECURSIVE WriteAll(_, _, _, _, _)
WriteAll(f, lens, i, starts, ends) ==
    IF i > Len(lens) THEN [file |-> f, lens |-> lens, starts |-> starts, ends |-> ends]
    ELSE LET f1 == EmitFragments(f, i, lens[i], TRUE)
         IN WriteAll(f1, lens, i + 1, Append(starts, NextStart(f)), Append(ends, Len(f1)))

WriteLog(lens) == WriteAll(<<>>, lens, 1, <<>>, <<>>)

\* The writer died after n bytes reached the file.
Truncated(l, n) == [l EXCEPT !.file = SubSeq(@, 1, n)]

\* The header at position p no longer matches its crc.
Corrupted(l, p) == [l EXCEPT !.file[p].ok = FALSE]

\* The rest of the last block is preallocated zeros.
ZeroFilled(l) ==
    [l EXCEPT !.file = @ \o [i \in 1 .. (kBlockSize - (Len(@) % kBlockSize)) % kBlockSize |-> Zero]]

HeaderPositions(l) == {p \in DOMAIN l.file : l.file[p].k = "hdr"}
=============================================================================
