----------------------------- MODULE LogReader ------------------------------
(***************************************************************************)
(* leveldb::log::Reader of src/leveldb/db/log_reader.cc reading a log      *)
(* file written in the format of log_format.h.                             *)
(*                                                                         *)
(* The file is a sequence of cells, one per byte: the first byte of a      *)
(* physical record's header carries its type, length, the record it was  *)
(* written for and whether its stored crc is intact; the other header     *)
(* bytes are padding; a payload byte carries                              *)
(* the id of the logical record it belongs to; zero bytes are block       *)
(* trailers or preallocated space.  buffer_ is the sequence of cells read *)
(* and not yet consumed; fpos is the SequentialFile's position.            *)
(*                                                                         *)
(* ReadRecord is one action: the client's call, with the whole loop over   *)
(* ReadPhysicalRecord it makes, written as recursive operators.            *)
(***************************************************************************)
EXTENDS Integers, Sequences, FiniteSets, SequencesExt

CONSTANTS
    kBlockSize,     \* log_format.h: 32768
    kHeaderSize,    \* log_format.h: 4 + 1 + 2
    checksum,       \* the checksum argument of the constructor
    Logs,           \* [file, lens, starts, ends]: files the reader may be
                    \* given, with the lengths, start and end offsets of the
                    \* records the writer added
    InitialOffsets  \* the initial_offset arguments it may be given

\* log_format.h RecordType, and the reader's extra values.
kZeroType == 0
kFullType == 1
kFirstType == 2
kMiddleType == 3
kLastType == 4
kMaxRecordType == kLastType
kEof == kMaxRecordType + 1
kBadRecord == kMaxRecordType + 2

\* File cells.
Hdr(t, n, ok, i) == [k |-> "hdr", type |-> t, len |-> n, ok |-> ok, id |-> i]
Pad == [k |-> "pad", type |-> 0, len |-> 0, ok |-> TRUE, id |-> 0]
Zero == [k |-> "zero", type |-> 0, len |-> 0, ok |-> TRUE, id |-> 0]
Data(i) == [k |-> "data", type |-> 0, len |-> 0, ok |-> TRUE, id |-> i]

VARIABLES
    file,       \* the file's content (fixed)
    written,    \* history: [lens, starts, ends] of the records the writer added
    initOff,    \* initial_offset_ (fixed)
    rd,         \* [buf, eob, eof, fpos]: buffer_, end_of_buffer_offset_,
                \* eof_ and the file position
    last,       \* last_record_offset_
    returned,   \* records ReadRecord returned, with LastRecordOffset after each
    reports,    \* reasons passed to the reporter, in order
    done        \* ReadRecord returned false

vars == <<file, written, initOff, rd, last, returned, reports, done>>

-----------------------------------------------------------------------------

MinOf(a, b) == IF a < b THEN a ELSE b

\* a >= b for uint64 a computed by subtraction: a negative a has wrapped
\* round to a value near 2^64.
UnsignedGE(a, b) == a < 0 \/ a >= b

\* Reader::ReportDrop, through ReportCorruption: report unless the dropped
\* bytes lie before initial_offset_ (the reporter is non-NULL).
ReportDrop(r, reps, bytes, reason) ==
    IF UnsignedGE(r.eob - Len(r.buf) - bytes, initOff)
    THEN Append(reps, reason) ELSE reps

\* The first header byte read as a header: zero bytes read as type 0,
\* length 0; any other byte reads as a header of no known type whose crc
\* does not match.
HeaderAt(c) ==
    CASE c.k = "hdr"  -> c
      [] c.k = "zero" -> Hdr(kZeroType, 0, TRUE, 0)
      [] OTHER        -> Hdr(kMaxRecordType + 3, 0, FALSE, 0)

\* Fault seed: the crc covers only the header, not the payload.
CrcMatchesHeaderOnly(buf, h) == h.ok

\* crc32c::Value over the type and payload equals the stored crc: the stored
\* crc is intact and the payload bytes are those it was computed over (a
\* crc32c collision is not modelled).
CrcMatches(buf, h) ==
    h.ok /\ \A i \in 1 .. h.len : buf[kHeaderSize + i] = Data(h.id)

\* SequentialFile::Read(kBlockSize): up to a block from the file position.
ReadBlock(fpos) ==
    SubSeq(file, fpos + 1, MinOf(fpos + kBlockSize, Len(file)))

\* The result of Reader::ReadPhysicalRecord: [r, type, frag, reps].
PhysResult(r, t, frag, reps) == [r |-> r, type |-> t, frag |-> frag, reps |-> reps]

\* Fault seed: a record cut short by the end of the file is reported.
BadRecordLengthAlwaysReports(cleared, reps, dropSize) ==
    PhysResult(cleared, kBadRecord, <<>>,
               ReportDrop(cleared, reps, dropSize, "bad record length"))

\* A header whose length runs past the buffer, which has been cleared: in
\* the middle of the file the record is dropped as corrupt; at its end the
\* writer died part-way, and it is end of input, not reported.
BadRecordLength(cleared, reps, dropSize) ==
    IF ~cleared.eof
    THEN PhysResult(cleared, kBadRecord, <<>>,
                    ReportDrop(cleared, reps, dropSize, "bad record length"))
    ELSE PhysResult(cleared, kEof, <<>>, reps)

\* Fault seed: the payload sliced from one byte early.
FragmentOffByOne(buf, h) == [i \in 1 .. h.len |-> buf[kHeaderSize - 1 + i].id]

\* The payload slice after the header.
Fragment(buf, h) == [i \in 1 .. h.len |-> buf[kHeaderSize + i].id]

\* Reader::ReadPhysicalRecord.
RECURSIVE ReadPhysicalRecord(_, _)
ReadPhysicalRecord(r, reps) ==
    LET cleared == [r EXCEPT !.buf = <<>>] IN
    IF Len(r.buf) < kHeaderSize
    THEN IF ~r.eof
         THEN \* skip the trailer, read the next block
              LET b == ReadBlock(r.fpos)
              IN ReadPhysicalRecord([buf |-> b, eob |-> r.eob + Len(b),
                                     eof |-> Len(b) < kBlockSize,
                                     fpos |-> r.fpos + Len(b)], reps)
         ELSE \* truncated header at the end of the file
              PhysResult(cleared, kEof, <<>>, reps)
    ELSE LET h == HeaderAt(r.buf[1]) IN
    IF kHeaderSize + h.len > Len(r.buf)
    THEN BadRecordLength(cleared, reps, Len(r.buf))
    ELSE IF h.type = kZeroType /\ h.len = 0
    THEN PhysResult(cleared, kBadRecord, <<>>, reps)
    ELSE IF checksum /\ ~CrcMatches(r.buf, h)
    THEN PhysResult(cleared, kBadRecord, <<>>,
                    ReportDrop(cleared, reps, Len(r.buf), "checksum mismatch"))
    ELSE LET r1 == [r EXCEPT !.buf = SubSeq(r.buf, kHeaderSize + h.len + 1, Len(r.buf))]
         IN IF r1.eob - Len(r1.buf) - kHeaderSize - h.len < initOff
            THEN PhysResult(r1, kBadRecord, <<>>, reps)
            ELSE PhysResult(r1, h.type, Fragment(r.buf, h), reps)

\* "kBlockSize - 6" in the code is kBlockSize - (kHeaderSize - 1): an offset
\* past it lies in a block trailer.
TrailerStart == kBlockSize - (kHeaderSize - 1)

\* Fault seed: the file is skipped but end_of_buffer_offset_ is not moved.
SkipToInitialBlockKeepsEob(r) ==
    LET inBlock == initOff % kBlockSize
        start   == initOff - inBlock + (IF inBlock > TrailerStart THEN kBlockSize ELSE 0)
    IN [r EXCEPT !.fpos = @ + (IF start > 0 THEN start ELSE 0)]

\* Reader::SkipToInitialBlock (file_->Skip succeeds; it moves the file
\* position forward from where it is).
SkipToInitialBlock(r) ==
    LET inBlock == initOff % kBlockSize
        start   == initOff - inBlock + (IF inBlock > TrailerStart THEN kBlockSize ELSE 0)
    IN [r EXCEPT !.eob = start, !.fpos = @ + (IF start > 0 THEN start ELSE 0)]

\* The loop of Reader::ReadRecord: [r, ok, rec, last, reps] on return.
RECURSIVE ReadLoop(_, _, _, _, _)
ReadLoop(r, reps, inFrag, scratch, prospective) ==
    LET physOff == r.eob - Len(r.buf)
        p == ReadPhysicalRecord(r, reps)
        Report(n, reason) == ReportDrop(p.r, p.reps, n, reason)
        Return(ok, rec, off, reps1) ==
            [r |-> p.r, ok |-> ok, rec |-> rec, last |-> off, reps |-> reps1]
    IN
    CASE p.type = kFullType ->
            Return(TRUE, p.frag, physOff,
                   IF inFrag /\ scratch # <<>>
                   THEN Report(Len(scratch), "partial record without end(1)")
                   ELSE p.reps)
      [] p.type = kFirstType ->
            ReadLoop(p.r, IF inFrag /\ scratch # <<>>
                          THEN Report(Len(scratch), "partial record without end(2)")
                          ELSE p.reps,
                     TRUE, p.frag, physOff)
      [] p.type = kMiddleType ->
            IF ~inFrag
            THEN ReadLoop(p.r, Report(Len(p.frag), "missing start of fragmented record(1)"),
                          inFrag, scratch, prospective)
            ELSE ReadLoop(p.r, p.reps, inFrag, scratch \o p.frag, prospective)
      [] p.type = kLastType ->
            IF ~inFrag
            THEN ReadLoop(p.r, Report(Len(p.frag), "missing start of fragmented record(2)"),
                          inFrag, scratch, prospective)
            ELSE Return(TRUE, scratch \o p.frag, prospective, p.reps)
      [] p.type = kEof ->
            Return(FALSE, <<>>, -1, p.reps)
      [] p.type = kBadRecord ->
            IF inFrag
            THEN ReadLoop(p.r, Report(Len(scratch), "error in middle of record"),
                          FALSE, <<>>, prospective)
            ELSE ReadLoop(p.r, p.reps, inFrag, scratch, prospective)
      [] OTHER ->
            ReadLoop(p.r, Report(Len(p.frag) + (IF inFrag THEN Len(scratch) ELSE 0),
                                 "unknown record type"),
                     FALSE, <<>>, prospective)

\* A client's call of ReadRecord, until it returns false.
ReadRecord ==
    /\ ~done
    /\ LET r0 == IF last < initOff THEN SkipToInitialBlock(rd) ELSE rd
           res == ReadLoop(r0, reports, FALSE, <<>>, 0)
       IN /\ rd' = res.r
          /\ reports' = res.reps
          /\ IF res.ok
             THEN /\ last' = res.last
                  /\ returned' = Append(returned, [rec |-> res.rec, off |-> res.last])
                  /\ UNCHANGED done
             ELSE /\ done' = TRUE
                  /\ UNCHANGED <<last, returned>>
    /\ UNCHANGED <<file, written, initOff>>

\* Reader::Reader.
Init ==
    /\ \E l \in Logs : file = l.file /\ written = [lens |-> l.lens, starts |-> l.starts, ends |-> l.ends]
    /\ initOff \in InitialOffsets
    /\ rd = [buf |-> <<>>, eob |-> 0, eof |-> FALSE, fpos |-> 0]
    /\ last = 0
    /\ returned = <<>>
    /\ reports = <<>>
    /\ done = FALSE

Next == ReadRecord

Spec == Init /\ [][Next]_vars

-----------------------------------------------------------------------------
(* Properties, comparing what ReadRecord returns with what was written.     *)

Records == 1 .. Len(written.lens)

\* The payload record i was written with.
Payload(i) == [j \in 1 .. written.lens[i] |-> i]

\* Record i reached the file whole: its last byte is there, not lost to a
\* crash and not overwritten by preallocated zeros.
Complete(i) == written.ends[i] <= Len(file) /\ file[written.ends[i]].k = "data"

\* The records the reader owes its client, in order: those complete in the
\* file that start at or after initial_offset.
Expected == [k \in 1 .. Cardinality({i \in Records : Complete(i) /\ written.starts[i] >= initOff}) |->
               CHOOSE i \in Records :
                  /\ Complete(i) /\ written.starts[i] >= initOff
                  /\ Cardinality({j \in 1 .. i - 1 : Complete(j) /\ written.starts[j] >= initOff}) = k - 1]

\* Headers whose crc no longer matches, and the blocks they are in.
BadHeaders == {p \in DOMAIN file : file[p].k = "hdr" /\ ~file[p].ok}
BlockOf(p) == (p - 1) \div kBlockSize

\* No header damaged, and no zeros inside a physical record: any zeros
\* follow the data the writer wrote (block trailers, preallocated space).
Intact ==
    /\ BadHeaders = {}
    /\ \A p \in DOMAIN file :
          file[p].k = "hdr" =>
             \A q \in p + 1 .. p + kHeaderSize - 1 + file[p].len :
                q \in DOMAIN file => file[q].k # "zero"

Recs == [k \in DOMAIN returned |-> returned[k].rec]

TypeOK ==
    /\ rd.buf \in Seq([k : {"hdr", "pad", "zero", "data"}, type : Nat, len : Nat,
                        ok : BOOLEAN, id : Nat])
    /\ rd.eob \in Nat /\ rd.fpos \in Nat /\ rd.eof \in BOOLEAN
    /\ last \in Nat
    /\ returned \in Seq([rec : Seq(Records), off : Nat])
    /\ done \in BOOLEAN

\* On a file whose headers all match their crcs, a prefix of what the
\* writer wrote (it may have died at any byte) with or without its last
\* block preallocated with zeros, ReadRecord returns exactly the owed records, in order,
\* each once, before it returns false: a torn tail is end of input, as the
\* comments at kEof and at "bad record length" promise.
ReadsBack ==
    BadHeaders = {} =>
       /\ IsPrefix(Recs, [k \in DOMAIN Expected |-> Payload(Expected[k])])
       /\ done => Recs = [k \in DOMAIN Expected |-> Payload(Expected[k])]

\* On such a file the reporter hears nothing: log_reader.h says it is
\* notified only when data is dropped because of a detected corruption.
NoSpuriousReports == reports = <<>>

\* Read from the start, an intact file (the writer may have died at any
\* byte) gives the reporter nothing: log_reader.h says it is notified only
\* when data is dropped because of a detected corruption, and a torn tail
\* is end of input.
NoReportsFromStart == Intact /\ initOff = 0 => reports = <<>>

\* LastRecordOffset() after each successful ReadRecord is the physical
\* offset at which the writer began the record just returned, as
\* log_reader.h promises.
LastOffsetExact ==
    \A k \in DOMAIN returned :
        k \in DOMAIN Expected => returned[k].off = written.starts[Expected[k]]

\* Whatever the damage, a record ReadRecord returns is one record exactly as
\* written (never fragments of two records spliced, never a partial one),
\* records come back in the order written and none twice; and once the
\* reader has returned false, every complete record lying wholly in the
\* blocks after the last damaged one was returned: the reader resynchronises.
NoSplice ==
    /\ \A k \in DOMAIN returned : \E i \in Records : returned[k].rec = Payload(i)
    /\ \A k \in DOMAIN returned : \A k2 \in 1 .. k - 1 :
          returned[k2].rec # <<>> /\ returned[k].rec # <<>> =>
             returned[k2].rec[1] < returned[k].rec[1]
    /\ done =>
          \A i \in Records :
             /\ Complete(i) /\ written.lens[i] > 0 /\ written.starts[i] >= initOff
             /\ \A p \in BadHeaders : BlockOf(p) < written.starts[i] \div kBlockSize
             => \E k \in DOMAIN returned : returned[k].rec = Payload(i)
=============================================================================
