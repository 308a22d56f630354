----------------------------- MODULE MC_LevelDB ------------------------------
(***************************************************************************)
(* The four leveldb units that share no state, checked in one run: a       *)
(* behaviour picks one unit in its initial state and steps only that one,  *)
(* the others stay in their constructed state.                            *)
(*   SkipList:     three keys, kMaxHeight 3, one reader, so that an Insert *)
(*                 raises max_height_ while the reader is mid-walk and a   *)
(*                 node is linked at some levels only.                     *)
(*   BlockBuilder: restart interval 2, up to five entries per block, keys  *)
(*                 of up to two bytes over two letters (shared prefixes,   *)
(*                 none, a key a prefix of the next), values of 0 or 1     *)
(*                 byte: three restart points, Reset after Finish and      *)
(*                 mid-block.                                              *)
(*   Hash:         strings of 0 to 6 bytes over bytes below and above 128  *)
(*                 (0, 1 and 2 words, tails of 0 to 3 bytes), the seed of  *)
(*                 the bloom filter policy (0xbc9f1d34) and 0, a build     *)
(*                 where char is unsigned.                                 *)
(*   log::Reader:  the logs of MC_LogReader (kBlockSize 8, kHeaderSize 3,  *)
(*                 torn logs of up to three records, damaged headers and   *)
(*                 zero-filled tails), read from every initial offset in   *)
(*                 the first five blocks; an idle reader holds the empty   *)
(*                 file.                                                   *)
(***************************************************************************)
EXTENDS Integers, Sequences

VARIABLES
    unit,                                              \* the unit this behaviour runs
    next, height, maxHeight, w, inserted, rs,          \* SkipList
    buffer, restarts, counter, finished, lastKey, added, \* BlockBuilder
    data, seed, signed, pos, h, pc,                    \* Hash
    file, written, initOff, rd, last, returned, reports, done \* log::Reader

MC_Letters == {97, 98}
MC_Keys == {<<>>} \cup {<<a>> : a \in MC_Letters} \cup {<<a, b>> : a, b \in MC_Letters}
MC_Values == {<<>>, <<200>>}
MC_Bytes == {0, 127, 128, 255}
MC_Inputs == UNION {[1 .. n -> MC_Bytes] : n \in 0 .. 6}
MC_Seeds == {<<0, 0, 0, 0>>, <<52, 29, 159, 188>>}
MC_Readers == {"r1"}

SL == INSTANCE SkipList WITH Keys <- {1, 2, 3}, kMaxHeight <- 3, Readers <- MC_Readers
BB == INSTANCE BlockBuilder
        WITH block_restart_interval <- 2, KeySet <- MC_Keys, ValueSet <- MC_Values,
             MaxEntries <- 5
H == INSTANCE Hash WITH Inputs <- MC_Inputs, Seeds <- MC_Seeds, CharIsSigned <- {FALSE}
LogsMC == INSTANCE MC_LogReader
            WITH kBlockSize <- 8, kHeaderSize <- 3, checksum <- TRUE, Logs <- {},
                 InitialOffsets <- {}
LR == INSTANCE LogReader
        WITH kBlockSize <- 8, kHeaderSize <- 3, checksum <- TRUE,
             Logs <- LogsMC!MC_AllLogs, InitialOffsets <- LogsMC!MC_Offsets

\* The constructed state of an idle Hash and of an idle reader.
HIdle == INSTANCE Hash WITH Inputs <- {<<>>}, Seeds <- {<<0, 0, 0, 0>>}, CharIsSigned <- {FALSE}
LRIdle == INSTANCE LogReader
            WITH kBlockSize <- 8, kHeaderSize <- 3, checksum <- TRUE,
                 Logs <- {LogsMC!Truncated(LogsMC!WriteLog(<<1>>), 0)}, InitialOffsets <- {0}

slVars == <<next, height, maxHeight, w, inserted, rs>>
bbVars == <<buffer, restarts, counter, finished, lastKey, added>>
hVars == <<data, seed, signed, pos, h, pc>>
lrVars == <<file, written, initOff, rd, last, returned, reports, done>>
vars == <<unit, slVars, bbVars, hVars, lrVars>>

Init ==
    /\ unit \in {"skiplist", "blockbuilder", "hash", "logreader"}
    /\ SL!Init
    /\ BB!Init
    /\ IF unit = "hash" THEN H!Init ELSE HIdle!Init
    /\ IF unit = "logreader" THEN LR!Init ELSE LRIdle!Init

SkipListStep == unit = "skiplist" /\ SL!Next /\ UNCHANGED <<unit, bbVars, hVars, lrVars>>
BlockBuilderStep == unit = "blockbuilder" /\ BB!Next /\ UNCHANGED <<unit, slVars, hVars, lrVars>>
HashStep == unit = "hash" /\ H!Next /\ UNCHANGED <<unit, slVars, bbVars, lrVars>>
LogReaderStep == unit = "logreader" /\ LR!Next /\ UNCHANGED <<unit, slVars, bbVars, hVars>>

Next == SkipListStep \/ BlockBuilderStep \/ HashStep \/ LogReaderStep

\* SkipList's fairness: a reader's search steps are eventually taken.
Spec ==
    /\ Init /\ [][Next]_vars
    /\ \A r \in MC_Readers :
          WF_vars(unit = "skiplist" /\ SL!SearchStep(r) /\ UNCHANGED <<unit, bbVars, hVars, lrVars>>)

-----------------------------------------------------------------------------
(* The units' properties; see SkipList, BlockBuilder, Hash and LogReader.  *)
(* A unit not run stays in its constructed state, where each holds.        *)

\* Every unit's variables keep their types.
TypeOK == SL!TypeOK /\ BB!TypeOK /\ H!TypeOK /\ LR!TypeOK

\* SkipList: each level walked from head_ is sorted and holds exactly the
\* nodes Insert linked there, with readers and a stale prev[] interleaved.
Structure == SL!Structure

\* SkipList: a reader never loads past a node's next_ array.
NoOverread == SL!NoOverread

\* SkipList: a search racing Inserts returns a correct node for the keys
\* present when it began.
SearchCorrect == SL!SearchCorrect

\* SkipList: every lock-free search returns.
SearchTerminates == SL!SearchTerminates

\* BlockBuilder: a finished block decodes to the pairs added since Reset.
DecodesBack == BB!DecodesBack

\* BlockBuilder: the restart array names every interval-th entry, each
\* stored with its key whole.
RestartPoints == BB!RestartPoints

\* Hash: the value returned is the reference hash of the bytes.
HashMatchesReference == H!HashMatchesReference

\* log::Reader: on an intact file, torn at any byte or zero-filled,
\* ReadRecord returns the owed records in order, each once, then false.
ReadsBack == LR!ReadsBack

\* log::Reader: an intact file read from its start reports nothing; a torn
\* tail is end of input.
NoReportsFromStart == LR!NoReportsFromStart

\* log::Reader: whatever the damage, every record returned is one record as
\* written, in order and once, and the reader resynchronises after damage.
NoSplice == LR!NoSplice
=============================================================================
