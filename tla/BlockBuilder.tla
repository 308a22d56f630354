---------------------------- MODULE BlockBuilder -----------------------------
(***************************************************************************)
(* leveldb::BlockBuilder of src/leveldb/table/block_builder.cc: keys are   *)
(* prefix-compressed against the previous key, every                      *)
(* block_restart_interval keys a key is stored whole at a restart point,   *)
(* and Finish appends the restart offsets and their count.  buffer_ is a   *)
(* sequence of bytes (0 .. 255); keys and values are byte sequences.       *)
(***************************************************************************)
EXTENDS Integers, Sequences, FiniteSets

CONSTANTS
    block_restart_interval,  \* options_->block_restart_interval
    KeySet,                  \* the keys a client may add
    ValueSet,                \* the values a client may add
    MaxEntries               \* bound on Adds between Resets

VARIABLES
    buffer,     \* buffer_
    restarts,   \* restarts_
    counter,    \* counter_
    finished,   \* finished_
    lastKey,    \* last_key_
    added       \* history: the [key, value] pairs added since the last Reset

vars == <<buffer, restarts, counter, finished, lastKey, added>>

-----------------------------------------------------------------------------
(* util/coding.h encodings (its .cc is not in the tree).                    *)

\* PutVarint32: 7 bits per byte, low group first, high bit set on all but
\* the last byte.
RECURSIVE Varint(_)
Varint(v) == IF v < 128 THEN <<v>> ELSE <<(v % 128) + 128>> \o Varint(v \div 128)

\* PutFixed32: four bytes, little-endian.
Fixed32(v) == [i \in 1 .. 4 |-> (v \div (256 ^ (i - 1))) % 256]

\* BytewiseComparator: memcmp over the common length, then the shorter first.
KeyLess(a, b) ==
    \E i \in 0 .. Len(a) :
        /\ i <= Len(b) /\ SubSeq(a, 1, i) = SubSeq(b, 1, i)
        /\ \/ i = Len(a) /\ i < Len(b)
           \/ i < Len(a) /\ i < Len(b) /\ a[i + 1] < b[i + 1]

-----------------------------------------------------------------------------

\* Add's while loop: the length of the prefix key shares with last_key_.
RECURSIVE SharedLen(_, _, _)
SharedLen(last, key, shared) ==
    IF shared < Len(last) /\ shared < Len(key) /\ last[shared + 1] = key[shared + 1]
    THEN SharedLen(last, key, shared + 1) ELSE shared

\* Fault seed: counter_ compared with <=, one key too many per restart.
ShareWithPreviousOffByOne(ctr) == ctr <= block_restart_interval

\* Add compresses against the previous key until the interval is reached.
ShareWithPrevious(ctr) == ctr < block_restart_interval

\* Fault seed: last_key_ extended without resize(shared).
UpdateLastKeyNoResize(last, key, shared) == last \o SubSeq(key, shared + 1, Len(key))

\* last_key_.resize(shared); last_key_.append(key.data() + shared, ...).
UpdateLastKey(last, key, shared) ==
    SubSeq(last, 1, shared) \o SubSeq(key, shared + 1, Len(key))

\* BlockBuilder::Add (REQUIRES: not finished, key after every key added;
\* the asserts of lines 75-78).
Add(key, value) ==
    /\ ~finished
    /\ counter <= block_restart_interval
    /\ buffer = <<>> \/ KeyLess(lastKey, key)
    /\ Len(added) < MaxEntries
    /\ LET share  == ShareWithPrevious(counter)
           shared == IF share THEN SharedLen(lastKey, key, 0) ELSE 0
           nonShared == Len(key) - shared
       IN /\ restarts' = IF share THEN restarts ELSE Append(restarts, Len(buffer))
          /\ buffer' = buffer \o Varint(shared) \o Varint(nonShared) \o Varint(Len(value))
                              \o SubSeq(key, shared + 1, Len(key)) \o value
          /\ lastKey' = UpdateLastKey(lastKey, key, shared)
          /\ counter' = (IF share THEN counter ELSE 0) + 1
    /\ added' = Append(added, [key |-> key, value |-> value])
    /\ UNCHANGED finished

\* The restart array and its length as Finish appends them.
RECURSIVE RestartBytes(_)
RestartBytes(rs) == IF rs = <<>> THEN <<>> ELSE Fixed32(Head(rs)) \o RestartBytes(Tail(rs))

\* BlockBuilder::Finish (called once per block; the slice it returns is
\* only valid until Reset).
Finish ==
    /\ ~finished
    /\ buffer' = buffer \o RestartBytes(restarts) \o Fixed32(Len(restarts))
    /\ finished' = TRUE
    /\ UNCHANGED <<restarts, counter, lastKey, added>>

\* Fault seed: Reset leaves last_key_ as it was.
ResetKeepsLastKey ==
    /\ buffer' = <<>>
    /\ restarts' = <<0>>
    /\ counter' = 0
    /\ finished' = FALSE
    /\ added' = <<>>
    /\ UNCHANGED lastKey

\* BlockBuilder::Reset.
Reset ==
    /\ buffer' = <<>>
    /\ restarts' = <<0>>
    /\ counter' = 0
    /\ finished' = FALSE
    /\ lastKey' = <<>>
    /\ added' = <<>>

\* The constructor: the first restart point is at offset 0.
Init ==
    /\ buffer = <<>>
    /\ restarts = <<0>>
    /\ counter = 0
    /\ finished = FALSE
    /\ lastKey = <<>>
    /\ added = <<>>

Next == Finish \/ Reset \/ \E k \in KeySet, v \in ValueSet : Add(k, v)

Spec == Init /\ [][Next]_vars

-----------------------------------------------------------------------------
(* A reader of the block format described at the top of block_builder.cc,  *)
(* and what the finished block must give it.                               *)

\* GetVarint32 at position p: [v, next].
RECURSIVE GetVarint(_, _, _, _)
GetVarint(b, p, shift, acc) ==
    IF p > Len(b) THEN [v |-> -1, next |-> p]
    ELSE IF b[p] < 128 THEN [v |-> acc + b[p] * shift, next |-> p + 1]
    ELSE GetVarint(b, p + 1, shift * 128, acc + (b[p] - 128) * shift)

\* DecodeFixed32 of the four bytes from position p.
Fixed32At(b, p) ==
    b[p] + 256 * b[p + 1] + 65536 * b[p + 2] + 16777216 * b[p + 3]

\* The entries from position p to limit, each [key, value, shared, off],
\* keys rebuilt from the previous key; a malformed entry ends the list
\* with a key no client adds.
Bad == [key |-> <<-1>>, value |-> <<>>, shared |-> -1, off |-> -1]
RECURSIVE Entries(_, _, _, _)
Entries(b, p, limit, prev) ==
    IF p > limit THEN <<>>
    ELSE LET s == GetVarint(b, p, 1, 0)
             n == GetVarint(b, s.next, 1, 0)
             v == GetVarint(b, n.next, 1, 0)
             kEnd == v.next + n.v - 1
         IN IF s.v < 0 \/ n.v < 0 \/ v.v < 0 \/ s.v > Len(prev) \/ kEnd + v.v > limit
            THEN <<Bad>>
            ELSE LET key == SubSeq(prev, 1, s.v) \o SubSeq(b, v.next, kEnd)
                 IN <<[key |-> key, value |-> SubSeq(b, kEnd + 1, kEnd + v.v),
                       shared |-> s.v, off |-> p - 1]>>
                    \o Entries(b, kEnd + v.v + 1, limit, key)

NumRestarts == Fixed32At(buffer, Len(buffer) - 3)
RestartsStart == Len(buffer) - 4 - 4 * NumRestarts
RestartArray == [i \in 1 .. NumRestarts |-> Fixed32At(buffer, RestartsStart + 4 * (i - 1) + 1)]
Decoded == Entries(buffer, 1, RestartsStart, <<>>)

TypeOK ==
    /\ buffer \in Seq(0 .. 255)
    /\ restarts \in Seq(Nat)
    /\ counter \in 0 .. block_restart_interval
    /\ finished \in BOOLEAN
    /\ lastKey \in Seq(Nat)

\* A finished block, read back entry by entry as the format prescribes,
\* gives exactly the key/value pairs added since the last Reset, in order:
\* the prefix compression against last_key_ (including after a Reset and
\* across restart points) loses and invents nothing.
DecodesBack ==
    finished =>
        /\ RestartsStart >= 0
        /\ [i \in DOMAIN Decoded |-> [key |-> Decoded[i].key, value |-> Decoded[i].value]] = added

\* The restart array names exactly the entries 1, 1 + interval, 1 + 2 *
\* interval, ... (a block with no entries keeps the single restart 0), and
\* each of them stores its key whole, so a reader may start decoding at
\* any restart point.
RestartPoints ==
    finished /\ RestartsStart >= 0 =>
        LET starts == {i \in DOMAIN Decoded : (i - 1) % block_restart_interval = 0}
        IN /\ added = <<>> => RestartArray = <<0>>
           /\ added # <<>> =>
                /\ {RestartArray[j] : j \in DOMAIN RestartArray} = {Decoded[i].off : i \in starts}
                /\ NumRestarts = Cardinality(starts)
           /\ \A i \in starts : Decoded[i].shared = 0

=============================================================================
