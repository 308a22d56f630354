------------------------------- MODULE PubKey --------------------------------
(***************************************************************************)
(* CPubKey of src/key.h: a public key kept as its serialized bytes in a    *)
(* fixed array vch[PubKeySize], whose length is read off the header byte   *)
(* vch[0], and its serialization as a byte vector (a CompactSize length,  *)
(* then the bytes).                                                        *)
(*                                                                         *)
(* A few CPubKey objects are set, serialized into one stream and          *)
(* unserialized from it again, as the wallet does with its key records.   *)
(* The stream may also carry records no CPubKey wrote (a damaged file).   *)
(* The array sizes 33 and 65 are constants, so that an MC can use small   *)
(* keys with the same header bytes.                                        *)
(***************************************************************************)
EXTENDS Integers, Sequences, FiniteSets

CONSTANTS
    CompressedSize, \* 33
    PubKeySize,     \* 65: the size of vch
    Bytes,          \* byte values the model uses (header bytes among them)
    Garbage,        \* what uninitialized bytes of vch may hold
    Damaged,        \* records a damaged stream may hold: a length, bytes
    Objects,        \* the CPubKey objects
    Inputs,         \* byte vectors passed to Set
    MaxStream,      \* bound on the stream's length
    None

Idx == 0 .. PubKeySize - 1
Vch == [Idx -> Bytes]

VARIABLES
    key,        \* key[o]: the vch array of object o
    stream,     \* the CDataStream: written at the back, read from the front
    pending,    \* per record in the stream, whether a CPubKey wrote it
    last        \* the last Unserialize: object, origin, bytes read, key

vars == <<key, stream, pending, last>>

\* GetLen: the length of a public key with header byte chHeader.
GetLen(chHeader) ==
    IF chHeader \in {2, 3} THEN CompressedSize
    ELSE IF chHeader \in {4, 6, 7} THEN PubKeySize
    ELSE 0

\* size()
Size(k) == GetLen(k[0])

\* Invalidate: vch[0] = 0xFF.
Invalidate(k) == [k EXCEPT ![0] = 255]

\* memcpy(vch, b, n) of the first n bytes of the sequence b.
CopyIn(k, b, n) == [i \in Idx |-> IF i < n THEN b[i + 1] ELSE k[i]]

\* Set(pbegin, pend)
SetBytes(k, b) ==
    LET len == IF b = <<>> THEN 0 ELSE GetLen(b[1])
    IN  IF len # 0 /\ len = Len(b) THEN CopyIn(k, b, len) ELSE Invalidate(k)

\* Serialize: WriteCompactSize(size()), then the size() bytes.  The
\* CompactSize of a length below 253 is one byte, its value.
Serialized(k) == <<Size(k)>> \o [i \in 1 .. Size(k) |-> k[i - 1]]

\* GetSerializeSize
SerializeSize(k) == Size(k) + 1

\* Fault seed: the read branch copies one byte fewer than it consumes.
UnserializedShort(k, len, body) ==
    IF len <= PubKeySize THEN CopyIn(k, body, len - 1) ELSE Invalidate(k)

\* Unserialize, given the CompactSize len and the len bytes after it: up to
\* 65 bytes are read into vch as they are; a longer record is skipped byte
\* by byte and the key invalidated.
Unserialized(k, len, body) ==
    IF len <= PubKeySize THEN CopyIn(k, body, len) ELSE Invalidate(k)

-----------------------------------------------------------------------------

\* CPubKey(): Invalidate() sets vch[0]; the other bytes are uninitialized.
Construct(o) ==
    /\ \E g \in [Idx -> Garbage] : key' = [key EXCEPT ![o] = Invalidate(g)]
    /\ UNCHANGED <<stream, pending, last>>

\* Set(pbegin, pend), also CPubKey(vector).
Set(o, b) ==
    /\ key' = [key EXCEPT ![o] = SetBytes(key[o], b)]
    /\ UNCHANGED <<stream, pending, last>>

\* s << pubkey
Serialize(o) ==
    /\ Len(stream) + SerializeSize(key[o]) <= MaxStream
    /\ stream' = stream \o Serialized(key[o])
    /\ pending' = Append(pending, TRUE)
    /\ UNCHANGED <<key, last>>

\* A record of the stream no CPubKey wrote: a CompactSize and that many
\* bytes.
Damage(r) ==
    /\ Len(stream) + Len(r) <= MaxStream
    /\ stream' = stream \o r
    /\ pending' = Append(pending, FALSE)
    /\ UNCHANGED <<key, last>>

\* s >> pubkey: ReadCompactSize, then the read branch.  A stream shorter
\* than the length it declares throws in CDataStream::read; the model
\* only reads records that are whole.
Unserialize(o) ==
    /\ stream # <<>>
    /\ LET len  == Head(stream)
           body == SubSeq(stream, 2, 1 + len)
           k    == Unserialized(key[o], len, body)
       IN  /\ Len(stream) >= 1 + len
           /\ key' = [key EXCEPT ![o] = k]
           /\ stream' = SubSeq(stream, 2 + len, Len(stream))
           /\ pending' = Tail(pending)
           /\ last' = [obj |-> o, written |-> Head(pending), read |-> body, got |-> k]

Init ==
    /\ key \in [Objects -> {Invalidate(g) : g \in [Idx -> Garbage]}]
    /\ stream = <<>>
    /\ pending = <<>>
    /\ last = None

Next ==
    \/ \E o \in Objects :
          \/ Construct(o) \/ Serialize(o) \/ Unserialize(o)
          \/ \E b \in Inputs : Set(o, b)
    \/ \E r \in Damaged : Damage(r)

Spec == Init /\ [][Next]_vars

-----------------------------------------------------------------------------
(* Properties.                                                             *)

TypeOK ==
    /\ key \in [Objects -> Vch]
    /\ stream \in Seq(Nat)
    /\ pending \in Seq(BOOLEAN)
    /\ Len(pending) <= Len(stream)
    /\ last \in {None} \cup [obj : Objects, written : BOOLEAN,
                             read : Seq(Bytes), got : Vch]

\* A valid key serialized into the stream and read back, into any object
\* whatever it held before, is the key that was written: it serializes to
\* the very record read (same header, same size() bytes).  Records no CPubKey wrote, declaring any length, 66 and more
\* included, may lie between: the read branch consumes exactly one record,
\* so the stream stays framed.
RoundTrip ==
    last # None /\ last.written /\ last.read # <<>> =>
        Serialized(last.got) = <<Len(last.read)>> \o last.read
=============================================================================
