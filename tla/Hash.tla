-------------------------------- MODULE Hash ---------------------------------
(***************************************************************************)
(* leveldb::Hash of src/leveldb/util/hash.cc, step by step: the loop over  *)
(* four-byte words and the fall-through switch over the 1 to 3 bytes left. *)
(* A uint32_t is four bytes, least significant first, so that arithmetic   *)
(* wraps at 2^32 as in C++ (TLC's integers are narrower than the products).*)
(* The tail bytes are read through `const char*`: whether char is signed   *)
(* is the build's choice, and it decides what data[i] << k adds.           *)
(***************************************************************************)
EXTENDS Integers, Sequences, Bitwise

CONSTANTS
    Inputs,        \* the byte strings hashed
    Seeds,         \* the seeds, as uint32 words
    CharIsSigned   \* the builds: TRUE where char is signed

VARIABLES
    data,     \* the bytes hashed (fixed)
    seed,     \* the seed (fixed)
    signed,   \* the build's char signedness (fixed)
    pos,      \* data - (the original data pointer)
    h,        \* h
    pc        \* "words", "tail" or "done"

vars == <<data, seed, signed, pos, h, pc>>

-----------------------------------------------------------------------------
(* uint32_t arithmetic.                                                     *)

U32(n) == [i \in 1 .. 4 |-> (n \div (256 ^ (i - 1))) % 256]

\* a + b modulo 2^32.
Add32(a, b) ==
    LET s1 == a[1] + b[1]  s2 == a[2] + b[2] + s1 \div 256
        s3 == a[3] + b[3] + s2 \div 256  s4 == a[4] + b[4] + s3 \div 256
    IN <<s1 % 256, s2 % 256, s3 % 256, s4 % 256>>

\* Fault seed: h kept in a 64-bit integer, the product's top byte not wrapped.
Mul32Wide(a, b) ==
    LET s1 == a[1] * b[1]
        s2 == a[1] * b[2] + a[2] * b[1] + s1 \div 256
        s3 == a[1] * b[3] + a[2] * b[2] + a[3] * b[1] + s2 \div 256
        s4 == a[1] * b[4] + a[2] * b[3] + a[3] * b[2] + a[4] * b[1] + s3 \div 256
    IN <<s1 % 256, s2 % 256, s3 % 256, s4>>

\* a * b modulo 2^32: the byte products of each column, carries passed up.
Mul32(a, b) ==
    LET s1 == a[1] * b[1]
        s2 == a[1] * b[2] + a[2] * b[1] + s1 \div 256
        s3 == a[1] * b[3] + a[2] * b[2] + a[3] * b[1] + s2 \div 256
        s4 == a[1] * b[4] + a[2] * b[3] + a[3] * b[2] + a[4] * b[1] + s3 \div 256
    IN <<s1 % 256, s2 % 256, s3 % 256, s4 % 256>>

Xor32(a, b) == [i \in 1 .. 4 |-> a[i] ^^ b[i]]

\* a >> (8 * k).
Shr(a, k) == [i \in 1 .. 4 |-> IF i + k <= 4 THEN a[i + k] ELSE 0]

\* const uint32_t m = 0xc6a4a793.
M == <<147, 167, 164, 198>>

\* The int that data[i] << (8 * k) gives, as the uint32_t added to h: a
\* signed char of 128 .. 255 is negative and sign-extends.
CharWord(b, k) ==
    [i \in 1 .. 4 |-> CASE i = k + 1 -> b
                        [] i > k + 1  -> IF signed /\ b >= 128 THEN 255 ELSE 0
                        [] OTHER      -> 0]

-----------------------------------------------------------------------------

\* Fault seed: the loop stops while four bytes are still left.
WordFitsStrict(p, n) == p + 4 < n

\* while (data + 4 <= limit)
WordFits(p, n) == p + 4 <= n

\* h += w; h *= m; h ^= (h >> 16);
MixWord(x, w) == LET a == Mul32(Add32(x, w), M) IN Xor32(a, Shr(a, 2))

\* h = seed ^ (n * m)
Init ==
    /\ data \in Inputs
    /\ seed \in Seeds
    /\ signed \in CharIsSigned
    /\ pos = 0
    /\ h = Xor32(seed, Mul32(U32(Len(data)), M))
    /\ pc = "words"

\* One iteration: DecodeFixed32 reads the bytes as unsigned.
Word ==
    /\ pc = "words" /\ WordFits(pos, Len(data))
    /\ h' = MixWord(h, SubSeq(data, pos + 1, pos + 4))
    /\ pos' = pos + 4
    /\ UNCHANGED <<data, seed, signed, pc>>

LoopExit ==
    /\ pc = "words" /\ ~WordFits(pos, Len(data))
    /\ pc' = "tail"
    /\ UNCHANGED <<data, seed, signed, pos, h>>

\* The switch on limit - data: case 3 falls through to 2 and 1, case 1
\* multiplies and mixes with r = 24; no case for 0.
TailBytes ==
    /\ pc = "tail"
    /\ LET rest == Len(data) - pos
           t3 == IF rest >= 3 THEN Add32(h, CharWord(data[pos + 3], 2)) ELSE h
           t2 == IF rest >= 2 THEN Add32(t3, CharWord(data[pos + 2], 1)) ELSE t3
           t1 == Add32(t2, CharWord(data[pos + 1], 0))
           a == Mul32(t1, M)
       IN h' = IF rest \in 1 .. 3 THEN Xor32(a, Shr(a, 3)) ELSE h
    /\ pc' = "done"
    /\ UNCHANGED <<data, seed, signed, pos>>

Next == Word \/ LoopExit \/ TailBytes

Spec == Init /\ [][Next]_vars

-----------------------------------------------------------------------------

TypeOK ==
    /\ h \in [1 .. 4 -> 0 .. 255]
    /\ pos \in 0 .. Len(data)
    /\ pc \in {"words", "tail", "done"}

\* The hash as the murmur-like design states it: every byte unsigned, the
\* full words mixed in order with r = 16, then the 1 to 3 remaining bytes
\* taken as one little-endian word and mixed with r = 24.
RefHash(d, s) ==
    LET n == Len(d)
        nw == n \div 4
        Mix[k \in 0 .. nw] ==
            IF k = 0 THEN Xor32(s, Mul32(U32(n), M))
            ELSE LET a == Mul32(Add32(Mix[k - 1], SubSeq(d, 4 * k - 3, 4 * k)), M)
                 IN Xor32(a, Shr(a, 2))
        rest == n - 4 * nw
        tailWord == [i \in 1 .. 4 |-> IF i <= rest THEN d[4 * nw + i] ELSE 0]
        a == Mul32(Add32(Mix[nw], tailWord), M)
    IN IF rest = 0 THEN Mix[nw] ELSE Xor32(a, Shr(a, 3))

\* The value Hash returns is the reference hash of the bytes, whatever the
\* length and the bytes: the same on every build, since filter blocks built
\* with it are stored in table files.
HashMatchesReference == pc = "done" => h = RefHash(data, seed)

=============================================================================
