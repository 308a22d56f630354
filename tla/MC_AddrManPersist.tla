------------------------- MODULE MC_AddrManPersist -------------------------
(***************************************************************************)
(* AddrMan with addr.dat: two addresses from two sources, one tried bucket *)
(* of one entry (the second Good evicts the first back to new) and two new *)
(* buckets of one entry (a2 hashes into bucket 0 from both sources, so     *)
(* ShrinkNew runs).  The node may write addr.dat and restart at any time. *)
(***************************************************************************)
EXTENDS AddrMan

CONSTANTS a1, a2, s1, s2

MC_Addresses == {a1, a2}
MC_Sources == {s1, s2}

MC_TriedBucketOf == [a \in MC_Addresses |-> 0]

MC_NewBucketOf ==
    (<<a1, s1>> :> 0) @@ (<<a1, s2>> :> 1) @@
    (<<a2, s1>> :> 0) @@ (<<a2, s2>> :> 0)

\* addr.dat as written by a build with four new buckets, where a1 and a2,
\* both learnt from s1, sat in buckets 0 and 1.  The current build puts
\* both into new bucket 0, which holds one entry.
MC_LegacyFiles ==
    { [nNew       |-> 2,
       nTried     |-> 0,
       nUBuckets  |-> 4,
       newInfos   |-> << [addr |-> a1, source |-> s1, nLastSuccess |-> 0, nAttempts |-> 0],
                         [addr |-> a2, source |-> s1, nLastSuccess |-> 0, nAttempts |-> 0] >>,
       triedInfos |-> << >>,
       buckets    |-> << <<0>>, <<1>>, << >>, << >> >>] }

\* A damaged addr.dat: one stored bucket index replaced by another 32-bit
\* value (kept to the ids a table of this size uses, and one past them).
CorruptIndex ==
    /\ disk # NoFile
    /\ \E b \in DOMAIN disk.buckets :
         \E k \in DOMAIN disk.buckets[b], v \in 0 .. MaxIdCount :
            disk' = [disk EXCEPT !.buckets[b][k] = v]
    /\ UNCHANGED <<am, savedView, diskStatus>>

CorruptSpec == Init /\ [][Next \/ CorruptIndex]_vars
=============================================================================
