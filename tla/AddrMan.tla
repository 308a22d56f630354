------------------------------ MODULE AddrMan ------------------------------
(***************************************************************************)
(* The stochastic peer address manager CAddrMan of src/addrman.h.          *)
(*                                                                         *)
(* The whole object is one variable am, a record with the fields of the   *)
(* class (nIdCount, mapInfo, mapAddr, vRandom, nTried, vvTried, nNew,     *)
(* vvNew).  Every public entry point runs under LOCK(cs), so each one is  *)
(* one atomic step.  The private helpers (Create, SwapRandom, ShrinkNew,   *)
(* MakeTried, Add_, Good_, ...) are declared in addrman.h and defined in   *)
(* addrman.cpp, which is not part of the sources at hand; they are         *)
(* written here as functions from a table to the SET of tables it may      *)
(* become, the set standing for the random choices (GetRandInt) they make. *)
(*                                                                         *)
(* The persisted file addr.dat is the variable disk; the serialization     *)
(* code of IMPLEMENT_SERIALIZE (write and read branches) is modelled by    *)
(* Serialize and Unserialize.  Time is abstracted: nLastSuccess is 0 or   *)
(* 1 ("never" or "some time"), nTime and nLastTry are left out.            *)
(***************************************************************************)
EXTENDS Integers, Sequences, FiniteSets, SequencesExt

CONSTANTS
    Addresses,          \* network addresses that can be added
    Sources,            \* peers that relay addresses (CNetAddr source)
    DefaultAddr,        \* the address of a default-constructed CAddrInfo
    NoFile,             \* addr.dat does not exist
    TriedBucketOf,      \* [Addresses -> bucket]: CAddrInfo::GetTriedBucket(nKey)
    NewBucketOf,        \* [Addresses \X Sources -> bucket]: GetNewBucket(nKey, src)
    ADDRMAN_TRIED_BUCKET_COUNT,
    ADDRMAN_TRIED_BUCKET_SIZE,
    ADDRMAN_NEW_BUCKET_COUNT,
    ADDRMAN_NEW_BUCKET_SIZE,
    ADDRMAN_NEW_BUCKETS_PER_ADDRESS,
    ADDRMAN_GETADDR_MAX_PCT,
    ADDRMAN_GETADDR_MAX,
    MaxIdCount,         \* bound on nIdCount (ids are never reused)
    MaxAttempts,        \* bound on nAttempts
    InitialFiles        \* addr.dat contents that may exist at first start

TriedBuckets == 0 .. ADDRMAN_TRIED_BUCKET_COUNT - 1
NewBuckets   == 0 .. ADDRMAN_NEW_BUCKET_COUNT - 1

ASSUME
    /\ TriedBucketOf \in [Addresses -> TriedBuckets]
    /\ NewBucketOf \in [Addresses \X Sources -> NewBuckets]
    /\ DefaultAddr \notin Addresses
    /\ ADDRMAN_NEW_BUCKETS_PER_ADDRESS \in 1 .. ADDRMAN_NEW_BUCKET_COUNT
    /\ MaxIdCount \in Nat /\ MaxAttempts \in Nat

VARIABLES
    am,         \* the CAddrMan object
    disk,       \* content of addr.dat: a stream record, or NoFile
    savedView,  \* history: View(am) when disk was last written, or NoFile
    diskStatus  \* history: status of each address in the table disk reads
                \* back to, or NoFile (kept to evaluate the refinement fast)

vars == <<am, disk, savedView, diskStatus>>

-----------------------------------------------------------------------------
(* Small helpers on functions with a growing domain (std::map).            *)

EmptyMap == [x \in {} |-> 0]

\* m[k] = v for a std::map, inserting k when it is absent.
MapSet(m, k, v) == (k :> v) @@ m

\* m.erase(k)
MapErase(m, k) == [x \in DOMAIN m \ {k} |-> m[x]]

Ascending(S) == SetToSortSeq(S, <)

-----------------------------------------------------------------------------
(* CAddrInfo                                                               *)

\* CAddrInfo(addr, source): the constructor and Init().
NewInfo(a, s) ==
    [addr |-> a, source |-> s, nLastSuccess |-> 0, nAttempts |-> 0,
     nRefCount |-> 0, fInTried |-> FALSE, nRandomPos |-> -1]

\* Fault seed: nAttempts not written.
PersistedNoAttempts(info) ==
    [addr |-> info.addr, source |-> info.source,
     nLastSuccess |-> info.nLastSuccess, nAttempts |-> 0]

\* The fields IMPLEMENT_SERIALIZE of CAddrInfo writes: the address, source,
\* nLastSuccess and nAttempts; nRefCount, fInTried, nRandomPos are memory only.
Persisted(info) ==
    [addr |-> info.addr, source |-> info.source,
     nLastSuccess |-> info.nLastSuccess, nAttempts |-> info.nAttempts]

\* Reading a CAddrInfo: a default one whose persisted fields are overwritten.
FromPersisted(p) ==
    [NewInfo(p.addr, p.source) EXCEPT !.nLastSuccess = p.nLastSuccess,
                                      !.nAttempts = p.nAttempts]

-----------------------------------------------------------------------------
(* CAddrMan()                                                              *)

EmptyTable ==
    [nIdCount |-> 0, mapInfo |-> EmptyMap, mapAddr |-> EmptyMap,
     vRandom |-> <<>>, nTried |-> 0, vvTried |-> [b \in TriedBuckets |-> {}],
     nNew |-> 0, vvNew |-> [b \in NewBuckets |-> {}]]

\* size(): the number of entries in vRandom.
Size(t) == Len(t.vRandom)

-----------------------------------------------------------------------------
(* The private helpers of addrman.cpp, as functions of the table t.        *)

\* Create(addr, source, &nId): a fresh id, entry appended to vRandom.
Create(t, a, s) ==
    LET id == t.nIdCount
    IN [t EXCEPT !.nIdCount = @ + 1,
                 !.mapInfo = MapSet(@, id, [NewInfo(a, s) EXCEPT
                                              !.nRandomPos = Len(t.vRandom)]),
                 !.mapAddr = MapSet(@, a, id),
                 !.vRandom = Append(@, id)]

\* Fault seed: a SwapRandom that forgets the second entry's nRandomPos.
SwapRandomOneSided(t, p1, p2) ==
    IF p1 = p2 THEN t
    ELSE LET id1 == t.vRandom[p1 + 1]
             id2 == t.vRandom[p2 + 1]
         IN [t EXCEPT !.mapInfo[id1].nRandomPos = p2,
                      !.vRandom[p1 + 1] = id2,
                      !.vRandom[p2 + 1] = id1]

\* SwapRandom(nRandomPos1, nRandomPos2), positions counted from 0.
SwapRandom(t, p1, p2) ==
    IF p1 = p2 THEN t
    ELSE LET id1 == t.vRandom[p1 + 1]
             id2 == t.vRandom[p2 + 1]
         IN [t EXCEPT !.mapInfo[id1].nRandomPos = p2,
                      !.mapInfo[id2].nRandomPos = p1,
                      !.vRandom[p1 + 1] = id2,
                      !.vRandom[p2 + 1] = id1]

\* Fault seed: a delete that leaves nNew as it was.
DeleteKeepsCount(t, id) ==
    LET t1 == SwapRandom(t, t.mapInfo[id].nRandomPos, Len(t.vRandom) - 1)
    IN [t1 EXCEPT !.vRandom = SubSeq(@, 1, Len(@) - 1),
                  !.mapAddr = MapErase(@, t.mapInfo[id].addr),
                  !.mapInfo = MapErase(@, id)]

\* The delete in ShrinkNew: swap to the end of vRandom, pop, erase.
Delete(t, id) ==
    LET t1 == SwapRandom(t, t.mapInfo[id].nRandomPos, Len(t.vRandom) - 1)
    IN [t1 EXCEPT !.vRandom = SubSeq(@, 1, Len(@) - 1),
                  !.mapAddr = MapErase(@, t.mapInfo[id].addr),
                  !.mapInfo = MapErase(@, id),
                  !.nNew = @ - 1]

\* ShrinkNew(nUBucket): one entry of the bucket loses this membership and is
\* deleted when that was its last one.  Terrible entries go first, else the
\* oldest of four random ones; with time abstracted that is any entry.
ShrinkNew(t, b) ==
    { LET t1 == [t EXCEPT !.vvNew[b] = @ \ {id},
                          !.mapInfo[id].nRefCount = @ - 1]
      IN IF t1.mapInfo[id].nRefCount = 0 THEN Delete(t1, id) ELSE t1
    : id \in t.vvNew[b] }

\* Fault seed: room is made only once the bucket is over its size.
InsertNewLate(t, id, b) ==
    IF id \in t.vvNew[b] THEN {t}
    ELSE LET t1 == [t EXCEPT !.mapInfo[id].nRefCount = @ + 1]
             room == IF Cardinality(t1.vvNew[b]) > ADDRMAN_NEW_BUCKET_SIZE
                     THEN ShrinkNew(t1, b) ELSE {t1}
         IN { [t2 EXCEPT !.vvNew[b] = @ \cup {id}] : t2 \in room }

\* Insert id into new bucket b when it is not there yet, making room first.
InsertNew(t, id, b) ==
    IF id \in t.vvNew[b] THEN {t}
    ELSE LET t1 == [t EXCEPT !.mapInfo[id].nRefCount = @ + 1]
             room == IF Cardinality(t1.vvNew[b]) = ADDRMAN_NEW_BUCKET_SIZE
                     THEN ShrinkNew(t1, b) ELSE {t1}
         IN { [t2 EXCEPT !.vvNew[b] = @ \cup {id}] : t2 \in room }

\* Add_(addr, source): a known tried entry, or one at the maximum reference
\* count, is left alone; a known new one may (stochastic test) get this
\* source's bucket too; an unknown one is created (nNew++) and inserted.
Add_(t, a, s) ==
    IF a \in DOMAIN t.mapAddr
    THEN LET id == t.mapAddr[a]
             info == t.mapInfo[id]
         IN IF info.fInTried \/ info.nRefCount = ADDRMAN_NEW_BUCKETS_PER_ADDRESS
            THEN {t}
            ELSE {t} \cup InsertNew(t, id, NewBucketOf[a, s])
    ELSE IF t.nIdCount >= MaxIdCount THEN {}
    ELSE LET t1 == [Create(t, a, s) EXCEPT !.nNew = @ + 1]
         IN InsertNew(t1, t.nIdCount, NewBucketOf[a, s])

\* SelectTried(nKBucket): the position to evict, the oldest of four random.
SelectTried(t, kb) == t.vvTried[kb]

\* MakeTried(info, nId, nOrigin): out of every new bucket into its tried
\* bucket; when that is full an entry is evicted back to its new bucket.
MakeTried(t, id) ==
    LET a  == t.mapInfo[id].addr
        kb == TriedBucketOf[a]
        t1 == [t EXCEPT !.vvNew = [b \in NewBuckets |-> @[b] \ {id}],
                        !.mapInfo[id].nRefCount = 0,
                        !.nNew = @ - 1]
    IN IF Cardinality(t1.vvTried[kb]) < ADDRMAN_TRIED_BUCKET_SIZE
       THEN {[t1 EXCEPT !.vvTried[kb] = @ \cup {id}, !.nTried = @ + 1,
                        !.mapInfo[id].fInTried = TRUE]}
       ELSE UNION {
              LET old == t1.mapInfo[nOld]
                  ub  == NewBucketOf[old.addr, old.source]
                  t2  == [t1 EXCEPT !.mapInfo[nOld].fInTried = FALSE,
                                    !.vvTried[kb] = (@ \ {nOld}) \cup {id},
                                    !.mapInfo[id].fInTried = TRUE]
                  room == IF Cardinality(t2.vvNew[ub]) = ADDRMAN_NEW_BUCKET_SIZE
                          THEN ShrinkNew(t2, ub) ELSE {t2}
              IN { [t3 EXCEPT !.mapInfo[nOld].nRefCount = 1,
                              !.vvNew[ub] = @ \cup {nOld},
                              !.nNew = @ + 1] : t3 \in room }
            : nOld \in SelectTried(t1, kb) }

\* Good_(addr, nTime): unknown is ignored; else nLastSuccess set, nAttempts
\* reset, and an entry that is in some new bucket is moved to tried.
Good_(t, a) ==
    IF a \notin DOMAIN t.mapAddr THEN {t}
    ELSE LET id == t.mapAddr[a]
             t1 == [t EXCEPT !.mapInfo[id].nLastSuccess = 1,
                             !.mapInfo[id].nAttempts = 0]
         IN IF t1.mapInfo[id].fInTried THEN {t1}
            ELSE IF \A b \in NewBuckets : id \notin t1.vvNew[b] THEN {t1}
            ELSE MakeTried(t1, id)

\* Fault seed: the attempt counter moves the wrong way.
AttemptDecrements(t, a) ==
    IF a \notin DOMAIN t.mapAddr THEN t
    ELSE [t EXCEPT !.mapInfo[t.mapAddr[a]].nAttempts = @ - 1]

\* Attempt_(addr, nTime): nLastTry set (abstracted), nAttempts++.
Attempt_(t, a) ==
    IF a \notin DOMAIN t.mapAddr THEN t
    ELSE [t EXCEPT !.mapInfo[t.mapAddr[a]].nAttempts = @ + 1]

\* GetAddr_: the partial Fisher-Yates shuffle of vRandom: for n < nNodes,
\* swap position n with a random position in [n, size).
RECURSIVE Shuffle(_, _, _)
Shuffle(t, n, nNodes) ==
    IF n >= nNodes THEN {t}
    ELSE UNION { Shuffle(SwapRandom(t, n, r), n + 1, nNodes)
               : r \in n .. Len(t.vRandom) - 1 }

GetAddrCount(t) ==
    LET n == (ADDRMAN_GETADDR_MAX_PCT * Size(t)) \div 100
    IN IF n > ADDRMAN_GETADDR_MAX THEN ADDRMAN_GETADDR_MAX ELSE n

GetAddr_(t) == Shuffle(t, 0, GetAddrCount(t))

-----------------------------------------------------------------------------
(* IMPLEMENT_SERIALIZE of CAddrMan.  The stream is a record of its fields: *)
(* nNew, nTried, nUBuckets, the nNew new entries, the nTried tried entries *)
(* and, per new bucket, the indices of its entries among the new entries.  *)
(* The version byte and nKey are left out: the bucket functions stand for  *)
(* the key, which the stream carries unchanged.                            *)

\* The write branch (fWrite).  mapInfo is walked in id order; the first loop
\* breaks once nNew entries are written and numbers every id it passes
\* (mapUnkIds); an id it never numbered reads as index 0 (operator[]).
Serialize(t) ==
    LET ids == Ascending(DOMAIN t.mapInfo)
        NewStep(acc, i) ==
            IF acc.nIds = t.nNew THEN acc
            ELSE LET info == t.mapInfo[ids[i]]
                 IN [unk   |-> MapSet(acc.unk, ids[i], acc.nIds),
                     infos |-> IF info.nRefCount # 0
                               THEN Append(acc.infos, Persisted(info))
                               ELSE acc.infos,
                     nIds  |-> IF info.nRefCount # 0 THEN acc.nIds + 1
                               ELSE acc.nIds]
        TriedStep(acc, i) ==
            IF acc.nIds = t.nTried \/ ~t.mapInfo[ids[i]].fInTried THEN acc
            ELSE [infos |-> Append(acc.infos, Persisted(t.mapInfo[ids[i]])),
                  nIds  |-> acc.nIds + 1]
        w  == FoldLeftDomain(NewStep, [unk |-> EmptyMap, infos |-> <<>>,
                                       nIds |-> 0], ids)
        tr == FoldLeftDomain(TriedStep, [infos |-> <<>>, nIds |-> 0], ids)
        Index(id) == IF id \in DOMAIN w.unk THEN w.unk[id] ELSE 0
        BucketIndices(b) == LET m == Ascending(t.vvNew[b])
                            IN [k \in 1 .. Len(m) |-> Index(m[k])]
    IN [nNew       |-> t.nNew,
        nTried     |-> t.nTried,
        nUBuckets  |-> ADDRMAN_NEW_BUCKET_COUNT,
        newInfos   |-> w.infos,
        triedInfos |-> tr.infos,
        buckets    |-> [i \in 1 .. ADDRMAN_NEW_BUCKET_COUNT |-> BucketIndices(i - 1)]]

\* Fault seed: the read branch's room check off by one.
TriedRoomOffByOne(t, kb) == Cardinality(t.vvTried[kb]) < ADDRMAN_TRIED_BUCKET_SIZE - 1

\* The read branch's check that the recomputed tried bucket has room.
TriedRoom(t, kb) == Cardinality(t.vvTried[kb]) < ADDRMAN_TRIED_BUCKET_SIZE

\* The read branch.  New entries get ids 0..nNew-1 and, when the bucket count
\* changed, are placed in their recomputed bucket.  Tried entries are placed
\* in their recomputed tried bucket or lost when it is full.  The stored
\* bucket lists are then applied when the bucket count is unchanged, each
\* entry capped at ADDRMAN_NEW_BUCKETS_PER_ADDRESS; mapInfo[nIndex] inserts
\* a default CAddrInfo for an index that names no entry.
Unserialize(st) ==
    LET sameCount == st.nUBuckets = ADDRMAN_NEW_BUCKET_COUNT
        LoadNew(t, i) ==
            LET n    == i - 1
                info == [FromPersisted(st.newInfos[i]) EXCEPT
                            !.nRandomPos = Len(t.vRandom)]
                ub   == NewBucketOf[info.addr, info.source]
                t1   == [t EXCEPT !.mapInfo = MapSet(@, n, info),
                                  !.mapAddr = MapSet(@, info.addr, n),
                                  !.vRandom = Append(@, n)]
            IN IF sameCount THEN t1
               ELSE [t1 EXCEPT !.vvNew[ub] = @ \cup {n},
                               !.mapInfo[n].nRefCount = @ + 1]
        LoadTried(acc, i) ==
            LET t    == acc.t
                info == FromPersisted(st.triedInfos[i])
                kb   == TriedBucketOf[info.addr]
                id   == t.nIdCount
            IN IF TriedRoom(t, kb)
               THEN [acc EXCEPT !.t =
                       [t EXCEPT !.mapInfo = MapSet(@, id, [info EXCEPT
                                    !.nRandomPos = Len(t.vRandom),
                                    !.fInTried = TRUE]),
                                 !.mapAddr = MapSet(@, info.addr, id),
                                 !.vRandom = Append(@, id),
                                 !.vvTried[kb] = @ \cup {id},
                                 !.nIdCount = @ + 1]]
               ELSE [acc EXCEPT !.nLost = @ + 1]
        LoadIndex(t, e) ==
            LET b == e[1]
                nIndex == e[2]
                t1 == IF nIndex \in DOMAIN t.mapInfo THEN t
                      ELSE [t EXCEPT !.mapInfo =
                              MapSet(@, nIndex, NewInfo(DefaultAddr, DefaultAddr))]
            IN IF sameCount /\ t1.mapInfo[nIndex].nRefCount
                                    < ADDRMAN_NEW_BUCKETS_PER_ADDRESS
               THEN [t1 EXCEPT !.mapInfo[nIndex].nRefCount = @ + 1,
                               !.vvNew[b] = @ \cup {nIndex}]
               ELSE t1
        t0 == [EmptyTable EXCEPT !.nNew = st.nNew, !.nTried = st.nTried]
        t1 == [FoldLeftDomain(LoadNew, t0, st.newInfos) EXCEPT
                  !.nIdCount = st.nNew]
        r  == FoldLeftDomain(LoadTried, [t |-> t1, nLost |-> 0], st.triedInfos)
        t2 == [r.t EXCEPT !.nTried = @ - r.nLost]
        entries == FlattenSeq([i \in 1 .. Len(st.buckets) |->
                     [k \in 1 .. Len(st.buckets[i]) |-> <<i - 1, st.buckets[i][k]>>]])
    IN FoldLeft(LoadIndex, t2, entries)

-----------------------------------------------------------------------------
(* What the table says about each address, without ids: used to compare a   *)
(* table with the one read back from its serialization.                   *)

Absent == "absent"

View(t) ==
    [a \in Addresses |->
        IF a \notin DOMAIN t.mapAddr THEN Absent
        ELSE LET id == t.mapAddr[a]
                 info == t.mapInfo[id]
             IN [p     |-> <<info.source, info.nLastSuccess, info.nAttempts>>,
                 tried |-> {b \in TriedBuckets : id \in t.vvTried[b]},
                 new   |-> {b \in NewBuckets : id \in t.vvNew[b]}]]

\* The status of each address: absent, new (an entry without fInTried) or tried.
StatusOf(t) ==
    [a \in Addresses |->
        IF a \notin DOMAIN t.mapAddr THEN "absent"
        ELSE IF t.mapInfo[t.mapAddr[a]].fInTried THEN "tried" ELSE "new"]

-----------------------------------------------------------------------------
(* The public entry points: each takes LOCK(cs) and calls its helper.      *)

Add(a, s) ==
    /\ \E t \in Add_(am, a, s) : am' = t
    /\ UNCHANGED <<disk, savedView, diskStatus>>

\* Add(vAddr, source): Add_ for each address, all under one lock.
AddVector(v, s) ==
    /\ \E t \in UNION { Add_(t1, v[2], s) : t1 \in Add_(am, v[1], s) } : am' = t
    /\ UNCHANGED <<disk, savedView, diskStatus>>

Good(a) ==
    /\ \E t \in Good_(am, a) : am' = t
    /\ UNCHANGED <<disk, savedView, diskStatus>>

Attempt(a) ==
    /\ a \in DOMAIN am.mapAddr
    /\ am.mapInfo[am.mapAddr[a]].nAttempts < MaxAttempts
    /\ am' = Attempt_(am, a)
    /\ UNCHANGED <<disk, savedView, diskStatus>>

GetAddr ==
    /\ \E t \in GetAddr_(am) : am' = t
    /\ UNCHANGED <<disk, savedView, diskStatus>>

\* The node writes addr.dat (CAddrDB::Write streams the whole object).
Dump ==
    /\ disk' = Serialize(am)
    /\ savedView' = View(am)
    /\ diskStatus' = StatusOf(Unserialize(disk'))
    /\ UNCHANGED am

\* The process stops at any point and starts again: a fresh CAddrMan, then
\* addr.dat read into it when it exists.
Restart ==
    /\ am' = IF disk = NoFile THEN EmptyTable ELSE Unserialize(disk)
    /\ UNCHANGED <<disk, savedView, diskStatus>>

Init ==
    /\ disk \in {NoFile} \cup InitialFiles
    /\ am = IF disk = NoFile THEN EmptyTable ELSE Unserialize(disk)
    /\ savedView = NoFile
    /\ diskStatus = IF disk = NoFile THEN NoFile ELSE StatusOf(Unserialize(disk))

\* The calls the network threads make.
TableNext ==
    \/ \E a \in Addresses, s \in Sources : Add(a, s)
    \/ \E a1, a2 \in Addresses, s \in Sources : a1 # a2 /\ AddVector(<<a1, a2>>, s)
    \/ \E a \in Addresses : Good(a)
    \/ \E a \in Addresses : Attempt(a)
    \/ GetAddr

Next == TableNext \/ Dump \/ Restart

\* The table alone, in one run of the process.
TableSpec == Init /\ [][TableNext]_vars

Spec == Init /\ [][Next]_vars


-----------------------------------------------------------------------------
(* Properties                                                              *)

Records ==
    [addr: Addresses \cup {DefaultAddr}, source: Sources \cup {DefaultAddr},
     nLastSuccess: {0, 1}, nAttempts: 0 .. MaxAttempts,
     nRefCount: 0 .. ADDRMAN_NEW_BUCKETS_PER_ADDRESS, fInTried: BOOLEAN,
     nRandomPos: -1 .. MaxIdCount]

TypeOK ==
    /\ am.nIdCount \in 0 .. MaxIdCount
    /\ DOMAIN am.mapInfo \subseteq Nat
    /\ \A id \in DOMAIN am.mapInfo : am.mapInfo[id] \in Records
    /\ DOMAIN am.mapAddr \subseteq Addresses
    /\ am.vRandom \in Seq(Nat)
    /\ am.vvTried \in [TriedBuckets -> SUBSET Nat]
    /\ am.vvNew \in [NewBuckets -> SUBSET Nat]
    /\ am.nTried \in Int /\ am.nNew \in Int
    /\ disk = NoFile \/ DOMAIN disk = {"nNew", "nTried", "nUBuckets", "newInfos",
                                        "triedInfos", "buckets"}

\* The consistency check Check_() (DEBUG_ADDRMAN) and the invariants of the
\* design: mapAddr and mapInfo are inverse, vRandom is a permutation of the
\* ids with nRandomPos pointing back, an entry is either in exactly its own
\* tried bucket (nRefCount = 0, with a success recorded) or in 1..4 new
\* buckets it could have been put in (nRefCount counting them), and nNew,
\* nTried count them.  Add_, Good_, ShrinkNew, MakeTried, GetAddr_ and the
\* read branch of the serialization all rewrite several of these at once.
Consistent(t) ==
    LET ids == DOMAIN t.mapInfo
        NewOf(id) == {b \in NewBuckets : id \in t.vvNew[b]}
    IN
    /\ \A a \in DOMAIN t.mapAddr : t.mapAddr[a] \in ids
                                 /\ t.mapInfo[t.mapAddr[a]].addr = a
    /\ \A id \in ids : t.mapInfo[id].addr \in DOMAIN t.mapAddr
                     /\ t.mapAddr[t.mapInfo[id].addr] = id
    /\ Len(t.vRandom) = Cardinality(ids)
    /\ \A p \in 1 .. Len(t.vRandom) : t.vRandom[p] \in ids
                                    /\ t.mapInfo[t.vRandom[p]].nRandomPos = p - 1
    /\ \A id \in ids : id < t.nIdCount
    /\ \A id \in ids :
         LET info == t.mapInfo[id] IN
         IF info.fInTried
         THEN /\ {b \in TriedBuckets : id \in t.vvTried[b]} = {TriedBucketOf[info.addr]}
              /\ info.nRefCount = 0 /\ NewOf(id) = {}
              /\ info.nLastSuccess # 0
         ELSE /\ \A b \in TriedBuckets : id \notin t.vvTried[b]
              /\ info.nRefCount = Cardinality(NewOf(id))
              /\ info.nRefCount \in 1 .. ADDRMAN_NEW_BUCKETS_PER_ADDRESS
              /\ NewOf(id) \subseteq {NewBucketOf[info.addr, s] : s \in Sources}
    /\ \A b \in TriedBuckets : t.vvTried[b] \subseteq ids
    /\ \A b \in NewBuckets : t.vvNew[b] \subseteq ids
    /\ t.nNew = Cardinality({id \in ids : t.mapInfo[id].nRefCount > 0})
    /\ t.nTried = Cardinality({id \in ids : t.mapInfo[id].fInTried})

\* The table is consistent after every public call and every restart.
Consistency == Consistent(am)

\* No bucket holds more than its size: ShrinkNew, SelectTried and the
\* tried-bucket check of the read branch keep buckets within bounds.
BucketCapacity ==
    /\ \A b \in TriedBuckets : Cardinality(am.vvTried[b]) <= ADDRMAN_TRIED_BUCKET_SIZE
    /\ \A b \in NewBuckets : Cardinality(am.vvNew[b]) <= ADDRMAN_NEW_BUCKET_SIZE

\* Restarting from the addr.dat the node wrote gives back the same table up
\* to ids: every address with its source, nLastSuccess, nAttempts, tried
\* bucket and new buckets (the serialization round trip of addrman.h).
RoundTrip == [][savedView # NoFile /\ am' = Unserialize(disk) => View(am') = savedView]_vars


-----------------------------------------------------------------------------
(* Refinement: the table implements AddrManAbstract.  An address is tried  *)
(* when its entry has fInTried, new when it has an entry otherwise; the   *)
(* recorded status is what reading addr.dat back would give.               *)

Abstract == INSTANCE AddrManAbstract WITH status <- StatusOf(am), saved <- diskStatus

\* Add never touches tried addresses and evicts at most one new address per
\* reported one; Good promotes one address, demoting and dropping at most
\* one; what Dump writes reads back with the same status and Restart
\* returns to it.
RefinesAbstract == Abstract!Spec

=============================================================================
