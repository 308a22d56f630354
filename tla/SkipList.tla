------------------------------ MODULE SkipList -------------------------------
(***************************************************************************)
(* leveldb::SkipList of src/leveldb/db/skiplist.h: one writer (Insert is   *)
(* externally synchronised) and readers that run without any lock.         *)
(*                                                                         *)
(* A node is named by its key; head_ is HeadNode, NULL is Nil.         *)
(* Every load a reader makes of a next_ pointer is a step of its own, so   *)
(* the writer's stores fall between them.  next_ pointers are read with    *)
(* acquire loads and published with release stores, so a reader sees a    *)
(* linked node fully initialised: the model is sequentially consistent for *)
(* them.  max_height_ is read and written without barriers: a reader may   *)
(* read any value not older than one it read before.                       *)
(***************************************************************************)
EXTENDS Integers, Sequences, FiniteSets

SeqExt == INSTANCE SequencesExt

CONSTANTS
    Keys,        \* the keys the writer may insert (positive integers)
    kMaxHeight,  \* skiplist.h: enum { kMaxHeight = 12 }
    Readers      \* reader threads

HeadNode == 0
Nil == -1
Nodes == {HeadNode} \cup Keys
Levels == 0 .. kMaxHeight - 1

\* The reader operations: Contains, Iterator::Seek, Iterator::Prev and
\* Iterator::SeekToLast, which search with FindGreaterOrEqual,
\* FindLessThan and FindLast.
Ops == {"contains", "seek", "prev", "last"}

VARIABLES
    next,       \* next[n][l]: node n's next_[l]
    height,     \* height of each allocated node (0: not allocated)
    maxHeight,  \* max_height_
    w,          \* the writer's Insert: [pc, key, h, prev, i]
    inserted,   \* history: keys whose Insert has returned
    rs          \* per reader: [pc, op, key, x, level, node, seen, snap, found]

vars == <<next, height, maxHeight, w, inserted, rs>>

-----------------------------------------------------------------------------

HeightOf(n) == IF n = HeadNode THEN kMaxHeight ELSE height[n]

\* SkipList::KeyIsAfterNode: NULL is after every key.
KeyIsAfterNode(key, n) == n # Nil /\ n < key

\* FindGreaterOrEqual as the writer runs it, filling prev[level].
RECURSIVE FindPrev(_, _, _, _)
FindPrev(x, level, key, prev) ==
    LET nx == next[x][level] IN
    IF KeyIsAfterNode(key, nx) THEN FindPrev(nx, level, key, prev)
    ELSE LET p2 == [prev EXCEPT ![level] = x] IN
         IF level = 0 THEN p2 ELSE FindPrev(x, level - 1, key, p2)

\* Fault seed: RandomHeight's loop runs while height <= kMaxHeight.
RandomHeightsOffByOne == 1 .. kMaxHeight + 1

\* The heights SkipList::RandomHeight can return.
RandomHeights == 1 .. kMaxHeight

\* SkipList::Insert up to the first link: FindGreaterOrEqual, RandomHeight
\* (any height: the generator is abstracted), raising max_height_ with
\* prev[i] = head_ for the new levels, and NewNode.
InsertStart ==
    /\ w.pc = "idle"
    /\ \E k \in Keys \ inserted, h \in RandomHeights :
          LET found == FindPrev(HeadNode, maxHeight - 1, k, [l \in Levels |-> Nil])
              prev == [l \in Levels |-> IF l >= maxHeight /\ l < h THEN HeadNode ELSE found[l]]
          IN /\ maxHeight' = IF h > maxHeight THEN h ELSE maxHeight
             /\ height' = [height EXCEPT ![k] = h]
             /\ w' = [pc |-> "link", key |-> k, h |-> h, prev |-> prev, i |-> 0]
    /\ UNCHANGED <<next, inserted, rs>>

\* Fault seed: x's own next_[i] is never set before x is published.
InsertLinkNoSuccessor ==
    /\ w.pc = "link"
    /\ LET k == w.key  i == w.i  p == w.prev[i] IN
       /\ next' = [next EXCEPT ![p][i] = k]
       /\ IF i + 1 = w.h
          THEN /\ w' = [w EXCEPT !.pc = "idle", !.i = 0]
               /\ inserted' = inserted \cup {k}
          ELSE /\ w' = [w EXCEPT !.i = i + 1]
               /\ UNCHANGED inserted
    /\ UNCHANGED <<height, maxHeight, rs>>

\* Fault seed: the levels are published from the top down.
InsertLinkTopDown ==
    /\ w.pc = "link"
    /\ LET k == w.key  i == w.h - 1 - w.i  p == w.prev[i] IN
       /\ next' = [next EXCEPT ![k][i] = next[p][i], ![p][i] = k]
       /\ IF w.i + 1 = w.h
          THEN /\ w' = [w EXCEPT !.pc = "idle", !.i = 0]
               /\ inserted' = inserted \cup {k}
          ELSE /\ w' = [w EXCEPT !.i = w.i + 1]
               /\ UNCHANGED inserted
    /\ UNCHANGED <<height, maxHeight, rs>>

\* One iteration of Insert's final loop: x->NoBarrier_SetNext(i, ...), then
\* the release store prev[i]->SetNext(i, x) that publishes x at level i.
\* Nothing else writes, so the two stores are one step.
InsertLink ==
    /\ w.pc = "link"
    /\ LET k == w.key  i == w.i  p == w.prev[i] IN
       /\ next' = [next EXCEPT ![k][i] = next[p][i], ![p][i] = k]
       /\ IF i + 1 = w.h
          THEN /\ w' = [w EXCEPT !.pc = "idle", !.i = 0]
               /\ inserted' = inserted \cup {k}
          ELSE /\ w' = [w EXCEPT !.i = i + 1]
               /\ UNCHANGED inserted
    /\ UNCHANGED <<height, maxHeight, rs>>

-----------------------------------------------------------------------------
(* Readers.                                                                 *)

\* The keys a reader would find at level 0 now.
RECURSIVE ListFrom(_, _, _)
ListFrom(n, l, fuel) ==
    IF fuel = 0 \/ next[n][l] = Nil THEN <<>>
    ELSE <<next[n][l]>> \o ListFrom(next[n][l], l, fuel - 1)

List(l) == ListFrom(HeadNode, l, Cardinality(Keys) + 1)

\* Fault seed: the search starts at level GetMaxHeight() instead of one below.
StartSearchAtHeight(r, op, key) ==
    \E h \in rs[r].seen .. maxHeight :
        rs' = [rs EXCEPT ![r] = [@ EXCEPT !.pc = "search", !.op = op, !.key = key,
                                  !.x = HeadNode, !.level = h, !.seen = h,
                                  !.snap = SeqExt!Range(List(0)), !.found = Nil]]

\* GetMaxHeight() with a barrier-free load: a value not older than the
\* reader saw before.
StartSearch(r, op, key) ==
    \E h \in rs[r].seen .. maxHeight :
        rs' = [rs EXCEPT ![r] = [@ EXCEPT !.pc = "search", !.op = op, !.key = key,
                                  !.x = HeadNode, !.level = h - 1, !.seen = h,
                                  !.snap = SeqExt!Range(List(0)), !.found = Nil]]

Idle(r) == rs[r].pc # "search"

\* SkipList::Contains and Iterator::Seek call FindGreaterOrEqual(key).
Contains(r) == Idle(r) /\ \E k \in Keys : StartSearch(r, "contains", k)
Seek(r) == Idle(r) /\ \E k \in Keys : StartSearch(r, "seek", k)

\* Iterator::Prev (REQUIRES Valid()) calls FindLessThan(node_->key).
Prev(r) == Idle(r) /\ rs[r].node \notin {Nil, HeadNode} /\ StartSearch(r, "prev", rs[r].node)

\* Iterator::SeekToLast calls FindLast().
SeekToLast(r) == Idle(r) /\ StartSearch(r, "last", 0)

\* Whether the search loop moves right from x to nx at this level:
\* FindGreaterOrEqual's KeyIsAfterNode, FindLessThan's negated test and
\* FindLast's test for NULL.
Advance(op, key, nx) ==
    CASE op \in {"contains", "seek"} -> KeyIsAfterNode(key, nx)
      [] op = "prev"                 -> ~(nx = Nil \/ nx >= key)
      [] op = "last"                 -> nx # Nil

\* Fault seed: the loop forgets level-- and reloads the same link.
SearchStepStuck(r) ==
    LET s == rs[r]  nx == next[s.x][s.level]
        found == IF s.op \in {"contains", "seek"} THEN nx ELSE s.x
        node == CASE s.op = "contains" -> s.node
                  [] s.op = "seek"     -> nx
                  [] OTHER             -> IF s.x = HeadNode THEN Nil ELSE s.x
    IN
    /\ s.pc = "search"
    /\ rs' = [rs EXCEPT ![r] =
                IF Advance(s.op, s.key, nx) THEN [s EXCEPT !.x = nx]
                ELSE IF s.level = 0
                THEN [s EXCEPT !.pc = "done", !.found = found, !.node = node]
                ELSE s]
    /\ UNCHANGED <<next, height, maxHeight, w, inserted>>

\* One iteration of the search loop: load x->Next(level), then move right,
\* return at level 0, or drop a level.
SearchStep(r) ==
    LET s == rs[r]  nx == next[s.x][s.level]
        found == IF s.op \in {"contains", "seek"} THEN nx ELSE s.x
        node == CASE s.op = "contains" -> s.node
                  [] s.op = "seek"     -> nx
                  [] OTHER             -> IF s.x = HeadNode THEN Nil ELSE s.x
    IN
    /\ s.pc = "search"
    /\ rs' = [rs EXCEPT ![r] =
                IF Advance(s.op, s.key, nx) THEN [s EXCEPT !.x = nx]
                ELSE IF s.level = 0
                THEN [s EXCEPT !.pc = "done", !.found = found, !.node = node]
                ELSE [s EXCEPT !.level = s.level - 1]]
    /\ UNCHANGED <<next, height, maxHeight, w, inserted>>

\* Iterator::SeekToFirst and Iterator::Next: one acquire load of next_[0].
SeekToFirst(r) == Idle(r) /\ rs' = [rs EXCEPT ![r].node = next[HeadNode][0]]
        /\ UNCHANGED <<next, height, maxHeight, w, inserted>>
IterNext(r) == Idle(r) /\ rs[r].node \notin {Nil, HeadNode}
        /\ rs' = [rs EXCEPT ![r].node = next[rs[r].node][0]]
        /\ UNCHANGED <<next, height, maxHeight, w, inserted>>

ReaderStart(r) ==
    /\ \/ Contains(r) \/ Seek(r) \/ Prev(r) \/ SeekToLast(r)
    /\ UNCHANGED <<next, height, maxHeight, w, inserted>>

\* The SkipList constructor: head_ of kMaxHeight NULL links, max_height_ 1.
Init ==
    /\ next = [n \in Nodes |-> [l \in Levels |-> Nil]]
    /\ height = [k \in Keys |-> 0]
    /\ maxHeight = 1
    /\ w = [pc |-> "idle", key |-> HeadNode, h |-> 0, prev |-> [l \in Levels |-> Nil], i |-> 0]
    /\ inserted = {}
    /\ rs = [r \in Readers |-> [pc |-> "idle", op |-> "contains", key |-> 0, x |-> HeadNode,
                                level |-> 0, node |-> Nil, seen |-> 1, snap |-> {},
                                found |-> Nil]]

Next ==
    \/ InsertStart \/ InsertLink
    \/ \E r \in Readers :
          ReaderStart(r) \/ SearchStep(r) \/ SeekToFirst(r) \/ IterNext(r)

Spec == Init /\ [][Next]_vars /\ \A r \in Readers : WF_vars(SearchStep(r))

-----------------------------------------------------------------------------
(* Properties.                                                              *)

TypeOK ==
    /\ next \in [Nodes -> [Levels -> Keys \cup {Nil}]]
    /\ height \in [Keys -> 0 .. kMaxHeight]
    /\ maxHeight \in 1 .. kMaxHeight
    /\ inserted \subseteq Keys
    /\ \A r \in Readers : /\ rs[r].pc \in {"idle", "search", "done"} /\ rs[r].op \in Ops
                         /\ rs[r].x \in Nodes /\ rs[r].node \in Nodes \cup {Nil}

\* The nodes linked at level l: those whose Insert returned with a height
\* above l, and the node being inserted once its loop has passed level l.
Linked(l) ==
    {k \in inserted : height[k] > l}
    \cup (IF w.pc = "link" /\ l < w.i THEN {w.key} ELSE {})

\* Each level of the list, walked from head_, is strictly increasing and
\* holds exactly the nodes Insert has linked at that level: the writer's
\* stale prev[] after raising max_height_, and readers mid-walk, never lose
\* or misplace a node.
Structure ==
    \A l \in Levels :
        /\ \A j \in 1 .. Len(List(l)) - 1 : List(l)[j] < List(l)[j + 1]
        /\ SeqExt!Range(List(l)) = Linked(l)

\* A reader never loads next_[level] of a node whose array is shorter than
\* level + 1 (Node::next_ is allocated with height entries): the racy
\* GetMaxHeight() and the writer's publication order keep every walk
\* inside the arrays.
NoOverread ==
    \A r \in Readers : rs[r].pc = "search" => rs[r].level < HeightOf(rs[r].x)

\* A search that interleaves with Inserts is still correct for the keys
\* that were in the list when it began, and returns only linked nodes:
\* FindGreaterOrEqual returns the first node >= key (so Contains is true
\* for such a key), FindLessThan the last node < key, FindLast the last.
SearchCorrect ==
    \A r \in Readers : rs[r].pc = "done" =>
        LET s == rs[r] IN
        /\ s.found \in Keys => s.found \in SeqExt!Range(List(0))
        /\ s.op \in {"contains", "seek"} =>
              /\ s.found = Nil \/ s.found >= s.key
              /\ \A c \in s.snap : c >= s.key => s.found # Nil /\ s.found <= c
        /\ s.op = "prev" =>
              /\ s.found = HeadNode \/ s.found < s.key
              /\ \A c \in s.snap : c < s.key => s.found # HeadNode /\ s.found >= c
        /\ s.op = "last" =>
              \A c \in s.snap : s.found # HeadNode /\ s.found >= c

\* Every search a reader starts returns, whatever the writer does
\* meanwhile: the loops of FindGreaterOrEqual, FindLessThan and FindLast
\* terminate without any lock.
SearchTerminates ==
    \A r \in Readers : rs[r].pc = "search" ~> rs[r].pc = "done"

=============================================================================
