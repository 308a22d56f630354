-------------------------- MODULE AddrManAbstract --------------------------
(***************************************************************************)
(* What the address manager promises its callers, without buckets or ids: *)
(* every address is absent, new or tried.  Adding addresses only makes   *)
(* reported addresses new and may push as many new ones out as were       *)
(* added; it never touches a tried address.  Marking an address good      *)
(* moves one new address to tried, demoting at most one tried address and *)
(* dropping at most one new one.  Writing addr.dat records the current     *)
(* status; a restart returns to the recorded one (or to nothing).          *)
(***************************************************************************)
EXTENDS Naturals, FiniteSets

CONSTANTS Addresses, NoFile

VARIABLES status, saved

Status == {"absent", "new", "tried"}

Nothing == [a \in Addresses |-> "absent"]

Moved(from, to) == {a \in Addresses : status[a] = from /\ status'[a] = to}

\* Add(addr) / Add(vAddr) with the batch A.
Learn(A) ==
    /\ \A a \in Addresses : status[a] = "tried" <=> status'[a] = "tried"
    /\ Moved("absent", "new") \subseteq A
    /\ Cardinality(Moved("new", "absent")) <= Cardinality(A)
    /\ Moved("absent", "tried") = {}
    /\ UNCHANGED saved

\* Good(addr) for an address that is new.
Promote(a) ==
    /\ status[a] = "new"
    /\ status'[a] = "tried"
    /\ \A x \in Addresses \ {a} :
          \/ status'[x] = status[x]
          \/ status[x] = "tried" /\ status'[x] = "new"
          \/ status[x] = "new" /\ status'[x] = "absent"
    /\ Cardinality(Moved("tried", "new")) <= 1
    /\ Cardinality(Moved("new", "absent")) <= 1
    /\ UNCHANGED saved

Save ==
    /\ saved' = status
    /\ UNCHANGED status

Restart ==
    /\ status' = IF saved = NoFile THEN Nothing ELSE saved
    /\ UNCHANGED saved

Init ==
    /\ saved \in {NoFile} \cup [Addresses -> Status]
    /\ status = IF saved = NoFile THEN Nothing ELSE saved

Next ==
    \/ \E A \in SUBSET Addresses : A # {} /\ Learn(A)
    \/ \E a \in Addresses : Promote(a)
    \/ Save
    \/ Restart

Spec == Init /\ [][Next]_<<status, saved>>
=============================================================================
