---------------------------- MODULE MCQueueEngine -----------------------------
(***************************************************************************)
(* Small instances of QueueEngine.  The .cfg files choose the requests; the *)
(* functions on them are given here.                                       *)
(***************************************************************************)
EXTENDS QueueEngine, TLC

CONSTANTS j1, j2, j3, e1, p1, k1

\* Two identities: j1 gives both, j2 the address, j3 the number.
OverlappingContacts ==
  [j \in Joins |-> IF j = j1 THEN {e1, p1} ELSE IF j = j2 THEN {e1} ELSE {p1}]
\* The same person every time.
SameContact == [j \in Joins |-> {e1}]
\* Customers who give only a name.
NameOnly == [j \in Joins |-> {}]

\* j1 and j2 are one click sent twice.
RetriedClick == [j \in Joins |-> IF j \in {j1, j2} THEN k1 ELSE None]
\* One join is sent under a key, the others without.
FirstKeyed == [j \in Joins |-> IF j = j1 THEN k1 ELSE None]
NoKeys == [j \in Joins |-> None]

\* Model bound: so many requests are between two of their calls at the same time.
UnderWay == { j \in Joins : join[j].pc \in {"reserve", "commit", "recheck"} }
Leaving == { j \in Joins : leave[j] = "found" }
Acting == { s \in Staff : staff[s].pc # "idle" }
TwoAtOnce == Cardinality(UnderWay) + Cardinality(Leaving) + Cardinality(Acting) <= 2

\* Consoles are interchangeable, and so are joins that differ in nothing.
Consoles == Permutations(Staff)
Symmetry == Permutations(Staff) \cup Permutations(Joins)
================================================================================
