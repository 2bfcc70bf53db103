------------------------------ MODULE MCAdapter ------------------------------
(* Adapter over two texts and two databases.  Nothing reads request and    *)
(* reply, so states that differ only there are one state to TLC.           *)
EXTENDS Adapter

MCValues == {"a", "b"}
MCBefore(x, y) == x = "a" /\ y = "b"
MCIndexes == {-1, 1}
MCCounts == {-1, 0, 1}
MCPopCounts == {-1, 0, 2}
MCScores == {1}
Bound(n) == [inf |-> FALSE, open |-> FALSE, at |-> n]
MCBounds == {Bound(1)}
MCLimits == {<<0, 0>>}
Symmetry == Permutations(Keys) \cup Permutations(Dbs)
databases == <<stores, others>>
=============================================================================
