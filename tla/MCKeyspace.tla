----------------------------- MODULE MCKeyspace -----------------------------
(* Keyspace over two texts.  Nothing reads request and reply, so states    *)
(* that differ only there are one state to TLC (VIEW stores).              *)
EXTENDS Keyspace

MCValues == {"a", "b"}
MCBefore(x, y) == x = "a" /\ y = "b"
MCIndexes == {-3, -1, 0, 1}
MCCounts == {NaN, -1, 0, 1, 2}
MCScores == {NaN, 1, 2}
Bound(n) == [inf |-> FALSE, open |-> FALSE, at |-> n]
Infinity == [inf |-> TRUE, open |-> FALSE, at |-> 0]
MCBounds == {Bound(1), Bound(NaN), Infinity, [Bound(1) EXCEPT !.open = TRUE]}
MCLimits == {<<0, -1>>, <<1, 1>>}
Symmetry == Permutations(Keys)
=============================================================================
