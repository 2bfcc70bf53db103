-------------------------------- MODULE Scan --------------------------------
(***************************************************************************)
(* SCAN of the JavaScript server (src/js/src/commands/server.js) and scan  *)
(* of the adapter (src/js/src/adapter.js), called over and over by a       *)
(* client that hands the cursor back, while others write.                  *)
(*                                                                         *)
(* Nothing is kept between two calls: a cursor is an index into a list of  *)
(* keys that each call builds anew, sorted by SCAN, and in the order the   *)
(* keys were added to their maps by scan.  Two of the five maps of the     *)
(* Database are here, which are listed one after the other.                *)
(***************************************************************************)
EXTENDS Glob

CONSTANTS
  KeyOrder,    \* the keys, in the order sort gives them
  Patterns,    \* arguments MATCH
  Counts,      \* arguments COUNT
  NaN,         \* parseInt of text that is not a number
  Nil,         \* no iteration
  MaxChanges   \* bound: writes, and calls with a COUNT that gets nowhere

(* Negative counts are left out.                                           *)
ASSUME ScanAssumption ==
  /\ KeyOrder \in Seq(Texts) /\ IsInjective(KeyOrder) /\ Patterns \subseteq Texts
  /\ NaN \notin Int /\ Nil \notin Int \cup {NaN}
  /\ Counts \subseteq Nat \cup {NaN} /\ MaxChanges \in Nat

VARIABLES
  maps,       \* the keys of the two maps, in the order they were added
  face,       \* "server" or "adapter"
  pattern,    \* MATCH of the iteration
  cursor,     \* the cursor the client has, or Nil
  returned,   \* history: the keys the iteration returned
  lasting,    \* history: the keys that have been there since it began
  shifts,     \* history: the changes that moved a key to another place
  changes     \* how often MaxChanges was drawn on

iteration == <<face, pattern, cursor>>
vars == <<maps, iteration, returned, lasting, shifts, changes>>

Keys == ToSet(KeyOrder)
Stored(ms) == ToSet(ms[1]) \cup ToSet(ms[2])
Matching == [p \in Patterns |-> {k \in Keys : Test(PatternToRegex(p), k)}]

(* The elements of s that are in S, in their order.                        *)
Only(s, S) ==
  LET kept[n \in 0 .. Len(s)] ==
        IF n = 0 THEN <<>> ELSE IF s[n] \in S THEN Append(kept[n - 1], s[n]) ELSE kept[n - 1]
  IN  kept[Len(s)]

(* [...allKeys].filter(...).sort(), and keysByPattern.                     *)
Listing(ms) ==
  Only(IF face = "server" THEN KeyOrder ELSE ms[1] \o Only(ms[2], Keys \ ToSet(ms[1])),
       Stored(ms) \cap Matching[pattern])
----------------------------------------------------------------------------
Begin(f, p) ==
  /\ cursor = Nil
  /\ face' = f /\ pattern' = p /\ cursor' = 0
  /\ returned' = {} /\ lasting' = Stored(maps) /\ shifts' = 0
  /\ UNCHANGED <<maps, changes>>

(* What the count is taken for: the adapter puts 10 for what is falsy.     *)
CountOf(n) == IF face = "adapter" /\ n \in {0, NaN} THEN 10 ELSE n

NextCursor_Clamped(start, count, len) == IF count = NaN THEN NaN ELSE Min({start + count, len})
NextCursor(start, count, len) ==
  IF count = NaN THEN NaN ELSE IF start + count >= len THEN 0 ELSE start + count
Batch(keys, start, count) ==
  IF count = NaN THEN <<>> ELSE SubSeq(keys, start + 1, Min({start + count, Len(keys)}))

(* Both faces; cursor 0 is the client's sign to stop.                      *)
ScanCall(n) ==
  LET keys  == Listing(maps)
      count == CountOf(n)
      start == IF cursor = NaN THEN 0 ELSE cursor
      next  == NextCursor(start, count, Len(keys))
  IN  /\ cursor # Nil
      /\ cursor' = IF next = 0 THEN Nil ELSE next
      /\ returned' = returned \cup ToSet(Batch(keys, start, count))
      /\ changes' = IF count \in {0, NaN} THEN changes + 1 ELSE changes
      /\ UNCHANGED <<maps, face, pattern, lasting, shifts>>

(* Others add a key to a map or delete one, from one map or from both.  A  *)
(* key is in another place when the old list is not what is left of the    *)
(* new one without the new keys.                                           *)
Write(ms) ==
  LET old == Listing(maps)
      new == Listing(ms)
  IN  /\ changes' = changes + 1
      /\ maps' = ms
      /\ lasting' = lasting \cap Stored(ms)
      /\ shifts' = IF cursor # Nil /\ Only(new, ToSet(old)) # old
                   THEN shifts + 1 ELSE shifts
      /\ UNCHANGED <<iteration, returned>>

Add(k, i) == ~Contains(maps[i], k) /\ Write([maps EXCEPT ![i] = Append(@, k)])
Delete(k, I) ==
  /\ \A i \in I : Contains(maps[i], k)
  /\ Write([i \in 1 .. 2 |-> IF i \in I THEN Only(maps[i], Keys \ {k}) ELSE maps[i]])
----------------------------------------------------------------------------
Init ==
  /\ maps \in [1 .. 2 -> UNION {SetToSeqs(S) : S \in SUBSET Keys}]
  /\ face \in {"server", "adapter"} /\ pattern \in Patterns
  /\ cursor = Nil /\ returned = {} /\ lasting = {} /\ shifts = 0 /\ changes = 0

Iterate == \E n \in Counts : ScanCall(n)
Next ==
  \/ \E f \in {"server", "adapter"}, p \in Patterns : Begin(f, p)
  \/ Iterate
  \/ \E k \in Keys, i \in 1 .. 2 : Add(k, i)
  \/ \E k \in Keys, I \in {{1}, {2}, {1, 2}} : Delete(k, I)

Spec == Init /\ [][Next /\ changes' <= MaxChanges]_vars
FairSpec == Spec /\ WF_vars(\E n \in Counts \ {0, NaN} : ScanCall(n))
----------------------------------------------------------------------------
(* An iteration returns nothing but keys its pattern means, and all of     *)
(* them that are there from its beginning to its end, but for one key at   *)
(* most for each time another write moved keys: where nothing is deleted   *)
(* SCAN misses nothing, nor does scan where no key gets a second type.     *)
(* COUNT 0 alone makes SCAN answer that it is done without having begun.   *)
MissesAreExplained ==
  [][/\ \A k \in returned' : Like[pattern'][k]
     /\ cursor # Nil /\ cursor' = Nil /\ ~(cursor \in {0, NaN} /\ face = "server" /\ ScanCall(0)) =>
          Cardinality({k \in lasting : Like[pattern][k]} \ returned') <= shifts]_vars

(* An iteration comes to its end once the others write no more, if the     *)
(* client asks for a positive number of keys.                              *)
IterationEnds == cursor # Nil ~> cursor = Nil
=============================================================================
