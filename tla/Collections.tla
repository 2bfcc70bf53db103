----------------------------- MODULE Collections -----------------------------
(***************************************************************************)
(* What the hash, list, set and sorted set modules share: the key space,   *)
(* the reply of the last command, and the loops that class Database        *)
(* (src/js/src/store/database.js) runs over argument lists, given by what  *)
(* they compute.                                                           *)
(*                                                                         *)
(* Each of the four modules models one map of a Database and the commands  *)
(* on it; Keyspace puts them together.  A handler runs to completion, so a *)
(* command is one action.  EXPIRE reaches strings only, so an entry of     *)
(* these maps never carries a deadline and their expiry tests never hold.  *)
(* Options and indexes that are not numbers, and argument lists that end   *)
(* in the middle of a pair, are left out, except where a NaN is stored.    *)
(***************************************************************************)
EXTENDS Resp, FiniteSets, SequencesExt

CONSTANTS
  Keys,
  Values,    \* the texts used as fields, members and values
  NoEntry,   \* Map.get of a key that is not in the map
  NaN,       \* parseInt and parseFloat of text that is not a number
  Indexes,   \* arguments of LRANGE, LINDEX, LSET and ZRANGE
  MaxArgs    \* bound: longest list of elements a command is given

ASSUME CollectionsAssumption ==
  /\ Nil \notin Values /\ NaN \notin Int /\ MaxArgs \in Nat \ {0} /\ Indexes \subseteq Int
  /\ NoEntry \notin Seq(Values)
  /\ \A F \in SUBSET Values : NoEntry # F /\ NoEntry \notin [F -> Values] \cup [F -> Int \cup {NaN}]

VARIABLES
  request,   \* history: the last command and its arguments
  reply      \* what it sent back

ListsOf(S) == UNION {[1 .. n -> S] : n \in 1 .. MaxArgs}
Elements(xs) == {xs[i] : i \in DOMAIN xs}
Empty == <<>>   \* a new Map, Array or Set has nothing in it
IsMap(m, S) == \E F \in SUBSET Values : m \in [F -> S]
----------------------------------------------------------------------------
(* A loop that adds the elements xs one by one finds an element missing    *)
(* where it is not in S and was not in an earlier turn; likewise present   *)
(* in a loop that deletes.                                                 *)
Firsts(xs) == {i \in DOMAIN xs : \A j \in DOMAIN xs : j < i => xs[j] # xs[i]}
Added(xs, S)   == Cardinality({i \in Firsts(xs) : xs[i] \notin S})
Removed(xs, S) == Cardinality({i \in Firsts(xs) : xs[i] \in S})

(* A loop of Map.set over pairs: the last value given to a name stays.     *)
Names(ps) == [i \in DOMAIN ps |-> ps[i][1]]
LastOf(ps, f) ==
  CHOOSE i \in DOMAIN ps : ps[i][1] = f /\ \A j \in DOMAIN ps : j > i => ps[j][1] # f
PutAll(m, ps) ==
  [f \in DOMAIN m \cup Elements(Names(ps)) |->
     IF f \in Elements(Names(ps)) THEN ps[LastOf(ps, f)][2] ELSE m[f]]

Without(m, fs) == [f \in DOMAIN m \ Elements(fs) |-> m[f]]

(* Array.slice between two indexes, negative ones counted from the end     *)
(* (listRange, zsetRange).                                                 *)
From(start, len) == IF start >= 0 THEN start ELSE IF len + start < 0 THEN 0 ELSE len + start
To(stop, len) ==
  LET e == IF stop < 0 THEN len + stop ELSE stop IN IF e >= len THEN len - 1 ELSE e
Slice(s, start, stop) == SubSeq(s, From(start, Len(s)) + 1, To(stop, Len(s)) + 1)
=============================================================================
