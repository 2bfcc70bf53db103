--------------------------- MODULE AdapterContents ---------------------------
(***************************************************************************)
(* What the adapter's methods promise on collections: where they do what a *)
(* command of the server does, that is the promise of Contents.  There are *)
(* several databases, one of them selected.  An intersection that is to be *)
(* stored is taken at once and stored later, in order, in whatever         *)
(* database is selected by then.                                           *)
(***************************************************************************)
EXTENDS Contents

CONSTANTS Dbs, PopCounts

VARIABLES selected,    \* the database the other variables speak of
          elsewhere,   \* the contents of the other databases
          stores       \* the intersections to be stored, oldest first

adapterVars == <<vars, selected, elsewhere, stores>>

Here == [text |-> text, hash |-> hash, list |-> list, set |-> set, zset |-> zset, husks |-> husks]
Nothing == [text |-> {}, hash |-> [k \in Keys |-> <<>>], list |-> [k \in Keys |-> <<>>],
            set |-> [k \in Keys |-> {}], zset |-> [k \in Keys |-> <<>>], husks |-> {}]
Move(c) ==
  /\ text' = c.text /\ hash' = c.hash /\ list' = c.list /\ set' = c.set /\ zset' = c.zset
  /\ husks' = c.husks
----------------------------------------------------------------------------
InsertAt(s, p, v) ==
  [q \in 1 .. Len(s) + 1 |-> IF q < p THEN s[q] ELSE IF q = p THEN v ELSE s[q - 1]]

AdapterListWrite ==
  \/ \E k \in Keys, i \in Indexes, j \in Indexes :
       /\ request' = <<"lTrim", k, i, j>> /\ reply' = OK
       /\ SetList(k, At(list[k], Positions(Len(list[k]), i, j)))
  \/ \E k \in Keys, before \in BOOLEAN, pivot \in Values, v \in Values :
       /\ request' = <<"lInsert", k, before, pivot, v>>
       /\ \/ /\ Holding(list[k], pivot) = {}
             /\ reply' = Integer(IF "list" \in Types(k) THEN -1 ELSE 0)
             /\ UNCHANGED <<text, hash, list, set, zset, husks>>
          \/ \E p \in Holding(list[k], pivot) :
               /\ \A q \in Holding(list[k], pivot) : p <= q
               /\ SetList(k, InsertAt(list[k], IF before THEN p ELSE p + 1, v))
               /\ reply' = Integer(Len(list[k]) + 1)

(* To intersect removes from the first set what is not in the others.      *)
Common(ks) == {m \in set[ks[1]] : \A i \in DOMAIN ks : m \in set[ks[i]]}
NarrowFirst(ks) ==
  /\ set' = [set EXCEPT ![ks[1]] = Common(ks)]
  /\ husks' = IF "set" \in Types(ks[1]) /\ Common(ks) = {} THEN husks \cup {<<"set", ks[1]>>}
              ELSE husks \ {<<"set", ks[1]>>}
  /\ UNCHANGED <<text, hash, list, zset>>

Arrangements(S, n) == {s \in [1 .. n -> S] : Cardinality(Elements(s)) = n}
AtMost(n, S) == IF n < 0 THEN 0 ELSE IF n < Cardinality(S) THEN n ELSE Cardinality(S)

AdapterSetWrite ==
  \/ \E ks \in ListsOf(Keys) :
       request' = <<"sInter", ks>> /\ reply' = Unordered(Common(ks)) /\ NarrowFirst(ks)
  \/ \E k \in Keys, n \in PopCounts :   \* a count of 0 is taken for 1
       /\ request' = <<"sPop", k, n>>
       /\ \E s \in Arrangements(set[k], AtMost(IF n = 0 THEN 1 ELSE n, set[k])) :
            /\ reply' = Array(s)
            /\ IF s = <<>> THEN UNCHANGED <<text, hash, list, set, zset, husks>>
               ELSE SetSet(k, set[k] \ Elements(s))

AdapterSetAnswer ==
  \/ \E ks \in ListsOf(Keys) :
       \/ request' = <<"sUnion", ks>> /\ reply' = Unordered({m \in Values : \E i \in DOMAIN ks : m \in set[ks[i]]})
       \/ /\ request' = <<"sDiff", ks>>
          /\ reply' = Unordered({m \in set[ks[1]] : \A i \in DOMAIN ks : i > 1 => m \notin set[ks[i]]})
  \/ \E k \in Keys, n \in PopCounts :
       /\ request' = <<"sRandMember", k, n>>
       /\ \E s \in IF n < 0 /\ set[k] # {} THEN [1 .. -n -> set[k]]
                   ELSE Arrangements(set[k], AtMost(n, set[k])) : reply' = Array(s)

(* Scores that are no numbers are stored; of several pairs that are        *)
(* arguments of their own only the first is looked at.                     *)
AdapterZSetWrite ==
  \/ \E k \in Keys, ps \in ListsOf(Values \X Scores) \cup {<<>>}, apart \in BOOLEAN :
       LET heard == IF apart /\ Len(ps) > 1 THEN <<ps[1]>> ELSE ps
       IN  /\ request' = <<"zAdd", k, ps, apart>>
           /\ reply' = Integer(Cardinality(Names(heard) \ DOMAIN zset[k]))
           /\ \E z \in Overlays(zset[k], heard, AnyScore(k) \cup Scores) : SetZSet(k, z, TRUE)
  \/ \E k \in Keys, i \in Indexes, j \in Indexes :
       /\ request' = <<"zRemRangeByRank", k, i, j>>
       /\ \E s \in Listings(zset[k], DOMAIN zset[k]) :
            LET gone == Elements(At(s, Positions(Len(s), i, j)))
            IN  /\ reply' = Integer(Cardinality(gone))
                /\ SetZSet(k, Restricted(zset[k], DOMAIN zset[k] \ gone), TRUE)

AdapterZSetAnswer ==
  \E k \in Keys, m \in Values :
    /\ request' = <<"zRank", k, m>>
    /\ \E s \in Listings(zset[k], DOMAIN zset[k]) :
         \/ m \notin DOMAIN zset[k] /\ reply' = NullReply
         \/ \E p \in DOMAIN s : s[p] = m /\ reply' = Integer(p - 1)
----------------------------------------------------------------------------
(* What the key holds of its first type moves, over what the new key holds *)
(* of that type, whose other types stay; renamed to itself it is lost.     *)
Rename(k, n) ==
  LET t == FirstType(k)
      Moved(m, none) == [m EXCEPT ![n] = m[k], ![k] = none]
  IN  /\ text' = IF t = "string" THEN (text \cup {n}) \ {k} ELSE text
      /\ hash' = IF t = "hash" THEN Moved(hash, <<>>) ELSE hash
      /\ list' = IF t = "list" THEN Moved(list, <<>>) ELSE list
      /\ set' = IF t = "set" THEN Moved(set, {}) ELSE set
      /\ zset' = IF t = "zset" THEN Moved(zset, <<>>) ELSE zset
      /\ husks' = (husks \ {<<t, k>>, <<t, n>>})
                  \cup (IF <<t, k>> \in husks /\ k # n THEN {<<t, n>>} ELSE {})

AdapterKeyspace ==
  \/ \E k \in Keys :
       /\ request' = <<"exists", k>> /\ reply' = Bit(k \in Present)
       /\ UNCHANGED <<text, hash, list, set, zset, husks>>
  \/ \E k \in Keys, n \in Keys :
       /\ request' = <<"rename", k, n>>
       /\ \/ k \in Present /\ reply' = OK /\ Rename(k, n)
          \/ k \notin Present /\ reply' = Error /\ UNCHANGED <<text, hash, list, set, zset, husks>>

Select ==
  \E i \in Dbs :
    /\ request' = <<"select", i>> /\ reply' = OK
    /\ selected' = i
    /\ IF i = selected THEN UNCHANGED <<text, hash, list, set, zset, husks, elsewhere>>
       ELSE /\ Move(elsewhere[i])
            /\ elsewhere' = [elsewhere EXCEPT ![selected] = Here, ![i] = Nothing]
    /\ UNCHANGED stores

FlushAll ==
  /\ request' = <<"flushAll">> /\ reply' = OK
  /\ Forget(Keys) /\ elsewhere' = [i \in Dbs |-> Nothing]
  /\ UNCHANGED <<selected, stores>>

Typed(c) ==
  {"string"} \X c.text \cup c.husks
  \cup {"hash"} \X {k \in Keys : DOMAIN c.hash[k] # {}} \cup {"list"} \X {k \in Keys : c.list[k] # <<>>}
  \cup {"set"} \X {k \in Keys : c.set[k] # {}} \cup {"zset"} \X {k \in Keys : DOMAIN c.zset[k] # {}}
RuntimeInfo ==
  LET all == [elsewhere EXCEPT ![selected] = Here]
  IN  /\ request' = <<"getRuntimeInfo">>
      /\ reply' = Integer(Cardinality(UNION {{i} \X Typed(all[i]) : i \in Dbs}))
      /\ UNCHANGED <<text, hash, list, set, zset, husks, selected, elsewhere, stores>>

(* sInterStore, which only adds to what the destination holds.             *)
InterStore ==
  \E d \in Keys, ks \in ListsOf(Keys) :
    /\ request' = <<"sInterStore", d, ks>>
    /\ stores' = Append(stores, [dest |-> d, members |-> Common(ks)])
    /\ NarrowFirst(ks)
    /\ UNCHANGED <<reply, selected, elsewhere>>

Store ==
  /\ stores # <<>> /\ stores' = Tail(stores)
  /\ LET s == Head(stores)
     IN  /\ request' = <<"stored", s.dest>>
         /\ reply' = Integer(Cardinality(s.members))
         /\ IF s.members = {} THEN UNCHANGED <<text, hash, list, set, zset, husks>>
            ELSE SetSet(s.dest, set[s.dest] \cup s.members)
  /\ UNCHANGED <<selected, elsewhere>>

AdapterInit ==
  Init /\ selected \in Dbs /\ elsewhere = [i \in Dbs |-> Nothing] /\ stores = <<>>
AdapterNext ==
  \/ /\ UNCHANGED <<selected, elsewhere, stores>>
     /\ \/ /\ UNCHANGED <<text, hash, list, set, zset, husks>>
           /\ AdapterSetAnswer \/ AdapterZSetAnswer
        \/ AdapterListWrite \/ AdapterSetWrite \/ AdapterZSetWrite \/ AdapterKeyspace
        \/ Next
  \/ Select \/ FlushAll \/ RuntimeInfo \/ InterStore \/ Store

AdapterSpec == AdapterInit /\ [][AdapterNext]_adapterVars
=============================================================================
