------------------------------- MODULE Lists -------------------------------
(* The list commands of the JavaScript server (commands/list.js) over      *)
(* Database.lists.  Popping and removing leave an empty list behind.       *)
EXTENDS Collections

CONSTANTS
  Counts,    \* arguments of LPOP, RPOP and LREM
  MaxLen     \* bound: longest list

ASSUME ListsAssumption ==
  Counts \subseteq Int \cup {NaN} /\ MaxLen \in Nat

VARIABLE lists   \* key -> its list, or NoEntry

List(k) == IF lists[k] = NoEntry THEN Empty ELSE lists[k]
SetList(k, s) == Len(s) <= MaxLen /\ lists' = [lists EXCEPT ![k] = s]

(* LPUSH unshifts its values one by one; RPUSH pushes them all.            *)
LPush(k, vs) ==
  /\ SetList(k, Reverse(vs) \o List(k))
  /\ reply' = Integer(Len(vs) + Len(List(k)))
RPush(k, vs) ==
  /\ SetList(k, List(k) \o vs)
  /\ reply' = Integer(Len(vs) + Len(List(k)))

(* A count of 1 asks for one value, any other for an array: up to count    *)
(* values, and none when count is not a positive number.                   *)
Popped(k, count) ==
  CASE count = NaN                -> 0
    [] count # NaN /\ count <= 0  -> 0
    [] OTHER -> IF count <= Len(List(k)) THEN count ELSE Len(List(k))

Pop(k, count, values, rest) ==
  /\ reply' = IF count = 1 THEN BulkOrNull(IF values = <<>> THEN Nil ELSE values[1])
                           ELSE Array(values)
  /\ IF lists[k] = NoEntry THEN UNCHANGED lists ELSE SetList(k, rest)

LPop(k, count) ==
  LET n == Popped(k, count)
  IN  Pop(k, count, SubSeq(List(k), 1, n), SubSeq(List(k), n + 1, Len(List(k))))
RPop(k, count) ==
  LET n == Popped(k, count)
      backwards == Reverse(List(k))
  IN  Pop(k, count, SubSeq(backwards, 1, n), SubSeq(List(k), 1, Len(List(k)) - n))

LLen(k) == reply' = Integer(Len(List(k))) /\ UNCHANGED lists
LRange(k, start, stop) == reply' = Array(Slice(List(k), start, stop)) /\ UNCHANGED lists
LIndex(k, index) ==
  LET found == Slice(List(k), index, index)
  IN  reply' = BulkOrNull(IF found = <<>> THEN Nil ELSE found[1]) /\ UNCHANGED lists

(* LSET does not count negative indexes from the end.                      *)
LSet(k, index, v) ==
  \/ index \notin 0 .. Len(List(k)) - 1 /\ reply' = Error /\ UNCHANGED lists
  \/ /\ index \in 0 .. Len(List(k)) - 1
     /\ SetList(k, [List(k) EXCEPT ![index + 1] = v])
     /\ reply' = OK

(* The loop of LREM: it walks the list and takes out what equals v, until  *)
(* it has taken limit values; for a negative count it walks backwards.     *)
Turn(walk, x, v, limit) ==
  IF x = v /\ walk.removed < limit THEN [walk EXCEPT !.removed = @ + 1]
                                   ELSE [walk EXCEPT !.kept = Append(@, x)]
Taking(s, v, limit) ==
  LET walk[n \in 0 .. Len(s)] ==
        IF n = 0 THEN [kept |-> <<>>, removed |-> 0] ELSE Turn(walk[n - 1], s[n], v, limit)
  IN  walk[Len(s)]

Backwards(walk) == [walk EXCEPT !.kept = Reverse(@)]
RemoveCount(s, v, count) ==
  CASE count = NaN -> Taking(s, v, 0)
    [] count = 0   -> Taking(s, v, Len(s))
    [] OTHER       -> IF count > 0 THEN Taking(s, v, count)
                                   ELSE Backwards(Taking(Reverse(s), v, -count))

LRem(k, count, v) ==
  LET walk == RemoveCount(List(k), v, count)
  IN  /\ reply' = Integer(walk.removed)
      /\ IF lists[k] = NoEntry THEN UNCHANGED lists ELSE SetList(k, walk.kept)

ListCommand ==
  \/ \E k \in Keys, vs \in ListsOf(Values) :
       \/ request' = <<"LPUSH", k, vs>> /\ LPush(k, vs)
       \/ request' = <<"RPUSH", k, vs>> /\ RPush(k, vs)
  \/ \E k \in Keys, n \in Counts :
       \/ request' = <<"LPOP", k, n>> /\ LPop(k, n)
       \/ request' = <<"RPOP", k, n>> /\ RPop(k, n)
  \/ \E k \in Keys : request' = <<"LLEN", k>> /\ LLen(k)
  \/ \E k \in Keys, i \in Indexes, j \in Indexes :
       request' = <<"LRANGE", k, i, j>> /\ LRange(k, i, j)
  \/ \E k \in Keys, i \in Indexes : request' = <<"LINDEX", k, i>> /\ LIndex(k, i)
  \/ \E k \in Keys, i \in Indexes, v \in Values :
       request' = <<"LSET", k, i, v>> /\ LSet(k, i, v)
  \/ \E k \in Keys, n \in Counts, v \in Values :
       request' = <<"LREM", k, n, v>> /\ LRem(k, n, v)
=============================================================================
