----------------------------- MODULE SortedSets -----------------------------
(***************************************************************************)
(* The sorted set commands of the JavaScript server (commands/zset.js)     *)
(* over Database.zsets.                                                    *)
(*                                                                         *)
(* A score is a number or NaN, which ZADD INCR lets in; its text on the    *)
(* wire is kept as the score.  Scores count units so small that Epsilon,   *)
(* the code's 0.000001, is a whole number of them.                         *)
(***************************************************************************)
EXTENDS Collections

CONSTANTS
  Scores,         \* arguments of ZADD, as parseFloat reads them
  ScoreBound,     \* bound: the largest score ZADD INCR may reach
  Bounds,         \* arguments min and max of ZRANGEBYSCORE and ZCOUNT
  Epsilon,        \* what an exclusive bound is moved by
  Limits,         \* arguments of LIMIT: pairs of offset and count
  Before(_, _)    \* localeCompare(a, b) < 0

(* A bound is '-inf' as min or '+inf' as max, or a number, with or without *)
(* a parenthesis.                                                          *)
ASSUME SortedSetsAssumption ==
  /\ Scores \subseteq Int \cup {NaN} /\ ScoreBound \in Nat /\ Epsilon \in Nat \ {0}
  /\ Nil \notin Int \cup {NaN}
  /\ \A a, b \in Values : Before(a, b) => ~Before(b, a)
  /\ Bounds \subseteq [inf : BOOLEAN, open : BOOLEAN, at : Int \cup {NaN}]
  /\ Limits \subseteq Int \X Int

VARIABLE zsets   \* key -> its members and their scores, or NoEntry

ZSet(k) == IF zsets[k] = NoEntry THEN Empty ELSE zsets[k]
ZSetScore(k, m) == IF m \in DOMAIN ZSet(k) THEN ZSet(k)[m] ELSE Nil

(* zsetAdd stores an entry even when it has no pairs to put in it.         *)
ZSetAdd(k, ps) == zsets' = [zsets EXCEPT ![k] = PutAll(ZSet(k), ps)]

Plus(a, b) == IF NaN \in {a, b} THEN NaN ELSE a + b

(* The pairs are read before any is stored.  NX, XX and CH have no effect  *)
(* here; they alone make a list of no pairs.                               *)
ZAdd(k, ps) ==
  \/ /\ \E i \in DOMAIN ps : ps[i][2] = NaN
     /\ reply' = Error
     /\ UNCHANGED zsets
  \/ /\ \A i \in DOMAIN ps : ps[i][2] # NaN
     /\ ZSetAdd(k, ps)
     /\ reply' = Integer(Added(Names(ps), DOMAIN ZSet(k)))

ZAddIncr(k, m, score, nx, xx) ==
  LET existing == ZSetScore(k, m)
      newScore == IF existing = Nil THEN score ELSE Plus(existing, score)
      refused  == (nx /\ existing # Nil) \/ (xx /\ existing = Nil)
  IN  \/ refused /\ reply' = NullReply /\ UNCHANGED zsets
      \/ /\ ~refused
         /\ newScore \in (-ScoreBound .. ScoreBound) \cup {NaN}
         /\ ZSetAdd(k, <<<<m, newScore>>>>)
         /\ reply' = Bulk(newScore)

ZRem(k, ms) ==
  /\ zsets' = [zsets EXCEPT ![k] = IF DOMAIN ZSet(k) \subseteq Elements(ms)
                                   THEN NoEntry ELSE Without(ZSet(k), ms)]
  /\ reply' = Integer(Removed(ms, DOMAIN ZSet(k)))

ZScore(k, m) == reply' = BulkOrNull(ZSetScore(k, m)) /\ UNCHANGED zsets
ZCard(k) == reply' = Integer(Cardinality(DOMAIN ZSet(k))) /\ UNCHANGED zsets
----------------------------------------------------------------------------
(* What sort may return for the members M: by score, then by name.  A NaN  *)
(* makes the comparisons inconsistent, and any order is possible.          *)
Sorted(M, z) ==
  {s \in SetToSeqs(M) :
     \/ \E m \in M : z[m] = NaN
     \/ \A i, j \in DOMAIN s : i < j =>
          z[s[i]] < z[s[j]] \/ (z[s[i]] = z[s[j]] /\ Before(s[i], s[j]))}

WithScores(s, z, withScores) ==
  Array(IF withScores THEN [i \in DOMAIN s |-> <<s[i], z[s[i]]>>] ELSE s)

ZRange(k, start, stop, withScores) ==
  /\ \E s \in Sorted(DOMAIN ZSet(k), ZSet(k)) :
       reply' = WithScores(Slice(s, start, stop), ZSet(k), withScores)
  /\ UNCHANGED zsets

(* Comparisons with NaN are false.                                         *)
LowerBound(b) == IF b.open THEN Plus(b.at, Epsilon) ELSE b.at
UpperBound(b) == IF b.open THEN Plus(b.at, -Epsilon) ELSE b.at
LessEq(a, b) == NaN \notin {a, b} /\ a <= b

(* zsetRangeByScore: under '-inf' only max is looked at, and a max of      *)
(* '+inf' is then compared as a number, which it is not.                   *)
InRange(score, min, max) ==
  CASE min.inf              -> ~max.inf /\ LessEq(score, UpperBound(max))
    [] ~min.inf /\ max.inf  -> LessEq(LowerBound(min), score)
    [] ~min.inf /\ ~max.inf -> /\ LessEq(LowerBound(min), score)
                               /\ LessEq(score, UpperBound(max))

(* ZCOUNT, where the infinities are numbers.                               *)
Counted(score, min, max) ==
  /\ IF min.inf THEN score # NaN ELSE LessEq(LowerBound(min), score)
  /\ IF max.inf THEN score # NaN ELSE LessEq(score, UpperBound(max))

Limited(s, limit) ==
  LET skipped == IF limit[1] > 0 THEN SubSeq(s, limit[1] + 1, Len(s)) ELSE s
  IN  IF limit[2] > 0 /\ limit[2] < Len(skipped) THEN SubSeq(skipped, 1, limit[2]) ELSE skipped

Between(k, min, max) == {m \in DOMAIN ZSet(k) : InRange(ZSet(k)[m], min, max)}

ZRangeByScore(k, min, max, limit, withScores) ==
  /\ \E s \in Sorted(Between(k, min, max), ZSet(k)) :
       reply' = WithScores(Limited(s, limit), ZSet(k), withScores)
  /\ UNCHANGED zsets

CountBetween(k, min, max) ==
  Cardinality({m \in DOMAIN ZSet(k) : Counted(ZSet(k)[m], min, max)})
ZCount(k, min, max) ==
  /\ reply' = Integer(CountBetween(k, min, max))
  /\ UNCHANGED zsets

ZSetCommand ==
  \/ \E k \in Keys, ps \in ListsOf(Values \X Scores) \cup {<<>>} :
       request' = <<"ZADD", k, ps>> /\ ZAdd(k, ps)
  \/ \E k \in Keys, m \in Values, s \in Scores, nx \in BOOLEAN, xx \in BOOLEAN :
       request' = <<"ZADD_INCR", k, m, s, nx, xx>> /\ ZAddIncr(k, m, s, nx, xx)
  \/ \E k \in Keys, ms \in ListsOf(Values) : request' = <<"ZREM", k, ms>> /\ ZRem(k, ms)
  \/ \E k \in Keys, m \in Values : request' = <<"ZSCORE", k, m>> /\ ZScore(k, m)
  \/ \E k \in Keys : request' = <<"ZCARD", k>> /\ ZCard(k)
  \/ \E k \in Keys, i \in Indexes, j \in Indexes, w \in BOOLEAN :
       request' = <<"ZRANGE", k, i, j, w>> /\ ZRange(k, i, j, w)
  \/ \E k \in Keys, min \in Bounds, max \in Bounds, l \in Limits, w \in BOOLEAN :
       request' = <<"ZRANGEBYSCORE", k, min, max, l, w>> /\ ZRangeByScore(k, min, max, l, w)
  \/ \E k \in Keys, min \in Bounds, max \in Bounds :
       request' = <<"ZCOUNT", k, min, max>> /\ ZCount(k, min, max)
=============================================================================
