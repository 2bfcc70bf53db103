------------------------------ MODULE Contents ------------------------------
(***************************************************************************)
(* What the hash, list, set, sorted set and keyspace commands promise.     *)
(*                                                                         *)
(* Every key has a hash, a list, a set and a sorted set, empty ones to     *)
(* begin with, and no command but those on the keyspace tells an empty one *)
(* from one that is not there.  For them a key is of a type when it holds  *)
(* something of that type, or a HUSK: an empty list, set or sorted set     *)
(* that the store did not discard.                                         *)
(*                                                                         *)
(* Two answers are left open, because the code does not give the one that  *)
(* its own comments describe.  ZRANGEBYSCORE from '-inf' to '+inf' may     *)
(* list any of the members (database.js, zsetRangeByScore: the code lists  *)
(* none, the comment takes each of the two for no limit), and EXISTS may   *)
(* or may not count a key that holds no string (existsKey: the code does   *)
(* not count it, the comment speaks of keys of any type).                  *)
(***************************************************************************)
EXTENDS Resp, FiniteSets

CONSTANTS Keys, Values, NaN, MaxArgs, Indexes, Counts, Scores, Bounds, Epsilon, Limits,
          Before(_, _)   \* as in the modules that implement this one

VARIABLES text,      \* the keys that hold a string
          hash,      \* key -> a function from its fields to their values
          list,      \* key -> a sequence
          set,       \* key -> a set
          zset,      \* key -> a function from its members to their scores
          husks,     \* the husks, pairs of a type and a key
          request,   \* the last command and its arguments
          reply      \* the answer to it

vars == <<text, hash, list, set, zset, husks, request, reply>>

ListsOf(S) == UNION {[1 .. n -> S] : n \in 1 .. MaxArgs}
Elements(xs) == {xs[i] : i \in DOMAIN xs}
Names(ps) == {ps[i][1] : i \in DOMAIN ps}

(* m with the pairs ps: of two values for a name the later one counts.     *)
Overlays(m, ps, S) ==
  {n \in [DOMAIN m \cup Names(ps) -> S] :
     /\ \A f \in DOMAIN m \ Names(ps) : n[f] = m[f]
     /\ \A i \in DOMAIN ps :
          (\A j \in DOMAIN ps : j > i => ps[j][1] # ps[i][1]) => n[ps[i][1]] = ps[i][2]}

Restricted(m, D) == [x \in D |-> m[x]]
Lookup(m, x) == IF x \in DOMAIN m THEN m[x] ELSE Nil
Bit(b) == Integer(IF b THEN 1 ELSE 0)

(* The elements of s at the positions P, in order.                         *)
At(s, P) ==
  [n \in 1 .. Cardinality(P) |-> s[CHOOSE p \in P : Cardinality({q \in P : q <= p}) = n]]

(* The positions from index start to index stop, both included; negative   *)
(* indexes count from the end.                                             *)
FromEnd(i, len) == IF i < 0 THEN len + i ELSE i
Positions(len, start, stop) ==
  {p \in 1 .. len : FromEnd(start, len) <= p - 1 /\ p - 1 <= FromEnd(stop, len)}
----------------------------------------------------------------------------
(* Hashes *)

SetHash(k, h) == hash' = [hash EXCEPT ![k] = h] /\ UNCHANGED <<text, list, set, zset, husks>>

HashWrite ==
  \/ \E k \in Keys, ps \in ListsOf(Values \X Values) :
       /\ request' \in {<<"HSET", k, ps>>, <<"HMSET", k, ps>>}
       /\ reply' = IF request'[1] = "HMSET" THEN OK
                   ELSE Integer(Cardinality(Names(ps) \ DOMAIN hash[k]))
       /\ \E h \in Overlays(hash[k], ps, Values) : SetHash(k, h)
  \/ \E k \in Keys, f \in Values, v \in Values :
       /\ request' = <<"HSETNX", k, f, v>>
       /\ reply' = Bit(f \notin DOMAIN hash[k])
       /\ \E h \in Overlays(hash[k], <<<<f, v>>>>, Values) :
            SetHash(k, IF f \in DOMAIN hash[k] THEN hash[k] ELSE h)
  \/ \E k \in Keys, fs \in ListsOf(Values) :
       /\ request' = <<"HDEL", k, fs>>
       /\ reply' = Integer(Cardinality(DOMAIN hash[k] \cap Elements(fs)))
       /\ SetHash(k, Restricted(hash[k], DOMAIN hash[k] \ Elements(fs)))

HashAnswer(k) ==
  \/ \E f \in Values :
       \/ request' = <<"HGET", k, f>> /\ reply' = BulkOrNull(Lookup(hash[k], f))
       \/ request' = <<"HEXISTS", k, f>> /\ reply' = Bit(f \in DOMAIN hash[k])
  \/ \E fs \in ListsOf(Values) :
       /\ request' = <<"HMGET", k, fs>>
       /\ reply' = Array([i \in DOMAIN fs |-> Lookup(hash[k], fs[i])])
  \/ request' = <<"HLEN", k>> /\ reply' = Integer(Cardinality(DOMAIN hash[k]))
  \/ request' = <<"HKEYS", k>> /\ reply' = Unordered(DOMAIN hash[k])
  \/ /\ request' = <<"HGETALL", k>>
     /\ reply' = Unordered({<<f, hash[k][f]>> : f \in DOMAIN hash[k]})
  \/ /\ request' = <<"HVALS", k>>
     /\ reply' = Unordered({<<hash[k][f], Cardinality({g \in DOMAIN hash[k] : hash[k][g] = hash[k][f]})>>
                              : f \in DOMAIN hash[k]})
----------------------------------------------------------------------------
(* Lists *)

(* A list that is empty after a command may leave a husk, unless it was    *)
(* not there before.                                                       *)
SetList(k, s) ==
  /\ list' = [list EXCEPT ![k] = s]
  /\ \/ husks' = husks \ {<<"list", k>>}
     \/ /\ s = <<>>
        /\ list[k] # <<>> \/ <<"list", k>> \in husks
        /\ husks' = husks \cup {<<"list", k>>}
  /\ UNCHANGED <<text, hash, set, zset>>

(* The positions LREM takes: as many as it is asked for, the first ones or *)
(* the last ones of those that hold v.                                     *)
Holding(s, v) == {p \in DOMAIN s : s[p] = v}
Taken(s, v, count) ==
  CHOOSE T \in SUBSET Holding(s, v) :
    /\ count = NaN => T = {}
    /\ count = 0 => T = Holding(s, v)
    /\ count # NaN /\ count # 0 =>
         LET most == IF count > 0 THEN count ELSE -count
         IN  /\ Cardinality(T) <= most
             /\ Cardinality(T) = most \/ T = Holding(s, v)
             /\ \A p \in T, q \in Holding(s, v) \ T : IF count > 0 THEN p < q ELSE q < p

(* The positions LPOP and RPOP take, at most n at one end.                 *)
Popped(s, n, front) ==
  IF n = NaN THEN {} ELSE {p \in DOMAIN s : IF front THEN p <= n ELSE p > Len(s) - n}
Backwards(s) == [p \in DOMAIN s |-> s[Len(s) + 1 - p]]

ListWrite ==
  \/ \E k \in Keys, vs \in ListsOf(Values) :
       /\ \/ request' = <<"LPUSH", k, vs>> /\ SetList(k, Backwards(vs) \o list[k])
          \/ request' = <<"RPUSH", k, vs>> /\ SetList(k, list[k] \o vs)
       /\ reply' = Integer(Len(list[k]) + Len(vs))
  \/ \E k \in Keys, n \in Counts, front \in BOOLEAN :
       LET taken  == Popped(list[k], n, front)
           values == IF front THEN At(list[k], taken) ELSE Backwards(At(list[k], taken))
       IN  /\ request' = <<IF front THEN "LPOP" ELSE "RPOP", k, n>>
           /\ reply' = IF n = 1 THEN BulkOrNull(Lookup(values, 1)) ELSE Array(values)
           /\ SetList(k, At(list[k], DOMAIN list[k] \ taken))
  \/ \E k \in Keys, i \in Indexes, v \in Values :
       /\ request' = <<"LSET", k, i, v>>
       /\ reply' = IF i + 1 \in DOMAIN list[k] THEN OK ELSE Error
       /\ SetList(k, [p \in DOMAIN list[k] |-> IF p = i + 1 THEN v ELSE list[k][p]])
  \/ \E k \in Keys, n \in Counts, v \in Values :
       /\ request' = <<"LREM", k, n, v>>
       /\ reply' = Integer(Cardinality(Taken(list[k], v, n)))
       /\ SetList(k, At(list[k], DOMAIN list[k] \ Taken(list[k], v, n)))

ListAnswer(k) ==
  \/ request' = <<"LLEN", k>> /\ reply' = Integer(Len(list[k]))
  \/ \E i \in Indexes, j \in Indexes :
       /\ request' = <<"LRANGE", k, i, j>>
       /\ reply' = Array(At(list[k], Positions(Len(list[k]), i, j)))
  \/ \E i \in Indexes :
       /\ request' = <<"LINDEX", k, i>>
       /\ reply' = BulkOrNull(Lookup(list[k], FromEnd(i, Len(list[k])) + 1))
----------------------------------------------------------------------------
(* Sets *)

SetSet(k, S) ==
  /\ set' = [set EXCEPT ![k] = S]
  /\ husks' = husks \ {<<"set", k>>}
  /\ UNCHANGED <<text, hash, list, zset>>

SetWrite ==
  \/ \E k \in Keys, ms \in ListsOf(Values) :
       \/ /\ request' = <<"SADD", k, ms>>
          /\ reply' = Integer(Cardinality(Elements(ms) \ set[k]))
          /\ SetSet(k, set[k] \cup Elements(ms))
       \/ /\ request' = <<"SREM", k, ms>>
          /\ reply' = Integer(Cardinality(Elements(ms) \cap set[k]))
          /\ SetSet(k, set[k] \ Elements(ms))
  \/ \E k \in Keys : \E m \in set[k] :
       request' = <<"SPOP", k>> /\ reply' = Bulk(m) /\ SetSet(k, set[k] \ {m})

SetAnswer(k) ==
  \/ set[k] = {} /\ request' \in {<<"SPOP", k>>, <<"SRANDMEMBER", k>>} /\ reply' = NullReply
  \/ \E m \in set[k] : request' = <<"SRANDMEMBER", k>> /\ reply' = Bulk(m)
  \/ \E m \in Values : request' = <<"SISMEMBER", k, m>> /\ reply' = Bit(m \in set[k])
  \/ request' = <<"SMEMBERS", k>> /\ reply' = Unordered(set[k])
  \/ request' = <<"SCARD", k>> /\ reply' = Integer(Cardinality(set[k]))
----------------------------------------------------------------------------
(* Sorted sets *)

AnyScore(k) == {zset[k][m] : m \in DOMAIN zset[k]}

(* ZADD with flags and nothing else may leave a husk.                      *)
SetZSet(k, z, mayHusk) ==
  /\ zset' = [zset EXCEPT ![k] = z]
  /\ \/ husks' = husks \ {<<"zset", k>>}
     \/ /\ DOMAIN z = {}
        /\ mayHusk \/ <<"zset", k>> \in husks
        /\ husks' = husks \cup {<<"zset", k>>}
  /\ UNCHANGED <<text, hash, list, set>>

ZSetWrite ==
  \/ \E k \in Keys, ps \in ListsOf(Values \X Scores) \cup {<<>>} :
       /\ request' = <<"ZADD", k, ps>>
       /\ IF \E i \in DOMAIN ps : ps[i][2] = NaN
          THEN reply' = Error /\ SetZSet(k, zset[k], FALSE)
          ELSE /\ reply' = Integer(Cardinality(Names(ps) \ DOMAIN zset[k]))
               /\ \E z \in Overlays(zset[k], ps, AnyScore(k) \cup Scores) : SetZSet(k, z, TRUE)
  \/ \E k \in Keys, m \in Values, s \in Scores, nx \in BOOLEAN, xx \in BOOLEAN :
       /\ request' = <<"ZADD_INCR", k, m, s, nx, xx>>
       /\ IF IF m \in DOMAIN zset[k] THEN nx ELSE xx
          THEN reply' = NullReply /\ SetZSet(k, zset[k], FALSE)
          ELSE LET old == IF m \in DOMAIN zset[k] THEN zset[k][m] ELSE 0
                   new == IF NaN \in {old, s} THEN NaN ELSE old + s
               IN  /\ reply' = Bulk(new)
                   /\ \E z \in Overlays(zset[k], <<<<m, new>>>>, AnyScore(k) \cup {new}) :
                        SetZSet(k, z, FALSE)
  \/ \E k \in Keys, ms \in ListsOf(Values) :
       /\ request' = <<"ZREM", k, ms>>
       /\ reply' = Integer(Cardinality(DOMAIN zset[k] \cap Elements(ms)))
       /\ SetZSet(k, Restricted(zset[k], DOMAIN zset[k] \ Elements(ms)), FALSE)

(* A member's rank: the number of members that come before it.             *)
Rank(z, D, m) ==
  Cardinality({x \in D : z[x] < z[m] \/ (z[x] = z[m] /\ Before(x, m))})
InOrder(z, D) ==
  [p \in 1 .. Cardinality(D) |-> CHOOSE m \in D : Rank(z, D, m) = p - 1]

(* The order is unspecified once a score is not a number.                  *)
Listings(z, D) ==
  IF \E m \in D : z[m] = NaN
  THEN {s \in [1 .. Cardinality(D) -> D] : Elements(s) = D}
  ELSE {InOrder(z, D)}
Shown(s, z, withScores) ==
  Array(IF withScores THEN [p \in DOMAIN s |-> <<s[p], z[s[p]]>>] ELSE s)

(* A bound excludes what is closer to it than Epsilon when it is open.     *)
Above(s, b) == s # NaN /\ (b.inf \/ (b.at # NaN /\ s >= b.at + (IF b.open THEN Epsilon ELSE 0)))
Below(s, b) == s # NaN /\ (b.inf \/ (b.at # NaN /\ s <= b.at - (IF b.open THEN Epsilon ELSE 0)))
Within(z, min, max) == {m \in DOMAIN z : Above(z[m], min) /\ Below(z[m], max)}

(* A page of a listing: what comes after offset, count of it if positive.  *)
Page(s, offset, count) ==
  LET skip == IF offset > 0 THEN offset ELSE 0
  IN  At(s, {p \in DOMAIN s : p > skip /\ (count > 0 => p <= skip + count)})

ZSetAnswer(k) ==
  \/ \E m \in Values :
       request' = <<"ZSCORE", k, m>> /\ reply' = BulkOrNull(Lookup(zset[k], m))
  \/ request' = <<"ZCARD", k>> /\ reply' = Integer(Cardinality(DOMAIN zset[k]))
  \/ \E i \in Indexes, j \in Indexes, w \in BOOLEAN :
       /\ request' = <<"ZRANGE", k, i, j, w>>
       /\ \E s \in Listings(zset[k], DOMAIN zset[k]) :
            reply' = Shown(At(s, Positions(Len(s), i, j)), zset[k], w)
  \/ \E min \in Bounds, max \in Bounds :
       /\ request' = <<"ZCOUNT", k, min, max>>
       /\ reply' = Integer(Cardinality(Within(zset[k], min, max)))
  \/ \E min \in Bounds, max \in Bounds, l \in Limits, w \in BOOLEAN :
       \E D \in IF min.inf /\ max.inf THEN SUBSET Within(zset[k], min, max)
                                   ELSE {Within(zset[k], min, max)} :
         /\ request' = <<"ZRANGEBYSCORE", k, min, max, l, w>>
         /\ reply' = Shown(Page(InOrder(zset[k], D), l[1], l[2]), zset[k], w)
----------------------------------------------------------------------------
(* The keyspace *)

Types(k) ==
       (IF k \in text THEN {"string"} ELSE {})
  \cup (IF DOMAIN hash[k] # {} THEN {"hash"} ELSE {})
  \cup (IF list[k] # <<>> \/ <<"list", k>> \in husks THEN {"list"} ELSE {})
  \cup (IF set[k] # {} \/ <<"set", k>> \in husks THEN {"set"} ELSE {})
  \cup (IF DOMAIN zset[k] # {} \/ <<"zset", k>> \in husks THEN {"zset"} ELSE {})
Present == {k \in Keys : Types(k) # {}}

Forget(K) ==
  /\ text' = text \ K
  /\ hash' = [k \in Keys |-> IF k \in K THEN <<>> ELSE hash[k]]
  /\ list' = [k \in Keys |-> IF k \in K THEN <<>> ELSE list[k]]
  /\ set' = [k \in Keys |-> IF k \in K THEN {} ELSE set[k]]
  /\ zset' = [k \in Keys |-> IF k \in K THEN <<>> ELSE zset[k]]
  /\ husks' = {h \in husks : h[2] \notin K}

KeyspaceWrite ==
  \/ \E k \in Keys :
       /\ request' = <<"SET", k>> /\ reply' = OK
       /\ text' = text \cup {k} /\ UNCHANGED <<hash, list, set, zset, husks>>
  \/ \E ks \in ListsOf(Keys) :
       /\ request' = <<"DEL", ks>>
       /\ reply' = Integer(Cardinality(Elements(ks) \cap Present))
       /\ Forget(Elements(ks))
  \/ request' = <<"FLUSHDB">> /\ reply' = OK /\ Forget(Keys)

(* A key of several types answers TYPE with the first of them.             *)
TypeOrder == <<"string", "hash", "list", "set", "zset">>
FirstType(k) ==
  IF Types(k) = {} THEN "none"
  ELSE TypeOrder[CHOOSE i \in DOMAIN TypeOrder :
                   /\ TypeOrder[i] \in Types(k)
                   /\ \A j \in 1 .. i - 1 : TypeOrder[j] \notin Types(k)]

KeyspaceAnswer ==
  \/ \E k \in Keys : request' = <<"TYPE", k>> /\ reply' = Simple(FirstType(k))
  \/ \E P \in SUBSET Keys : request' = <<"KEYS", P>> /\ reply' = Unordered(Present \cap P)
  \/ \E ks \in ListsOf(Keys), others \in SUBSET (Present \ text) :
       /\ request' = <<"EXISTS", ks>>
       /\ reply' = Integer(Cardinality({i \in DOMAIN ks : ks[i] \in text \cup others}))
  \/ /\ request' = <<"DBSIZE">>   \* a key counts once for each of its types
     /\ reply' = Integer(Cardinality({tk \in {TypeOrder[i] : i \in 1 .. 5} \X Keys : tk[1] \in Types(tk[2])}))
  \/ /\ request' = <<"RANDOMKEY">>
     /\ IF Present = {} THEN reply' = NullReply ELSE \E k \in Present : reply' = Bulk(k)
----------------------------------------------------------------------------
Init ==
  /\ text = {} /\ husks = {}
  /\ hash = [k \in Keys |-> <<>>]
  /\ list = [k \in Keys |-> <<>>]
  /\ set = [k \in Keys |-> {}]
  /\ zset = [k \in Keys |-> <<>>]
  /\ request = <<"NONE">>
  /\ reply = NullReply

Write == HashWrite \/ ListWrite \/ SetWrite \/ ZSetWrite \/ KeyspaceWrite
Answer ==
  /\ UNCHANGED <<text, hash, list, set, zset, husks>>
  /\ \/ \E k \in Keys : HashAnswer(k) \/ ListAnswer(k) \/ SetAnswer(k) \/ ZSetAnswer(k)
     \/ KeyspaceAnswer

Next == Answer \/ Write

Spec == Init /\ [][Next]_vars
=============================================================================
