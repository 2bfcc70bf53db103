------------------------------- MODULE Adapter -------------------------------
(***************************************************************************)
(* LinRedisAdapter (src/js/src/adapter.js): the methods on collections and *)
(* keys, and on the adapter's databases.  A method runs to its end when it *)
(* is called; its promise only delivers the answer.  sInterStore alone     *)
(* awaits: it intersects when it is called, and stores in a continuation   *)
(* that Node runs, in the order of the calls, after the caller's code,     *)
(* which may have called any methods in the meantime.                      *)
(*                                                                         *)
(* The variables of Keyspace are the maps of the Database that _db()       *)
(* answers; those of the others are on the shelf.  Methods that do what a  *)
(* command of the server does are that command's action.                   *)
(***************************************************************************)
EXTENDS Keyspace

CONSTANTS
  Dbs,            \* the databases in use
  PopCounts,      \* counts given to sPop and sRandMember
  MaxStores       \* bound: calls of sInterStore under way

ASSUME AdapterAssumption ==
  /\ PopCounts \subseteq Int /\ MaxStores \in Nat /\ IsFiniteSet(Dbs)
  /\ 1 \in Counts /\ <<0, 0>> \in Limits   \* lPop, rPop and zRangeByScore ask for these

VARIABLES
  dbIndex,        \* _dbIndex
  shelf,          \* the databases that are not selected
  continuations   \* what calls of sInterStore have left to do

others == <<dbIndex, shelf, continuations>>
adapterVars == <<vars, others>>

Current == [strings |-> strings, hashes |-> hashes, lists |-> lists, sets |-> sets, zsets |-> zsets]
NoMap == [k \in Keys |-> NoEntry]
NewDb == [strings |-> {}, hashes |-> NoMap, lists |-> NoMap, sets |-> NoMap, zsets |-> NoMap]
Entries(map) == {k \in Keys : map[k] # NoEntry}
Size(db) == Cardinality(db.strings) + Cardinality(Entries(db.hashes)) + Cardinality(Entries(db.lists))
            + Cardinality(Entries(db.sets)) + Cardinality(Entries(db.zsets))
Databases == [shelf EXCEPT ![dbIndex] = Current]
TotalKeys == Cardinality(UNION {{i} \X (1 .. Size(Databases[i])) : i \in Dbs})   \* a sum
----------------------------------------------------------------------------
(* Lists *)

LTrim(k, start, stop) ==
  /\ reply' = OK
  /\ IF lists[k] = NoEntry THEN UNCHANGED lists ELSE SetList(k, Slice(List(k), start, stop))

LInsert(k, before, pivot, v) ==
  \/ lists[k] = NoEntry /\ reply' = Integer(0) /\ UNCHANGED lists
  \/ /\ lists[k] # NoEntry /\ pivot \notin Elements(List(k))
     /\ reply' = Integer(-1)
     /\ UNCHANGED lists
  \/ /\ pivot \in Elements(List(k))
     /\ LET idx == SelectInSeq(List(k), LAMBDA x : x = pivot)   \* indexOf
        IN  SetList(k, InsertAt(List(k), IF before THEN idx ELSE idx + 1, v))
     /\ reply' = Integer(Len(List(k)) + 1)

AdapterListMethod ==
  \/ \E k \in Keys, vs \in ListsOf(Values) :
       \/ request' = <<"LPUSH", k, vs>> /\ LPush(k, vs)
       \/ request' = <<"RPUSH", k, vs>> /\ RPush(k, vs)
  \/ \E k \in Keys :
       \/ request' = <<"LPOP", k, 1>> /\ LPop(k, 1)
       \/ request' = <<"RPOP", k, 1>> /\ RPop(k, 1)
       \/ request' = <<"LLEN", k>> /\ LLen(k)
  \/ \E k \in Keys, i \in Indexes, j \in Indexes :
       \/ request' = <<"LRANGE", k, i, j>> /\ LRange(k, i, j)
       \/ request' = <<"lTrim", k, i, j>> /\ LTrim(k, i, j)
  \/ \E k \in Keys, i \in Indexes :
       \/ request' = <<"LINDEX", k, i>> /\ LIndex(k, i)
       \/ \E v \in Values : request' = <<"LSET", k, i, v>> /\ LSet(k, i, v)
  \/ \E k \in Keys, n \in Counts, v \in Values :
       request' = <<"LREM", k, n, v>> /\ LRem(k, n, v)
  \/ \E k \in Keys, before \in BOOLEAN, pivot \in Values, v \in Values :
       request' = <<"lInsert", k, before, pivot, v>> /\ LInsert(k, before, pivot, v)
----------------------------------------------------------------------------
(* Hashes and sets *)

AdapterHashMethod ==
  \/ \E k \in Keys, f \in Values, v \in Values :
       request' = <<"HSET", k, <<<<f, v>>>>>> /\ HSet(k, <<<<f, v>>>>)
  \/ \E k \in Keys, f \in Values :
       \/ request' = <<"HDEL", k, <<f>>>> /\ HDel(k, <<f>>)
       \/ request' = <<"HGET", k, f>> /\ HGet(k, f)
       \/ request' = <<"HEXISTS", k, f>> /\ HExists(k, f)
  \/ \E k \in Keys :
       \/ request' = <<"HLEN", k>> /\ HLen(k)
       \/ request' = <<"HKEYS", k>> /\ HKeys(k)
       \/ request' = <<"HGETALL", k>> /\ HGetAll(k)
       \/ request' = <<"HVALS", k>> /\ HVals(k)

(* sInter deletes, from the Set it reads the first key's members from,     *)
(* what the others do not have; setAdd and setRemove are not asked, and a  *)
(* set that is emptied stays.                                              *)
Intersection(ks) == {m \in Members(ks[1]) : \A i \in DOMAIN ks : m \in Members(ks[i])}
SInterSets(ks) ==
  sets' = IF sets[ks[1]] = NoEntry THEN sets ELSE [sets EXCEPT ![ks[1]] = Intersection(ks)]

SInter(ks) == SInterSets(ks) /\ reply' = Unordered(Intersection(ks))
SUnion(ks) == reply' = Unordered(UNION {Members(ks[i]) : i \in DOMAIN ks}) /\ UNCHANGED sets
SDiff(ks) ==
  /\ reply' = Unordered(Members(ks[1]) \ UNION {Members(ks[i]) : i \in DOMAIN ks \ {1}})
  /\ UNCHANGED sets

(* The loop draws count members, without putting any back if distinct.     *)
Draws(S, count, distinct) ==
  LET most == IF S = {} THEN 0
              ELSE IF distinct /\ Cardinality(S) < count THEN Cardinality(S) ELSE count
  IN  {s \in [1 .. most -> S] : distinct => IsInjective(s)}

SRandMemberCount(k, count) ==
  /\ \E s \in Draws(Members(k), IF count < 0 THEN -count ELSE count, count > 0) : reply' = Array(s)
  /\ UNCHANGED sets

SPopCount(k, count) ==   \* count || 1
  \/ Members(k) = {} /\ reply' = Array(<<>>) /\ UNCHANGED sets
  \/ /\ Members(k) # {}
     /\ \E s \in Draws(Members(k), IF count = 0 THEN 1 ELSE count, TRUE) :
          SetRemove(k, s) /\ reply' = Array(s)

AdapterSetMethod ==
  \/ \E k \in Keys, ms \in ListsOf(Values) :
       \/ request' = <<"SADD", k, ms>> /\ SAdd(k, ms)
       \/ request' = <<"SREM", k, ms>> /\ SRem(k, ms)
  \/ \E k \in Keys, m \in Values : request' = <<"SISMEMBER", k, m>> /\ SIsMember(k, m)
  \/ \E k \in Keys :
       \/ request' = <<"SPOP", k>> /\ SPop(k)
       \/ request' = <<"SRANDMEMBER", k>> /\ SRandMember(k)
       \/ request' = <<"SMEMBERS", k>> /\ SMembers(k)
       \/ request' = <<"SCARD", k>> /\ SCard(k)
  \/ \E k \in Keys, n \in PopCounts :
       \/ request' = <<"sPop", k, n>> /\ SPopCount(k, n)
       \/ request' = <<"sRandMember", k, n>> /\ SRandMemberCount(k, n)
  \/ \E ks \in ListsOf(Keys) :
       \/ request' = <<"sInter", ks>> /\ SInter(ks)
       \/ request' = <<"sUnion", ks>> /\ SUnion(ks)
       \/ request' = <<"sDiff", ks>> /\ SDiff(ks)
----------------------------------------------------------------------------
(* Sorted sets *)

(* zAdd takes any numbers.  Given two or more objects (or scores and       *)
(* members) one after the other it stores the first and drops the others.  *)
ZAddPairs(k, ps, apart) ==
  LET scoreMembers == IF apart /\ Len(ps) >= 2 THEN <<ps[1]>> ELSE ps
  IN  /\ ZSetAdd(k, scoreMembers)
      /\ reply' = Integer(Added(Names(scoreMembers), DOMAIN ZSet(k)))

ZRank(k, m) ==
  /\ \E s \in Sorted(DOMAIN ZSet(k), ZSet(k)) :
       reply' = IF m \in Elements(s) THEN Integer(SelectInSeq(s, LAMBDA x : x = m) - 1) ELSE NullReply
  /\ UNCHANGED zsets

(* The entry is kept when its last member goes.                            *)
ZRemRangeByRank(k, start, stop) ==
  \E s \in Sorted(DOMAIN ZSet(k), ZSet(k)) :
    LET range == Slice(s, start, stop)
    IN  /\ reply' = Integer(Len(range))
        /\ zsets' = IF range = <<>> THEN zsets ELSE [zsets EXCEPT ![k] = Without(ZSet(k), range)]

AdapterZSetMethod ==
  \/ \E k \in Keys, ps \in ListsOf(Values \X Scores) \cup {<<>>}, apart \in BOOLEAN :
       request' = <<"zAdd", k, ps, apart>> /\ ZAddPairs(k, ps, apart)
  \/ \E k \in Keys, m \in Values, s \in Scores :
       request' = <<"ZADD_INCR", k, m, s, FALSE, FALSE>> /\ ZAddIncr(k, m, s, FALSE, FALSE)
  \/ \E k \in Keys, ms \in ListsOf(Values) : request' = <<"ZREM", k, ms>> /\ ZRem(k, ms)
  \/ \E k \in Keys, m \in Values :
       \/ request' = <<"ZSCORE", k, m>> /\ ZScore(k, m)
       \/ request' = <<"zRank", k, m>> /\ ZRank(k, m)
  \/ \E k \in Keys : request' = <<"ZCARD", k>> /\ ZCard(k)
  \/ \E k \in Keys, i \in Indexes, j \in Indexes :
       \/ \E w \in BOOLEAN : request' = <<"ZRANGE", k, i, j, w>> /\ ZRange(k, i, j, w)
       \/ request' = <<"zRemRangeByRank", k, i, j>> /\ ZRemRangeByRank(k, i, j)
  \/ \E k \in Keys, min \in Bounds, max \in Bounds, w \in BOOLEAN :
       /\ request' = <<"ZRANGEBYSCORE", k, min, max, <<0, 0>>, w>>
       /\ ZRangeByScore(k, min, max, <<0, 0>>, w)
----------------------------------------------------------------------------
(* Keys and databases *)

ExistsAny(k) == reply' = Integer(IF k \in AllKeys THEN 1 ELSE 0) /\ UNCHANGED stores

(* rename moves the entry of the first map that has the key, and deletes   *)
(* the old key last, also where it is the new one.                         *)
Moved_Copied(map, k, n) == [map EXCEPT ![n] = map[k]]
Moved(map, k, n) == [map EXCEPT ![n] = map[k], ![k] = NoEntry]
Rename(k, n) ==
  \/ KeyType(k) = "none" /\ reply' = Error /\ UNCHANGED stores
  \/ /\ KeyType(k) # "none" /\ reply' = OK
     /\ strings' = IF KeyType(k) = "string" THEN (strings \cup {n}) \ {k} ELSE strings
     /\ hashes' = IF KeyType(k) = "hash" THEN Moved(hashes, k, n) ELSE hashes
     /\ lists' = IF KeyType(k) = "list" THEN Moved(lists, k, n) ELSE lists
     /\ sets' = IF KeyType(k) = "set" THEN Moved(sets, k, n) ELSE sets
     /\ zsets' = IF KeyType(k) = "zset" THEN Moved(zsets, k, n) ELSE zsets

AdapterKeyMethod ==
  \/ \E k \in Keys :
       \/ request' = <<"SET", k>> /\ SetString(k)
       \/ request' = <<"TYPE", k>> /\ Type(k)
       \/ request' = <<"exists", k>> /\ ExistsAny(k)
       \/ \E n \in Keys : request' = <<"rename", k, n>> /\ Rename(k, n)
  \/ \E ks \in ListsOf(Keys) : request' = <<"DEL", ks>> /\ Del(ks)
  \/ \E P \in SUBSET Keys : request' = <<"KEYS", P>> /\ KeysByPattern(P)
  \/ request' = <<"FLUSHDB">> /\ FlushDb
  \/ request' = <<"DBSIZE">> /\ DbSize
  \/ request' = <<"RANDOMKEY">> /\ RandomKey

Select(index) ==
  LET db == Databases[index]
  IN  /\ dbIndex' = index
      /\ strings' = db.strings /\ hashes' = db.hashes /\ lists' = db.lists
      /\ sets' = db.sets /\ zsets' = db.zsets
      /\ shelf' = [Databases EXCEPT ![index] = NewDb]
      /\ request' = <<"select", index>> /\ reply' = OK
      /\ UNCHANGED continuations

FlushAll ==
  /\ DeleteKeys(Keys) /\ shelf' = [i \in Dbs |-> NewDb]
  /\ request' = <<"flushAll">> /\ reply' = OK
  /\ UNCHANGED <<dbIndex, continuations>>

(* getRuntimeInfo, of which only the total is kept.                        *)
GetRuntimeInfo ==
  /\ reply' = Integer(TotalKeys)
  /\ request' = <<"getRuntimeInfo">>
  /\ UNCHANGED <<stores, others>>
----------------------------------------------------------------------------
(* sInterStore, up to its await and after it *)

SInterStore(destKey, ks) ==
  /\ Len(continuations) < MaxStores
  /\ continuations' = Append(continuations, [dest |-> destKey, members |-> Intersection(ks)])
  /\ SInterSets(ks)
  /\ request' = <<"sInterStore", destKey, ks>>
  /\ UNCHANGED <<strings, hashes, lists, zsets, dbIndex, shelf, reply>>

SInterStoreResumed ==
  /\ continuations # <<>> /\ continuations' = Tail(continuations)
  /\ LET call == Head(continuations)
     IN  /\ sets' = IF call.members = {} THEN sets
                    ELSE [sets EXCEPT ![call.dest] = Members(call.dest) \cup call.members]
         /\ request' = <<"stored", call.dest>>
         /\ reply' = Integer(Cardinality(call.members))
  /\ UNCHANGED <<strings, hashes, lists, zsets, dbIndex, shelf>>
----------------------------------------------------------------------------
AdapterInit ==
  /\ Init
  /\ dbIndex \in Dbs   \* options.database
  /\ shelf = [i \in Dbs |-> NewDb] /\ continuations = <<>>

AdapterNext ==
  /\ \/ /\ \/ AdapterHashMethod /\ UNCHANGED <<strings, lists, sets, zsets>>
           \/ AdapterListMethod /\ UNCHANGED <<strings, hashes, sets, zsets>>
           \/ AdapterSetMethod  /\ UNCHANGED <<strings, hashes, lists, zsets>>
           \/ AdapterZSetMethod /\ UNCHANGED <<strings, hashes, lists, sets>>
           \/ AdapterKeyMethod
        /\ UNCHANGED others
     \/ \E i \in Dbs : Select(i)
     \/ FlushAll \/ GetRuntimeInfo
     \/ \E d \in Keys, ks \in ListsOf(Keys) : SInterStore(d, ks)
     \/ SInterStoreResumed
  /\ TotalKeys' + Len(continuations') <= MaxEntries

AdapterSpec == AdapterInit /\ [][AdapterNext]_adapterVars
----------------------------------------------------------------------------
(* Every method answers, and changes the databases, as the commands of the *)
(* server promise where it does what one of them does, and for the rest as *)
(* AdapterContents says: whatever was renamed, trimmed, intersected or     *)
(* selected before it, and whatever ran while sInterStore waited.          *)
Contained(db) ==
  [text |-> db.strings, hash |-> Seen(db.hashes, Empty), list |-> Seen(db.lists, Empty),
   set |-> Seen(db.sets, {}), zset |-> Seen(db.zsets, Empty),
   husks |-> HusksOf(db.lists, db.sets, db.zsets)]
AdapterPromise == INSTANCE AdapterContents
                    WITH text <- strings, husks <- HusksOf(lists, sets, zsets),
                         hash <- Seen(hashes, Empty), list <- Seen(lists, Empty),
                         set <- Seen(sets, {}), zset <- Seen(zsets, Empty),
                         selected <- dbIndex, stores <- continuations,
                         elsewhere <- [i \in Dbs |-> Contained(shelf[i])]
AdapterKeepsContents == AdapterPromise!AdapterSpec
=============================================================================
