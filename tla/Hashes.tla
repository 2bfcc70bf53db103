------------------------------- MODULE Hashes -------------------------------
(* The hash commands of the JavaScript server (commands/hash.js) over      *)
(* Database.hashes.                                                        *)
EXTENDS Collections

VARIABLE hashes   \* key -> its fields and their values, or NoEntry

Hash(k) == IF hashes[k] = NoEntry THEN Empty ELSE hashes[k]
HashField(k, f) == IF f \in DOMAIN Hash(k) THEN Hash(k)[f] ELSE Nil

SetHashFields(k, ps) == hashes' = [hashes EXCEPT ![k] = PutAll(Hash(k), ps)]

(* delHashField deletes a hash whose last field goes.  (Op_Fault: a faulty *)
(* variant of Op, substituted for it to see that the properties notice.)   *)
DelHashFields_Blank(k, fs) ==
  hashes' = [hashes EXCEPT ![k] =
               [f \in DOMAIN Hash(k) |-> IF f \in Elements(fs) THEN Nil ELSE Hash(k)[f]]]
DelHashFields_KeepEmpty(k, fs) == hashes' = [hashes EXCEPT ![k] = Without(Hash(k), fs)]
DelHashFields(k, fs) ==
  hashes' = [hashes EXCEPT ![k] =
               IF DOMAIN Hash(k) \subseteq Elements(fs) THEN NoEntry ELSE Without(Hash(k), fs)]
----------------------------------------------------------------------------
HSet(k, ps) ==
  /\ SetHashFields(k, ps)
  /\ reply' = Integer(Added(Names(ps), DOMAIN Hash(k)))

HMSet(k, ps) ==
  /\ SetHashFields(k, ps)
  /\ reply' = OK

HSetNx(k, f, v) ==
  \/ HashField(k, f) # Nil /\ reply' = Integer(0) /\ UNCHANGED hashes
  \/ HashField(k, f) = Nil /\ reply' = Integer(1) /\ SetHashFields(k, <<<<f, v>>>>)

HDel(k, fs) ==
  /\ DelHashFields(k, fs)
  /\ reply' = Integer(Removed(fs, DOMAIN Hash(k)))

(* The commands that only look.  The order in which a Map lists its fields *)
(* is abstracted.                                                          *)
HGet(k, f)    == reply' = BulkOrNull(HashField(k, f)) /\ UNCHANGED hashes
HMGet(k, fs)  == reply' = Array([i \in DOMAIN fs |-> HashField(k, fs[i])]) /\ UNCHANGED hashes
HExists(k, f) == reply' = Integer(IF HashField(k, f) # Nil THEN 1 ELSE 0) /\ UNCHANGED hashes
HLen(k)       == reply' = Integer(Cardinality(DOMAIN Hash(k))) /\ UNCHANGED hashes
HKeys(k)      == reply' = Unordered(DOMAIN Hash(k)) /\ UNCHANGED hashes
HGetAll(k) ==
  /\ reply' = Unordered({<<f, Hash(k)[f]>> : f \in DOMAIN Hash(k)})
  /\ UNCHANGED hashes
HVals(k) ==   \* the values, each with the number of fields that have it
  LET holding(v) == {f \in DOMAIN Hash(k) : Hash(k)[f] = v}
  IN  /\ reply' = Unordered({<<v, Cardinality(holding(v))>> : v \in {x \in Values : holding(x) # {}}})
      /\ UNCHANGED hashes

HashCommand ==
  \/ \E k \in Keys, ps \in ListsOf(Values \X Values) :
       \/ request' = <<"HSET", k, ps>> /\ HSet(k, ps)
       \/ request' = <<"HMSET", k, ps>> /\ HMSet(k, ps)
  \/ \E k \in Keys, f \in Values, v \in Values :
       request' = <<"HSETNX", k, f, v>> /\ HSetNx(k, f, v)
  \/ \E k \in Keys, fs \in ListsOf(Values) :
       \/ request' = <<"HDEL", k, fs>> /\ HDel(k, fs)
       \/ request' = <<"HMGET", k, fs>> /\ HMGet(k, fs)
  \/ \E k \in Keys, f \in Values :
       \/ request' = <<"HGET", k, f>> /\ HGet(k, f)
       \/ request' = <<"HEXISTS", k, f>> /\ HExists(k, f)
  \/ \E k \in Keys :
       \/ request' = <<"HLEN", k>> /\ HLen(k)
       \/ request' = <<"HKEYS", k>> /\ HKeys(k)
       \/ request' = <<"HGETALL", k>> /\ HGetAll(k)
       \/ request' = <<"HVALS", k>> /\ HVals(k)
=============================================================================
