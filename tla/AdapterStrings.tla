--------------------------- MODULE AdapterStrings ---------------------------
(***************************************************************************)
(* The methods of LinRedisAdapter (src/js/src/adapter.js) on the strings   *)
(* of one Database.  No method on strings awaits anything, so each is one  *)
(* action; no ExpiryManager knows the adapter's databases, so only lazy    *)
(* deletion and ttl remove what has expired.  Methods that do what a       *)
(* command of the server does are that command's action in Strings.        *)
(***************************************************************************)
EXTENDS Strings

CONSTANTS NaNText, Ranges, Substring(_, _, _)   \* as in AdapterMap

ASSUME AdapterStringsAssumption == NaNText \in Values /\ Ranges \subseteq Int

(* Number, or 0 for what parseInt cannot read. *)
OrZero(n) == IF n = NaN THEN 0 ELSE n
Plus(a, b) == IF b = NaN THEN NaN ELSE a + b

(* incr, decr, incrBy and decrBy. *)
Count_NoFallback(k, increment) == Add(k, increment)
Count(k, increment) ==
  LET newVal == Plus(OrZero(OldNumber(k)), increment)
  IN  /\ newVal \in Counters \cup {NaN}
      /\ SetString(k, IF newVal = NaN THEN NaNText ELSE Str(newVal), 0)
      /\ reply' = Integer(newVal)
      /\ UNCHANGED now

AdapterSet(k, v) ==
  /\ SetString(k, v, 0)
  /\ reply' = OK
  /\ UNCHANGED now

(* mSet stores the empty text for a missing or falsy value (Nil here).     *)
AdapterMSet(ks, vs) == MSet(ks, [i \in DOMAIN vs |-> IF vs[i] = Nil THEN EmptyString ELSE vs[i]])

(* exists looks into the map (Map.has), where an expired entry still is.   *)
ExistsHeld(k) ==
  /\ reply' = Integer(IF k \in Stored THEN 1 ELSE 0)
  /\ UNCHANGED <<strings, now>>

(* ttl rounds down, and deletes the entry it finds expired. *)
TtlCollects(k) ==
  /\ strings' = LazyDelete({k})
  /\ reply' = CASE k \notin Stored -> Integer(-1)
                [] k \in Stored /\ strings[k].expiry = Never -> Integer(-1)
                [] OTHER -> IF Expired(strings[k]) THEN Integer(-2)
                            ELSE Integer((strings[k].expiry - now) \div Second)
  /\ UNCHANGED now

(* getRange hands its two indexes to substring. *)
GetRange(k, start, end) ==
  LET v == IF ExistsKey(k) THEN GetString(k) ELSE EmptyString
      s == IF start >= 0 THEN start ELSE IF Length(v) + start < 0 THEN 0 ELSE Length(v) + start
      e == IF end < 0 THEN Length(v) + end ELSE end
  IN  /\ strings' = LazyDelete({k})
      /\ reply' = Bulk(IF s > e \/ s >= Length(v) THEN EmptyString
                       ELSE Substring(v, s, IF e + 1 > Length(v) THEN Length(v) ELSE e + 1))
      /\ UNCHANGED now

(* rename stores the entry object under the new key and then deletes the   *)
(* old one, also where both are the same.                                  *)
Rename_Rewrapped(k, n) ==
  /\ \/ k \notin Stored /\ reply' = Error /\ UNCHANGED strings
     \/ /\ k \in Stored /\ reply' = OK
        /\ strings' = [strings EXCEPT ![n] = WrapValue(strings[k].value, 0), ![k] = NoEntry]
  /\ UNCHANGED now
Rename(k, n) ==
  /\ \/ k \notin Stored /\ reply' = Error /\ UNCHANGED strings
     \/ k \in Stored /\ reply' = OK /\ strings' = [strings EXCEPT ![n] = strings[k], ![k] = NoEntry]
  /\ UNCHANGED now

AdapterMethod ==
  \/ \E k \in Keys :
       \/ request' = <<"get", k>> /\ Get(k)
       \/ request' = <<"strlen", k>> /\ StrLen(k)
       \/ request' = <<"incr", k>> /\ Count(k, 1)
       \/ request' = <<"decr", k>> /\ Count(k, -1)
       \/ request' = <<"exists", k>> /\ ExistsHeld(k)
       \/ request' = <<"ttl", k>> /\ TtlCollects(k)
       \/ request' = <<"type", k>> /\ Type(k)
       \/ \E s \in Durations : request' = <<"expire", k>> /\ Expire(k, s)
       \/ \E n \in Keys : request' = <<"rename", k, n>> /\ Rename(k, n)
       \/ \E i \in Ranges, j \in Ranges : request' = <<"getRange", k, i, j>> /\ GetRange(k, i, j)
  \/ \E k \in Keys, d \in Deltas :
       \/ request' = <<"incrBy", k, d>> /\ Count(k, d)
       \/ request' = <<"decrBy", k, d>> /\ Count(k, IF d = NaN THEN NaN ELSE -d)
  \/ \E k \in Keys, v \in Values :
       \/ request' = <<"set", k, v>> /\ AdapterSet(k, v)
       \/ \E s \in Durations : request' = <<"setEx", k, v>> /\ SetEx(k, s, v)
       \/ request' = <<"getSet", k, v>> /\ GetSet(k, v)
       \/ request' = <<"append", k, v>> /\ AppendTo(k, v)
  \/ \E ks \in KeyLists :
       \/ request' = <<"mGet", ks>> /\ MGet(ks)
       \/ request' = <<"del", ks>> /\ Del(ks)
       \/ \E vs \in [DOMAIN ks -> Values \cup {Nil}] :
            request' = <<"mSet", ks, vs>> /\ AdapterMSet(ks, vs)
  \/ \E P \in SUBSET Keys : request' = <<"keys", P>> /\ KeysByPattern(P)

AdapterSpec == Init /\ [][AdapterMethod \/ Tick]_vars
----------------------------------------------------------------------------
(* Properties *)

(* What has expired is gone for every method that hands out a value or     *)
(* builds on one, whatever was renamed, retimed or counted before, and is  *)
(* there only for those on keys; a value that was renamed keeps its time   *)
(* to live; nothing else changes or removes a value.                       *)
AdapterPromise == INSTANCE AdapterMap WITH held <- ValuesHeld, corpses <- Corpses
AdapterKeepsPromise == AdapterPromise!AdapterSpec
=============================================================================
