------------------------------ MODULE Strings ------------------------------
(***************************************************************************)
(* The string commands of the JavaScript server on one Database            *)
(* (src/js/src/store/database.js, commands/string.js) and the timer that   *)
(* sweeps expired keys (store/expiry.js).                                  *)
(*                                                                         *)
(* Node runs every command handler and every sweep to completion before    *)
(* the next, so each is one action; between them the clock moves.  Only    *)
(* string commands run, so the maps of the other types stay empty here.    *)
(* The replies to a wrong number of arguments change nothing and are left  *)
(* out.  Operators named Op_Fault are faulty variants of Op: they are not  *)
(* part of the specification, and are substituted for Op to see that the   *)
(* properties notice.                                                      *)
(***************************************************************************)
EXTENDS Resp, FiniteSets

CONSTANTS
  Keys, Values,
  NoEntry,         \* Map.get of a key that is not in the map
  NaN,             \* what parseInt answers for text that is not a number
  EmptyString,
  ParseInt(_), Str(_), Concat(_, _), Length(_),   \* as in ExpiringMap
  Counters,        \* bound: the numbers a counter may reach
  Deltas,          \* arguments of INCRBY and DECRBY, as parseInt reads them
  Durations,       \* arguments of EX, PX, SETEX and EXPIRE
  Instants,        \* arguments of EXAT, PXAT and EXPIREAT
  SetOptions,      \* the option lists given to SET, as its loop leaves them
  Second,          \* clock ticks (milliseconds) in a second
  Epoch, MaxTime,  \* bound: the clock runs from Epoch to MaxTime
  MaxArgs          \* bound: longest argument list of a many-key command

ASSUME StringsAssumption ==
  /\ NoEntry \notin [value : Values, expiry : Int]
  /\ NaN \notin Int /\ Nil \notin Values /\ EmptyString \in Values
  /\ \A v \in Values : ParseInt(v) \in Int \cup {NaN}
  /\ \A v \in Values : Length(v) \in Nat
  /\ Counters \subseteq Int /\ \A n \in Counters : Str(n) \in Values
  /\ Deltas \subseteq Int \cup {NaN}
  /\ Durations \subseteq Int \cup {NaN} /\ Instants \subseteq Int \cup {NaN}
  /\ SetOptions \subseteq [unit : {"none", "EX", "PX", "EXAT", "PXAT"},
                           arg : Int \cup {NaN},
                           nx : BOOLEAN, xx : BOOLEAN, get : BOOLEAN,
                           keepttl : BOOLEAN]
  /\ Second \in Nat \ {0} /\ Epoch \in Nat \ {0} /\ MaxTime \in Nat /\ Epoch <= MaxTime
  /\ MaxArgs \in Nat

VARIABLES
  strings,   \* Database.strings: key -> entry, or NoEntry
  now,       \* Date.now()
  request,   \* history: the last command and its arguments, but for times
  reply      \* what it sent back

vars == <<strings, now, request, reply>>

Never == 0   \* a falsy _expiry: undefined, 0 or NaN
Entries == [value : Values, expiry : Int]
KeyLists == UNION {[1 .. n -> Keys] : n \in 1 .. MaxArgs}
ArgKeys(ks) == {ks[i] : i \in DOMAIN ks}
----------------------------------------------------------------------------
(* class Database *)

(* _wrapValue: a time to live that is not a positive number means none. *)
WrapValue_Nan(v, ttlMs) ==
  [value |-> v,
   expiry |-> IF ttlMs = NaN THEN NaN ELSE IF ttlMs > 0 THEN now + ttlMs ELSE Never]
WrapValue(v, ttlMs) ==
  [value |-> v,
   expiry |-> IF ttlMs # NaN /\ ttlMs > 0 THEN now + ttlMs ELSE Never]

Expired(e) == e # NoEntry /\ e.expiry # Never /\ now >= e.expiry

(* _unwrapEntry *)
UnwrapEntry(e) == IF e = NoEntry \/ Expired(e) THEN Nil ELSE e.value

(* What getString and existsKey answer ... *)
GetString(k) == UnwrapEntry(strings[k])
ExistsKey_Unchecked(k) == strings[k] # NoEntry
ExistsKey(k) == GetString(k) # Nil

(* ... and what they leave behind: an expired entry that is looked at is   *)
(* deleted.                                                                *)
LazyDelete_Unchecked(K) == [k \in Keys |-> IF k \in K THEN NoEntry ELSE strings[k]]
LazyDelete(K) ==
  [k \in Keys |-> IF k \in K /\ Expired(strings[k]) THEN NoEntry ELSE strings[k]]

SetString(k, v, ttlMs) == strings' = [strings EXCEPT ![k] = WrapValue(v, ttlMs)]

(* expireKey: the entry is not asked whether it has expired. *)
ExpireKey(k, ttlMs) ==
  strings' = [strings EXCEPT ![k].expiry = IF ttlMs = NaN THEN Never ELSE now + ttlMs]

Stored == {k \in Keys : strings[k] # NoEntry}
----------------------------------------------------------------------------
(* commands/string.js *)

Seconds(n) == IF n = NaN THEN NaN ELSE n * Second
Until(t)   == IF t = NaN THEN NaN ELSE t - now

TtlMs(o) ==
  CASE o.unit = "none" -> 0
    [] o.unit = "EX"   -> Seconds(o.arg)
    [] o.unit = "PX"   -> o.arg
    [] o.unit = "EXAT" -> Until(Seconds(o.arg))
    [] o.unit = "PXAT" -> Until(o.arg)

SetRefused(k, o) == (o.nx /\ ExistsKey(k)) \/ (o.xx /\ ~ExistsKey(k))

(* KEEPTTL is parsed and then not used. *)
Set(k, v, o) ==
  /\ \/ /\ SetRefused(k, o)
        /\ strings' = LazyDelete({k})
        /\ reply' = NullReply
     \/ /\ ~SetRefused(k, o)
        /\ SetString(k, v, TtlMs(o))
        /\ reply' = IF o.get THEN BulkOrNull(GetString(k)) ELSE OK
  /\ UNCHANGED now

Get(k) ==
  /\ strings' = LazyDelete({k})
  /\ reply' = BulkOrNull(GetString(k))
  /\ UNCHANGED now

GetSet(k, v) ==
  /\ SetString(k, v, 0)
  /\ reply' = BulkOrNull(GetString(k))
  /\ UNCHANGED now

SetEx(k, seconds, v) ==
  /\ SetString(k, v, Seconds(seconds))
  /\ reply' = OK
  /\ UNCHANGED now

SetNx(k, v) ==
  /\ \/ /\ ExistsKey(k)
        /\ reply' = Integer(0)
        /\ UNCHANGED strings
     \/ /\ ~ExistsKey(k)
        /\ SetString(k, v, 0)
        /\ reply' = Integer(1)
  /\ UNCHANGED now

(* deleteKeys counts every key still in the map, expired or not. *)
Del(ks) ==
  /\ strings' = [k \in Keys |-> IF k \in ArgKeys(ks) THEN NoEntry ELSE strings[k]]
  /\ reply' = Integer(Cardinality(ArgKeys(ks) \cap Stored))
  /\ UNCHANGED now

(* A key named twice is counted twice. *)
Exists(ks) ==
  /\ strings' = LazyDelete(ArgKeys(ks))
  /\ reply' = Integer(Cardinality({i \in DOMAIN ks : ExistsKey(ks[i])}))
  /\ UNCHANGED now

Expire(k, seconds) ==
  /\ \/ k \notin Stored /\ reply' = Integer(0) /\ UNCHANGED strings
     \/ k \in Stored /\ reply' = Integer(1) /\ ExpireKey(k, Seconds(seconds))
  /\ UNCHANGED now

(* EXPIREAT writes the entry itself; timestamp 0 and NaN are falsy. *)
ExpireAt(k, timestamp) ==
  /\ \/ k \notin Stored /\ reply' = Integer(0) /\ UNCHANGED strings
     \/ /\ k \in Stored
        /\ strings' = [strings EXCEPT ![k].expiry =
                         IF timestamp = NaN THEN Never ELSE Seconds(timestamp)]
        /\ reply' = Integer(1)
  /\ UNCHANGED now

CeilDiv(a, b) == -((-a) \div b)
TtlOf(e) == LET ttl == CeilDiv(e.expiry - now, Second) IN IF ttl >= 0 THEN ttl ELSE -2

Ttl(k) ==
  /\ reply' = CASE k \notin Stored -> Integer(-2)
                [] k \in Stored /\ strings[k].expiry = Never -> Integer(-1)
                [] OTHER -> Integer(TtlOf(strings[k]))
  /\ UNCHANGED <<strings, now>>

(* INCR, DECR, INCRBY and DECRBY.  setString(key, num, 0) drops the        *)
(* deadline; an error is found only after getString has collected.         *)
OldNumber(k) == IF ExistsKey(k) THEN ParseInt(GetString(k)) ELSE 0

Add(k, increment) ==
  /\ \/ /\ NaN \in {OldNumber(k), increment}
        /\ strings' = LazyDelete({k})
        /\ reply' = Error
     \/ /\ NaN \notin {OldNumber(k), increment}
        /\ OldNumber(k) + increment \in Counters
        /\ SetString(k, Str(OldNumber(k) + increment), 0)
        /\ reply' = Integer(OldNumber(k) + increment)
  /\ UNCHANGED now

Incr(k)      == Add(k, 1)
Decr(k)      == Add(k, -1)
IncrBy(k, n) == Add(k, n)
DecrBy(k, n) == Add(k, IF n = NaN THEN NaN ELSE -n)

MGet(ks) ==
  /\ strings' = LazyDelete(ArgKeys(ks))
  /\ reply' = Array([i \in DOMAIN ks |-> GetString(ks[i])])
  /\ UNCHANGED now

(* The pairs are stored one after the other: the last one of a key stays. *)
LastOf(ks, k) ==
  CHOOSE i \in DOMAIN ks : ks[i] = k /\ \A j \in DOMAIN ks : j > i => ks[j] # k

MSet(ks, vs) ==
  /\ strings' = [k \in Keys |-> IF k \in ArgKeys(ks)
                                THEN WrapValue(vs[LastOf(ks, k)], 0)
                                ELSE strings[k]]
  /\ reply' = OK
  /\ UNCHANGED now

(* KEYS, with the pattern given as the set of keys it matches. *)
KeysByPattern(P) ==
  /\ reply' = Unordered(Stored \cap P)
  /\ UNCHANGED <<strings, now>>

Type(k) ==
  /\ reply' = Simple(IF k \in Stored THEN "string" ELSE "none")
  /\ UNCHANGED <<strings, now>>

StrLen(k) ==
  /\ strings' = LazyDelete({k})
  /\ reply' = Integer(IF ExistsKey(k) THEN Length(GetString(k)) ELSE 0)
  /\ UNCHANGED now

(* APPEND, bounded to the texts of Values. *)
AppendTo(k, v) ==
  LET newVal == Concat(IF ExistsKey(k) THEN GetString(k) ELSE EmptyString, v)
  IN  /\ newVal \in Values
      /\ SetString(k, newVal, 0)
      /\ reply' = Integer(Length(newVal))
      /\ UNCHANGED now
----------------------------------------------------------------------------
(* class ExpiryManager, and the clock *)

Sweep_Late ==
  /\ strings' = [k \in Keys |-> IF Expired(strings[k]) /\ now > strings[k].expiry
                                THEN NoEntry ELSE strings[k]]
  /\ UNCHANGED <<now, request, reply>>

Sweep ==
  /\ strings' = LazyDelete(Keys)
  /\ UNCHANGED <<now, request, reply>>

Tick ==
  /\ now < MaxTime
  /\ now' = now + 1
  /\ UNCHANGED <<strings, request, reply>>
----------------------------------------------------------------------------
Init ==
  /\ strings = [k \in Keys |-> NoEntry]
  /\ now = Epoch
  /\ request = <<"NONE">> /\ reply = NullReply

Command ==
  \/ \E k \in Keys, v \in Values, o \in SetOptions :
       request' = <<"SET", k, v, o.nx, o.xx, o.get>> /\ Set(k, v, o)
  \/ \E k \in Keys, s \in Durations, v \in Values :
       request' = <<"SETEX", k, v>> /\ SetEx(k, s, v)
  \/ \E k \in Keys, v \in Values :
       \/ request' = <<"GETSET", k, v>> /\ GetSet(k, v)
       \/ request' = <<"SETNX", k, v>> /\ SetNx(k, v)
       \/ request' = <<"APPEND", k, v>> /\ AppendTo(k, v)
  \/ \E k \in Keys :
       \/ request' = <<"GET", k>> /\ Get(k)
       \/ request' = <<"STRLEN", k>> /\ StrLen(k)
       \/ request' = <<"INCR", k>> /\ Incr(k)
       \/ request' = <<"DECR", k>> /\ Decr(k)
       \/ request' = <<"TTL", k>> /\ Ttl(k)
       \/ request' = <<"TYPE", k>> /\ Type(k)
  \/ \E k \in Keys, n \in Deltas :
       \/ request' = <<"INCRBY", k, n>> /\ IncrBy(k, n)
       \/ request' = <<"DECRBY", k, n>> /\ DecrBy(k, n)
  \/ \E ks \in KeyLists :
       \/ request' = <<"MGET", ks>> /\ MGet(ks)
       \/ request' = <<"EXISTS", ks>> /\ Exists(ks)
       \/ request' = <<"DEL", ks>> /\ Del(ks)
       \/ \E vs \in [DOMAIN ks -> Values] : request' = <<"MSET", ks, vs>> /\ MSet(ks, vs)
  \/ \E k \in Keys, s \in Durations : request' = <<"EXPIRE", k>> /\ Expire(k, s)
  \/ \E k \in Keys, t \in Instants : request' = <<"EXPIREAT", k>> /\ ExpireAt(k, t)
  \/ \E P \in SUBSET Keys : request' = <<"KEYS", P>> /\ KeysByPattern(P)

Next == Command \/ Sweep \/ Tick

(* setInterval calls sweep again and again, and time passes. *)
Fairness == WF_vars(Sweep) /\ WF_vars(Tick)

Spec == Init /\ [][Next]_vars
FairSpec == Spec /\ Fairness
----------------------------------------------------------------------------
(* Properties *)

Corpses == {k \in Keys : Expired(strings[k])}
Live == Stored \ Corpses

WellFormed == strings \in [Keys -> Entries \cup {NoEntry}] /\ now \in Epoch .. MaxTime

(* The database maps keys to well-formed entries, the clock is in range    *)
(* and every reply is one the RESP serializers can build.                  *)
TypeOK == WellFormed /\ reply \in Replies(Keys, Values)

(* A live key leaves the view of the commands only when its own deadline   *)
(* passes or a client removes or retimes it: no read, no write to another  *)
(* key and no sweep makes it disappear (getString, existsKey, sweep).      *)
DisappearsOnTimeOrOnDemand ==
  [][\A k \in Live \ Live' :
       \/ strings[k].expiry # Never /\ now' >= strings[k].expiry
       \/ \E ks \in KeyLists : k \in ArgKeys(ks) /\ Del(ks)
       \/ \E s \in Durations : Expire(k, s)
       \/ \E t \in Instants : ExpireAt(k, t)]_vars

(* An entry does not outlive its deadline for ever: the clock reaches it   *)
(* and the sweep deletes the entry, unless a client changes it before      *)
(* (ExpiryManager.start).                                                  *)
EntryWithDeadline(k, d) == k \in Stored /\ strings[k].expiry = d
Reclaimed ==
  \A k \in Keys, d \in 1 .. MaxTime : EntryWithDeadline(k, d) ~> ~EntryWithDeadline(k, d)

(* Every command answers, and changes the store, as over a map in which    *)
(* expired keys do not exist, except the keyspace commands.                *)
ValuesHeld == [k \in Keys |-> IF k \in Stored THEN strings[k].value ELSE Nil]
Promise == INSTANCE ExpiringMap WITH held <- ValuesHeld, corpses <- Corpses
KeepsPromise == Promise!Spec

(* Once expired a value is never served again (implementation-guide.md     *)
(* 7.2: lazy deletion guarantees that what is accessed is valid).  EXPIRE  *)
(* breaks it: expireKey does not ask whether the entry has expired.        *)
NoResurrection ==
  [][\A k \in Corpses, s \in Durations \ {NaN} : Expire(k, s) => k \notin Live']_vars
=============================================================================
