---------------------------- MODULE ExpiringMap ----------------------------
(***************************************************************************)
(* What the string commands promise a client, without clocks, deadlines    *)
(* or timers.                                                              *)
(*                                                                         *)
(* A key holds a value or nothing.  A value that outlives its time to live *)
(* becomes a CORPSE: it is still held, until a command that looks at the   *)
(* key, or the store on its own account, collects it.  The promise is that *)
(* the commands on values treat a corpse exactly as an absent key, that    *)
(* nothing but a corpse is ever collected, and that only the commands on   *)
(* the keyspace (DEL, EXPIRE, TTL, TYPE, KEYS) may notice a corpse.        *)
(***************************************************************************)
EXTENDS Resp, FiniteSets

CONSTANTS Keys, Values, NaN,
          EmptyString,     \* the value "" of Values
          Deltas,          \* the amounts INCRBY and DECRBY are given
          MaxArgs,         \* longest argument list of a many-key command
          ParseInt(_),     \* the number a value starts with, or NaN
          Str(_),          \* the decimal text of a number
          Concat(_, _),    \* string concatenation
          Length(_)        \* length of a text, in bytes or characters

VARIABLES held,      \* key -> the value it holds, or Nil
          corpses,   \* the held keys whose time to live is over
          request,   \* the last command and its arguments, but for times
          reply      \* the answer to it

vars == <<held, corpses, request, reply>>

(* Argument lists of the commands that take many keys. *)
KeyLists == UNION {[1 .. n -> Keys] : n \in 1 .. MaxArgs}
ArgKeys(ks) == {ks[i] : i \in DOMAIN ks}

(* What a command on values sees of a key. *)
Visible(k) == IF k \in corpses THEN Nil ELSE held[k]

(* The corpses among K are collected. *)
Forget(K) ==
  /\ held' = [k \in Keys |-> IF k \in corpses \cap K THEN Nil ELSE held[k]]
  /\ corpses' = corpses \ K

(* The keys K take the values f and are live. *)
Store(K, f) ==
  /\ held' = [k \in Keys |-> IF k \in K THEN f[k] ELSE held[k]]
  /\ corpses' = corpses \ K

Write(k, v) == Store({k}, [x \in {k} |-> v])
----------------------------------------------------------------------------
(* Commands on values. *)

Get(k)   == reply' = BulkOrNull(Visible(k)) /\ Forget({k})
MGet(ks) == reply' = Array([i \in DOMAIN ks |-> Visible(ks[i])]) /\ Forget(ArgKeys(ks))
Exists(ks) ==
  /\ reply' = Integer(Cardinality({i \in DOMAIN ks : Visible(ks[i]) # Nil}))
  /\ Forget(ArgKeys(ks))
StrLen(k) ==
  /\ reply' = Integer(IF Visible(k) = Nil THEN 0 ELSE Length(Visible(k)))
  /\ Forget({k})

Blocked(k, nx, xx) == (nx /\ Visible(k) # Nil) \/ (xx /\ Visible(k) = Nil)

Put(k, v, get) ==
  /\ reply' = IF get THEN BulkOrNull(Visible(k)) ELSE OK
  /\ Write(k, v)

Set(k, v, nx, xx, get) ==
  \/ Blocked(k, nx, xx) /\ reply' = NullReply /\ Forget({k})
  \/ ~Blocked(k, nx, xx) /\ Put(k, v, get)

SetNx(k, v) ==
  \/ Visible(k) # Nil /\ reply' = Integer(0) /\ Forget({k})
  \/ Visible(k) = Nil /\ reply' = Integer(1) /\ Write(k, v)

(* INCR, DECR, INCRBY, DECRBY: a missing value counts as 0. *)
Add(k, d) ==
  LET old == IF Visible(k) = Nil THEN 0 ELSE ParseInt(Visible(k))
  IN  \/ /\ NaN \in {old, d}
         /\ reply' = Error
         /\ Forget({k})
      \/ /\ NaN \notin {old, d}
         /\ reply' = Integer(old + d)
         /\ Write(k, Str(old + d))

AppendTo(k, v) ==
  LET new == Concat(IF Visible(k) = Nil THEN EmptyString ELSE Visible(k), v)
  IN  reply' = Integer(Length(new)) /\ Write(k, new)

(* Of a key named twice the last value counts. *)
MSet(ks, vs) ==
  /\ reply' = OK
  /\ \E f \in [ArgKeys(ks) -> Values] :
       /\ \A i \in DOMAIN ks :
            (\A j \in DOMAIN ks : j > i => ks[j] # ks[i]) => f[ks[i]] = vs[i]
       /\ Store(ArgKeys(ks), f)
----------------------------------------------------------------------------
(* Commands on the keyspace, which may notice corpses. *)

Held == {k \in Keys : held[k] # Nil}

Del(ks) ==
  /\ reply' = Integer(Cardinality(ArgKeys(ks) \cap Held))
  /\ held' = [k \in Keys |-> IF k \in ArgKeys(ks) THEN Nil ELSE held[k]]
  /\ corpses' = corpses \ ArgKeys(ks)

(* EXPIRE, EXPIREAT: a held key becomes a corpse or not, its value is kept. *)
Retime(k) ==
  \/ k \notin Held /\ reply' = Integer(0) /\ UNCHANGED <<held, corpses>>
  \/ /\ k \in Held
     /\ reply' = Integer(1)
     /\ corpses' \in {corpses \cup {k}, corpses \ {k}}
     /\ UNCHANGED held

Ttl(k) ==
  /\ reply'.type = "integer"
  /\ k \notin Held => reply' = Integer(-2)
  /\ Visible(k) # Nil => reply' # Integer(-2)
  /\ UNCHANGED <<held, corpses>>

Type(k) ==
  /\ reply' = Simple(IF k \in Held THEN "string" ELSE "none")
  /\ UNCHANGED <<held, corpses>>

KeysMatching(P) ==
  /\ reply' = Unordered(Held \cap P)
  /\ UNCHANGED <<held, corpses>>
----------------------------------------------------------------------------
(* What the store does on its own account. *)

Decay ==
  /\ corpses \subseteq corpses'
  /\ corpses' \subseteq Held
  /\ UNCHANGED <<request, reply, held>>

Collect == UNCHANGED <<request, reply>> /\ \E K \in SUBSET corpses : Forget(K)
----------------------------------------------------------------------------
Init ==
  /\ held = [k \in Keys |-> Nil]
  /\ corpses = {}
  /\ request = <<"NONE">>
  /\ reply = NullReply

Negated(n) == IF n = NaN THEN NaN ELSE -n

ValueCommand ==
  \/ \E k \in Keys :
       \/ request' = <<"GET", k>> /\ Get(k)
       \/ request' = <<"STRLEN", k>> /\ StrLen(k)
       \/ request' = <<"INCR", k>> /\ Add(k, 1)
       \/ request' = <<"DECR", k>> /\ Add(k, -1)
  \/ \E k \in Keys, d \in Deltas :
       \/ request' = <<"INCRBY", k, d>> /\ Add(k, d)
       \/ request' = <<"DECRBY", k, d>> /\ Add(k, Negated(d))
  \/ \E k \in Keys, v \in Values :
       \/ request' = <<"SETEX", k, v>> /\ Put(k, v, FALSE)
       \/ request' = <<"GETSET", k, v>> /\ Put(k, v, TRUE)
       \/ request' = <<"SETNX", k, v>> /\ SetNx(k, v)
       \/ request' = <<"APPEND", k, v>> /\ AppendTo(k, v)
  \/ \E k \in Keys, v \in Values, nx, xx, get \in BOOLEAN :
       request' = <<"SET", k, v, nx, xx, get>> /\ Set(k, v, nx, xx, get)
  \/ \E ks \in KeyLists :
       \/ request' = <<"MGET", ks>> /\ MGet(ks)
       \/ request' = <<"EXISTS", ks>> /\ Exists(ks)
       \/ \E vs \in [DOMAIN ks -> Values] : request' = <<"MSET", ks, vs>> /\ MSet(ks, vs)

KeyspaceCommand ==
  \/ \E ks \in KeyLists : request' = <<"DEL", ks>> /\ Del(ks)
  \/ \E k \in Keys :
       \/ request' \in {<<"EXPIRE", k>>, <<"EXPIREAT", k>>} /\ Retime(k)
       \/ request' = <<"TTL", k>> /\ Ttl(k)
       \/ request' = <<"TYPE", k>> /\ Type(k)
  \/ \E P \in SUBSET Keys : request' = <<"KEYS", P>> /\ KeysMatching(P)

Next == ValueCommand \/ KeyspaceCommand \/ Decay \/ Collect

Spec == Init /\ [][Next]_vars
=============================================================================
