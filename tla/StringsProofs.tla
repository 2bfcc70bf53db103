--------------------------- MODULE StringsProofs ---------------------------
(***************************************************************************)
(* Proofs about Strings, for any keys, texts, clock range and arguments:   *)
(* types, which steps may hide a live key, and that Strings implements     *)
(* ExpiringMap: every command, sweep and tick of the clock is a step of    *)
(* the abstract map, or changes nothing there; and that AdapterStrings     *)
(* implements AdapterMap in the same way.                                  *)
(***************************************************************************)
EXTENDS AdapterStrings, FiniteSetTheorems, WellFoundedInduction, TLAPS

(* A wrapped value is a well-formed entry whatever number, or NaN, the     *)
(* time to live is (_wrapValue).                                           *)
LEMMA WrapValueType ==
  ASSUME WellFormed, NEW v \in Values, NEW t \in Int \cup {NaN}
  PROVE  WrapValue(v, t) \in Entries
  BY StringsAssumption DEF WrapValue, Entries, Never, WellFormed

(* The time to live SET computes from its options is a number or NaN.      *)
LEMMA TtlMsType ==
  ASSUME WellFormed, NEW o \in SetOptions
  PROVE  TtlMs(o) \in Int \cup {NaN}
  <1>1. now \in Int /\ Second \in Int
    BY StringsAssumption DEF WellFormed
  <1>2. o.arg \in Int \cup {NaN} /\ o.unit \in {"none", "EX", "PX", "EXAT", "PXAT"}
    BY StringsAssumption
  <1> QED  BY <1>1, <1>2 DEF TtlMs, Seconds, Until

(* getString answers a text, or nothing.                                   *)
LEMMA GetStringType ==
  ASSUME WellFormed, NEW k \in Keys
  PROVE  /\ GetString(k) \in Values \cup {Nil}
         /\ BulkOrNull(GetString(k)) \in Replies(Keys, Values)
  <1>1. GetString(k) \in Values \cup {Nil}
    BY StringsAssumption DEF WellFormed, GetString, UnwrapEntry, Entries
  <1> QED  BY <1>1 DEF BulkOrNull, Bulk, NullReply, Replies

(* Lazy deletion keeps the map well formed.                                *)
LEMMA LazyDeleteType ==
  ASSUME WellFormed, NEW K
  PROVE  LazyDelete(K) \in [Keys -> Entries \cup {NoEntry}]
  BY DEF WellFormed, LazyDelete

(* An argument list names finitely many keys.                              *)
LEMMA KeyListType ==
  ASSUME NEW ks \in KeyLists
  PROVE  /\ IsFiniteSet(DOMAIN ks)
         /\ IsFiniteSet(ArgKeys(ks)) /\ ArgKeys(ks) \subseteq Keys
         /\ \E n \in Nat : ks \in [1 .. n -> Keys]
  <1>1. PICK n \in 1 .. MaxArgs : ks \in [1 .. n -> Keys]
    BY DEF KeyLists
  <1>2. n \in Nat /\ DOMAIN ks = 1 .. n
    BY <1>1, StringsAssumption
  <1>3. IsFiniteSet(1 .. n)
    BY <1>2, FS_Interval
  <1>4. ks \in Surjection(1 .. n, ArgKeys(ks))
    BY <1>1, <1>2 DEF Surjection, ArgKeys
  <1>5. IsFiniteSet(ArgKeys(ks))
    BY <1>3, <1>4, FS_Surjection
  <1> QED  BY <1>1, <1>2, <1>3, <1>5 DEF ArgKeys

(* Of the places where an argument list names a key there is a last one.   *)
LEMMA LastOfType ==
  ASSUME NEW ks \in KeyLists, NEW k \in ArgKeys(ks)
  PROVE  /\ LastOf(ks, k) \in DOMAIN ks
         /\ ks[LastOf(ks, k)] = k
         /\ \A j \in DOMAIN ks : j > LastOf(ks, k) => ks[j] # k
  <1>1. PICK n \in Nat : ks \in [1 .. n -> Keys]
    BY KeyListType
  <1> DEFINE fromEnd == {m \in 0 .. n : n - m \in DOMAIN ks /\ ks[n - m] = k}
  <1>2. PICK i \in 1 .. n : ks[i] = k
    BY <1>1 DEF ArgKeys
  <1>3. n - i \in fromEnd
    BY <1>1, <1>2
  <1>4. PICK m \in fromEnd : \A x \in fromEnd : ~(<<x, m>> \in OpToRel(<, Nat))
    <2>1. fromEnd \subseteq Nat
      OBVIOUS
    <2> HIDE DEF fromEnd
    <2> QED  BY <1>3, <2>1, NatLessThanWellFounded, WFMin
  <1>5. \A x \in fromEnd : ~(x < m)
    <2> SUFFICES ASSUME NEW x \in fromEnd, x < m
                 PROVE  <<x, m>> \in OpToRel(<, Nat)
      BY <1>4
    <2>1. <<x, m>> \in Nat \X Nat
      OBVIOUS
    <2> QED  BY <2>1 DEF OpToRel
  <1>6. \A j \in DOMAIN ks : j > n - m => ks[j] # k
    <2> SUFFICES ASSUME NEW j \in DOMAIN ks, j > n - m, ks[j] = k
                 PROVE  FALSE
      OBVIOUS
    <2>1. n - j \in fromEnd /\ n - j < m
      BY <1>1
    <2> QED  BY <1>5, <2>1
  <1> QED  BY <1>6 DEF LastOf

(* The number a key counts from is a number or NaN.                        *)
LEMMA OldNumberType ==
  ASSUME WellFormed, NEW k \in Keys
  PROVE  OldNumber(k) \in Int \cup {NaN}
  BY GetStringType, StringsAssumption DEF OldNumber, ExistsKey
----------------------------------------------------------------------------
(* The four counter commands keep the state well formed.                   *)
LEMMA AddType ==
  ASSUME TypeOK, NEW k \in Keys, NEW d \in Int \cup {NaN}, Add(k, d)
  PROVE  TypeOK'
  <1>w. WellFormed
    BY DEF TypeOK
  <1>1. now' \in Epoch .. MaxTime
    BY DEF Add, TypeOK, WellFormed
  <1>2. CASE strings' = LazyDelete({k}) /\ reply' = Error
    BY <1>1, <1>2, LazyDeleteType DEF TypeOK, WellFormed, Replies, Error
  <1>3. CASE /\ OldNumber(k) + d \in Counters
             /\ SetString(k, Str(OldNumber(k) + d), 0)
             /\ reply' = Integer(OldNumber(k) + d)
    <2>1. Str(OldNumber(k) + d) \in Values /\ OldNumber(k) + d \in Int
      BY <1>3, StringsAssumption
    <2>2. WrapValue(Str(OldNumber(k) + d), 0) \in Entries
      BY <1>w, <2>1, WrapValueType
    <2>3. reply' \in Replies(Keys, Values)
      BY <1>3, <2>1 DEF Replies, Integer
    <2> QED  BY <1>1, <1>3, <2>2, <2>3 DEF TypeOK, WellFormed, SetString
  <1> QED  BY <1>2, <1>3 DEF Add

(* Every step keeps the state well formed.                                 *)
LEMMA TypeStep ==
  ASSUME TypeOK, [Next]_vars
  PROVE  TypeOK'
  <1> USE StringsAssumption
  <1>w. WellFormed
    BY DEF TypeOK
  <1>0. ASSUME NEW k \in Keys, NEW v \in Values, NEW t \in Int \cup {NaN},
               SetString(k, v, t)
        PROVE  strings' \in [Keys -> Entries \cup {NoEntry}]
    BY <1>0, WrapValueType DEF SetString, TypeOK, WellFormed
  <1>z. 0 \in Int \cup {NaN}
    OBVIOUS
  <1>1. ASSUME NEW k \in Keys, NEW v \in Values, NEW o \in SetOptions, Set(k, v, o)
        PROVE  TypeOK'
    <2>1. strings' \in [Keys -> Entries \cup {NoEntry}]
      BY <1>w, <1>0, <1>1, TtlMsType, LazyDeleteType DEF Set
    <2>2. reply' \in Replies(Keys, Values)
      BY <1>w, <1>1, GetStringType DEF Set, Replies, NullReply, OK, Simple
    <2> QED  BY <1>1, <2>1, <2>2 DEF Set, TypeOK, WellFormed
  <1>2. ASSUME NEW k \in Keys, Get(k)
        PROVE  TypeOK'
    BY <1>2, LazyDeleteType, GetStringType DEF Get, TypeOK, WellFormed
  <1>3. ASSUME NEW k \in Keys, NEW v \in Values, GetSet(k, v)
        PROVE  TypeOK'
    BY <1>0, <1>z, <1>3, GetStringType DEF GetSet, TypeOK, WellFormed
  <1>4. ASSUME NEW k \in Keys, NEW s \in Durations, NEW v \in Values, SetEx(k, s, v)
        PROVE  TypeOK'
    <2>1. Seconds(s) \in Int \cup {NaN}
      BY DEF Seconds
    <2> QED  BY <1>0, <1>4, <2>1 DEF SetEx, TypeOK, WellFormed, Replies, OK, Simple
  <1>5. ASSUME NEW k \in Keys, NEW v \in Values, SetNx(k, v)
        PROVE  TypeOK'
    <2>1. strings' \in [Keys -> Entries \cup {NoEntry}]
      BY <1>0, <1>z, <1>5 DEF SetNx, TypeOK, WellFormed
    <2> QED  BY <1>5, <2>1 DEF SetNx, TypeOK, WellFormed, Replies, Integer
  <1>6. ASSUME NEW ks \in KeyLists, Del(ks)
        PROVE  TypeOK'
    <2>1. Cardinality(ArgKeys(ks) \cap Stored) \in Nat
      BY KeyListType, FS_Intersection, FS_CardinalityType
    <2> QED  BY <1>6, <2>1 DEF Del, TypeOK, WellFormed, Replies, Integer
  <1>7. ASSUME NEW ks \in KeyLists, Exists(ks)
        PROVE  TypeOK'
    <2>1. Cardinality({i \in DOMAIN ks : ExistsKey(ks[i])}) \in Nat
      BY KeyListType, FS_Subset, FS_CardinalityType
    <2> QED  BY <1>7, <2>1, LazyDeleteType DEF Exists, TypeOK, WellFormed, Replies, Integer
  <1>8. ASSUME NEW k \in Keys, NEW s \in Durations, Expire(k, s)
        PROVE  TypeOK'
    BY <1>8 DEF Expire, ExpireKey, Seconds, Stored, Entries, Never, TypeOK, WellFormed, Replies, Integer
  <1>9. ASSUME NEW k \in Keys, NEW t \in Instants, ExpireAt(k, t)
        PROVE  TypeOK'
    BY <1>9 DEF ExpireAt, Seconds, Stored, Entries, Never, TypeOK, WellFormed, Replies, Integer
  <1>10. ASSUME NEW k \in Keys, Ttl(k)
         PROVE  TypeOK'
    <2>1. ASSUME k \in Stored
          PROVE  TtlOf(strings[k]) \in Int
      BY <2>1 DEF TtlOf, CeilDiv, Stored, Entries, TypeOK, WellFormed
    <2> QED  BY <1>10, <2>1 DEF Ttl, TypeOK, WellFormed, Replies, Integer
  <1>11. ASSUME NEW k \in Keys, NEW d \in Int \cup {NaN}, Add(k, d)
         PROVE  TypeOK'
    BY <1>11, AddType
  <1>12. ASSUME NEW ks \in KeyLists, MGet(ks)
         PROVE  TypeOK'
    <2>1. PICK n \in Nat : ks \in [1 .. n -> Keys]
      BY KeyListType
    <2>2. [i \in DOMAIN ks |-> GetString(ks[i])] \in Seq(Values \cup {Nil})
      BY <1>w, <2>1, GetStringType
    <2> QED  BY <1>12, <2>2, LazyDeleteType DEF MGet, TypeOK, WellFormed, Replies, Array
  <1>13. ASSUME NEW ks \in KeyLists, NEW vs \in [DOMAIN ks -> Values], MSet(ks, vs)
         PROVE  TypeOK'
    <2>1. ASSUME NEW k \in ArgKeys(ks)
          PROVE  WrapValue(vs[LastOf(ks, k)], 0) \in Entries
      BY <1>w, <1>z, LastOfType, WrapValueType
    <2> QED  BY <1>13, <2>1 DEF MSet, TypeOK, WellFormed, Replies, OK, Simple
  <1>14. ASSUME NEW P \in SUBSET Keys, KeysByPattern(P)
         PROVE  TypeOK'
    BY <1>14 DEF KeysByPattern, TypeOK, WellFormed, Replies, Unordered
  <1>15. ASSUME NEW k \in Keys, Type(k)
         PROVE  TypeOK'
    BY <1>15 DEF Type, TypeOK, WellFormed, Replies, Simple
  <1>16. ASSUME NEW k \in Keys, StrLen(k)
         PROVE  TypeOK'
    <2>1. (IF ExistsKey(k) THEN Length(GetString(k)) ELSE 0) \in Int
      BY <1>w, GetStringType DEF ExistsKey
    <2> QED  BY <1>16, <2>1, LazyDeleteType DEF StrLen, TypeOK, WellFormed, Replies, Integer
  <1>17. ASSUME NEW k \in Keys, NEW v \in Values, AppendTo(k, v)
         PROVE  TypeOK'
    <2> DEFINE new == Concat(IF ExistsKey(k) THEN GetString(k) ELSE EmptyString, v)
    <2>1. new \in Values /\ SetString(k, new, 0) /\ reply' = Integer(Length(new))
      BY <1>17 DEF AppendTo
    <2>2. strings' \in [Keys -> Entries \cup {NoEntry}]
      BY <1>0, <1>z, <2>1
    <2>3. Length(new) \in Int
      BY <2>1
    <2> QED  BY <1>17, <2>1, <2>2, <2>3 DEF AppendTo, TypeOK, WellFormed, Replies, Integer
  <1>18. CASE Sweep
    BY <1>18, LazyDeleteType DEF Sweep, TypeOK, WellFormed
  <1>19. CASE Tick
    BY <1>19 DEF Tick, TypeOK, WellFormed
  <1>20. CASE UNCHANGED vars
    BY <1>20 DEF vars, TypeOK, WellFormed
  <1>21. \A n \in Deltas : n \in Int \cup {NaN} /\ (IF n = NaN THEN NaN ELSE -n) \in Int \cup {NaN}
    OBVIOUS
  <1>22. CASE Command
    BY <1>22, <1>1, <1>2, <1>3, <1>4, <1>5, <1>6, <1>7, <1>8, <1>9, <1>10, <1>11,
       <1>12, <1>13, <1>14, <1>15, <1>16, <1>17, <1>21
       DEF Command, Incr, Decr, IncrBy, DecrBy
  <1> QED  BY <1>18, <1>19, <1>20, <1>22 DEF Next

(* The state is always well formed.                                        *)
THEOREM TypeCorrect == Spec => []TypeOK
  <1>1. Init => TypeOK
    BY StringsAssumption DEF Init, TypeOK, WellFormed, Replies, NullReply
  <1> QED  BY <1>1, TypeStep, PTL DEF Spec
----------------------------------------------------------------------------
(* The steps that the database operations make, in terms of live keys.     *)

(* An entry that stays, while the clock stands still, stays live.          *)
LEMMA SameEntryStaysLive ==
  ASSUME NEW k \in Live, strings'[k] = strings[k], now' = now
  PROVE  k \in Live'
  BY DEF Live, Stored, Corpses, Expired

(* Lazy deletion leaves the live keys alone.                               *)
LEMMA LazyDeleteSparesLive ==
  ASSUME NEW K, NEW k \in Live, strings' = LazyDelete(K), now' = now
  PROVE  k \in Live'
  <1>1. strings'[k] = strings[k]
    BY DEF LazyDelete, Live, Stored, Corpses
  <1> QED  BY <1>1, SameEntryStaysLive

(* A value that is stored is live, for its deadline is never in the past.  *)
LEMMA WrapValueIsLive ==
  ASSUME WellFormed, NEW k \in Keys, NEW v \in Values, NEW t \in Int \cup {NaN},
         strings'[k] = WrapValue(v, t), now' = now
  PROVE  k \in Live'
  <1>1. WrapValue(v, t) \in Entries
    BY WrapValueType
  <1>2. strings'[k] # NoEntry
    BY <1>1, StringsAssumption DEF Entries
  <1>3. ~(WrapValue(v, t).expiry # Never /\ now >= WrapValue(v, t).expiry)
    BY StringsAssumption DEF WrapValue, WellFormed
  <1> QED  BY <1>2, <1>3 DEF Live, Stored, Corpses, Expired

(* setString, whatever the time to live, leaves every live key live: the   *)
(* other keys keep their entries and the key written starts anew.          *)
LEMMA SetStringKeepsLive ==
  ASSUME WellFormed, NEW j \in Keys, NEW v \in Values, NEW t \in Int \cup {NaN},
         SetString(j, v, t), now' = now, NEW k \in Live
  PROVE  k \in Live'
  <1>1. k \in Keys
    BY DEF Live, Stored
  <1>2. CASE k = j
    BY <1>1, <1>2, WrapValueIsLive DEF SetString, WellFormed
  <1>3. CASE k # j
    BY <1>1, <1>3, SameEntryStaysLive DEF SetString, WellFormed
  <1> QED  BY <1>2, <1>3

(* A command that neither removes nor retimes a live key leaves it live.   *)
LEMMA LiveStep ==
  ASSUME WellFormed, [Next]_vars, NEW k \in Live,
         \A ks \in KeyLists : k \in ArgKeys(ks) => ~Del(ks),
         \A s \in Durations : ~Expire(k, s),
         \A t \in Instants : ~ExpireAt(k, t),
         ~(strings[k].expiry # Never /\ now' >= strings[k].expiry)
  PROVE  k \in Live'
  <1> USE StringsAssumption
  <1>k. k \in Keys /\ 0 \in Int \cup {NaN}
    BY DEF Live, Stored
  <1>1. ASSUME NEW j \in Keys, NEW v \in Values, NEW o \in SetOptions, Set(j, v, o)
        PROVE  k \in Live'
    BY <1>1, TtlMsType, LazyDeleteSparesLive, SetStringKeepsLive DEF Set
  <1>2. ASSUME NEW j \in Keys, Get(j) \/ StrLen(j)
        PROVE  k \in Live'
    BY <1>2, LazyDeleteSparesLive DEF Get, StrLen
  <1>3. ASSUME NEW j \in Keys, NEW v \in Values, GetSet(j, v)
        PROVE  k \in Live'
    BY <1>k, <1>3, SetStringKeepsLive DEF GetSet
  <1>4. ASSUME NEW j \in Keys, NEW s \in Durations, NEW v \in Values, SetEx(j, s, v)
        PROVE  k \in Live'
    <2>1. Seconds(s) \in Int \cup {NaN}
      BY DEF Seconds
    <2> QED  BY <1>4, <2>1, SetStringKeepsLive DEF SetEx
  <1>5. ASSUME NEW j \in Keys, NEW v \in Values, SetNx(j, v)
        PROVE  k \in Live'
    BY <1>k, <1>5, SetStringKeepsLive, SameEntryStaysLive DEF SetNx
  <1>6. ASSUME NEW ks \in KeyLists, Del(ks)
        PROVE  k \in Live'
    BY <1>k, <1>6, SameEntryStaysLive DEF Del
  <1>7. ASSUME NEW ks \in KeyLists, Exists(ks) \/ MGet(ks)
        PROVE  k \in Live'
    BY <1>7, LazyDeleteSparesLive DEF Exists, MGet
  <1>8. ASSUME NEW j \in Keys, NEW s \in Durations, Expire(j, s)
        PROVE  k \in Live'
    <2>1. j # k
      BY <1>8
    <2> QED  BY <1>k, <1>8, <2>1, SameEntryStaysLive DEF Expire, ExpireKey, WellFormed
  <1>9. ASSUME NEW j \in Keys, NEW t \in Instants, ExpireAt(j, t)
        PROVE  k \in Live'
    <2>1. j # k
      BY <1>9
    <2> QED  BY <1>k, <1>9, <2>1, SameEntryStaysLive DEF ExpireAt, WellFormed
  <1>10. ASSUME NEW j \in Keys, Ttl(j) \/ Type(j)
         PROVE  k \in Live'
    BY <1>10, SameEntryStaysLive DEF Ttl, Type
  <1>11. ASSUME NEW j \in Keys, NEW d, Add(j, d)
         PROVE  k \in Live'
    BY <1>k, <1>11, LazyDeleteSparesLive, SetStringKeepsLive DEF Add
  <1>12. ASSUME NEW ks \in KeyLists, NEW vs \in [DOMAIN ks -> Values], MSet(ks, vs)
         PROVE  k \in Live'
    <2>1. CASE k \in ArgKeys(ks)
      <3>1. vs[LastOf(ks, k)] \in Values
        BY <2>1, LastOfType
      <3> QED  BY <1>k, <1>12, <2>1, <3>1, WrapValueIsLive DEF MSet
    <2>2. CASE k \notin ArgKeys(ks)
      BY <1>k, <1>12, <2>2, SameEntryStaysLive DEF MSet
    <2> QED  BY <2>1, <2>2
  <1>13. ASSUME NEW P \in SUBSET Keys, KeysByPattern(P)
         PROVE  k \in Live'
    BY <1>13, SameEntryStaysLive DEF KeysByPattern
  <1>14. ASSUME NEW j \in Keys, NEW v \in Values, AppendTo(j, v)
         PROVE  k \in Live'
    BY <1>k, <1>14, SetStringKeepsLive DEF AppendTo
  <1>15. CASE Sweep
    BY <1>15, LazyDeleteSparesLive DEF Sweep
  <1>16. CASE Tick
    BY <1>16 DEF Tick, Live, Stored, Corpses, Expired
  <1>17. CASE UNCHANGED vars
    BY <1>17, SameEntryStaysLive DEF vars
  <1>18. CASE Command
    BY <1>18, <1>1, <1>2, <1>3, <1>4, <1>5, <1>6, <1>7, <1>8, <1>9, <1>10, <1>11,
       <1>12, <1>13, <1>14 DEF Command, Incr, Decr, IncrBy, DecrBy
  <1> QED  BY <1>15, <1>16, <1>17, <1>18 DEF Next

(* No live key is lost to a read, to a write of another key or to the      *)
(* sweep.                                                                  *)
THEOREM LiveKeysAreSafe == Spec => DisappearsOnTimeOrOnDemand
  <1>1. TypeOK /\ [Next]_vars
        => [\A k \in Live \ Live' :
              \/ strings[k].expiry # Never /\ now' >= strings[k].expiry
              \/ \E ks \in KeyLists : k \in ArgKeys(ks) /\ Del(ks)
              \/ \E s \in Durations : Expire(k, s)
              \/ \E t \in Instants : ExpireAt(k, t)]_vars
    BY LiveStep DEF TypeOK
  <1> QED  BY <1>1, TypeCorrect, PTL DEF Spec, DisappearsOnTimeOrOnDemand
----------------------------------------------------------------------------
(* The abstract map *)

(* A command on values sees what getString answers.                        *)
LEMMA VisibleIsGetString ==
  ASSUME NEW k \in Keys
  PROVE  Promise!Visible(k) = GetString(k)
  BY DEF Promise!Visible, ValuesHeld, Corpses, Stored, GetString, UnwrapEntry, Expired

(* A key holds a value in the abstraction when it is in the map (Map.has). *)
LEMMA HeldIsStored ==
  ASSUME WellFormed
  PROVE  Promise!Held = Stored
  BY StringsAssumption DEF Promise!Held, ValuesHeld, Stored, WellFormed, Entries

(* The instance counts with its own copy of Cardinality.                   *)
LEMMA SameCardinality ==
  ASSUME NEW S
  PROVE  Promise!Cardinality(S) = Cardinality(S)
  BY DEF Promise!Cardinality, Cardinality

(* A step that leaves the map and the clock alone leaves the abstraction   *)
(* alone (TTL, TYPE, KEYS, and the refusals of SETNX and EXPIRE).          *)
LEMMA UnchangedMap ==
  ASSUME UNCHANGED <<strings, now>>
  PROVE  UNCHANGED <<ValuesHeld, Corpses>>
  BY DEF ValuesHeld, Corpses, Stored, Expired

(* Lazy deletion collects the corpses among the keys looked at.            *)
LEMMA LazyDeleteForgets ==
  ASSUME NEW K, strings' = LazyDelete(K), now' = now
  PROVE  Promise!Forget(K)
  <1>1. \A k \in Keys : strings'[k] = IF k \in Corpses \cap K THEN NoEntry ELSE strings[k]
    BY DEF LazyDelete, Corpses
  <1>2. Corpses' = Corpses \ K
    BY <1>1 DEF Corpses, Expired
  <1>3. ValuesHeld' = [k \in Keys |-> IF k \in Corpses \cap K THEN Nil ELSE ValuesHeld[k]]
    BY <1>1 DEF ValuesHeld, Stored
  <1> QED  BY <1>2, <1>3 DEF Promise!Forget

(* Storing values in some keys makes exactly these keys hold them, live.   *)
LEMMA StoringStores ==
  ASSUME WellFormed, NEW K \in SUBSET Keys, NEW f \in [K -> Values], now' = now,
         NEW t \in Int \cup {NaN},
         strings' = [k \in Keys |-> IF k \in K THEN WrapValue(f[k], t) ELSE strings[k]]
  PROVE  Promise!Store(K, f)
  <1>1. ASSUME NEW k \in K
        PROVE  k \in Live' /\ ValuesHeld'[k] = f[k]
    <2>1. k \in Live'
      BY WrapValueIsLive
    <2>2. strings'[k].value = f[k]
      BY DEF WrapValue
    <2> QED  BY <2>1, <2>2 DEF ValuesHeld, Live
  <1>2. \A k \in Keys \ K : strings'[k] = strings[k]
    OBVIOUS
  <1>3. Corpses' = Corpses \ K
    BY <1>1, <1>2 DEF Live, Corpses, Expired
  <1>4. ValuesHeld' = [k \in Keys |-> IF k \in K THEN f[k] ELSE ValuesHeld[k]]
    BY <1>1, <1>2 DEF ValuesHeld, Stored
  <1> QED  BY <1>3, <1>4 DEF Promise!Store

(* setString writes one key of the abstraction.                            *)
LEMMA SetStringWrites ==
  ASSUME WellFormed, NEW k \in Keys, NEW v \in Values, NEW t \in Int \cup {NaN},
         SetString(k, v, t), now' = now
  PROVE  Promise!Write(k, v)
  <1> DEFINE f == [x \in {k} |-> v]
  <1>1. strings' = [x \in Keys |-> IF x \in {k} THEN WrapValue(f[x], t) ELSE strings[x]]
    BY DEF SetString, WellFormed
  <1>2. f \in [{k} -> Values] /\ {k} \in SUBSET Keys
    OBVIOUS
  <1> HIDE DEF f
  <1>3. Promise!Store({k}, f)
    BY <1>1, <1>2, StoringStores
  <1> QED  BY <1>3 DEF Promise!Write, f

(* EXPIRE and EXPIREAT move the deadline of an entry and keep its value.   *)
LEMMA RetimingRetimes ==
  ASSUME WellFormed, NEW k \in Stored, NEW e \in Int, now' = now, reply' = Integer(1),
         strings' = [strings EXCEPT ![k].expiry = e]
  PROVE  Promise!Retime(k)
  <1>1. k \in Keys /\ strings[k] \in Entries
    BY DEF Stored, WellFormed
  <1>2. strings'[k] = [value |-> strings[k].value, expiry |-> e]
    BY <1>1 DEF WellFormed, Entries
  <1>3. \A x \in Keys \ {k} : strings'[x] = strings[x]
    BY <1>1 DEF WellFormed
  <1>4. strings'[k] # NoEntry
    BY <1>1, <1>2, StringsAssumption DEF Entries
  <1>5. ValuesHeld' = ValuesHeld
    BY <1>1, <1>2, <1>3, <1>4 DEF ValuesHeld, Stored
  <1>6. Corpses' \in {Corpses \cup {k}, Corpses \ {k}}
    <2>1. \A x \in Keys \ {k} : x \in Corpses' <=> x \in Corpses
      BY <1>3 DEF Corpses, Expired
    <2>2. Corpses \subseteq Keys /\ Corpses' \subseteq Keys
      BY DEF Corpses
    <2>3. CASE k \in Corpses'
      BY <1>1, <2>1, <2>2, <2>3
    <2>4. CASE k \notin Corpses'
      BY <1>1, <2>1, <2>2, <2>4
    <2> QED  BY <2>3, <2>4
  <1>7. k \in Promise!Held
    BY HeldIsStored
  <1> QED  BY <1>5, <1>6, <1>7 DEF Promise!Retime, Promise!Integer, Integer
----------------------------------------------------------------------------
(* Each command of Strings does what ExpiringMap says of it. *)

(* SET that is not refused, GETSET and SETEX store a value and answer.     *)
LEMMA StoreRefines ==
  ASSUME WellFormed, NEW k \in Keys, NEW v \in Values, NEW t \in Int \cup {NaN},
         NEW get \in BOOLEAN, SetString(k, v, t), now' = now,
         reply' = IF get THEN BulkOrNull(GetString(k)) ELSE OK
  PROVE  Promise!Put(k, v, get)
  <1>1. Promise!Write(k, v)
    BY SetStringWrites
  <1>2. reply' = IF get THEN Promise!BulkOrNull(Promise!Visible(k)) ELSE Promise!OK
    BY VisibleIsGetString DEF Promise!BulkOrNull, BulkOrNull, Promise!Bulk, Bulk,
       Promise!NullReply, NullReply, Promise!OK, OK, Promise!Simple, Simple
  <1> QED  BY <1>1, <1>2 DEF Promise!Put

(* SET, refused or not, whatever its options and its time to live.         *)
LEMMA SetRefines ==
  ASSUME WellFormed, NEW k \in Keys, NEW v \in Values, NEW o \in SetOptions, Set(k, v, o)
  PROVE  Promise!Set(k, v, o.nx, o.xx, o.get)
  <1>2. Promise!Blocked(k, o.nx, o.xx) <=> SetRefused(k, o)
    BY VisibleIsGetString DEF Promise!Blocked, SetRefused, ExistsKey
  <1>3. CASE SetRefused(k, o) /\ strings' = LazyDelete({k}) /\ reply' = NullReply
    <2>1. Promise!Forget({k})
      BY <1>3, LazyDeleteForgets DEF Set
    <2> QED  BY <1>2, <1>3, <2>1 DEF Promise!Set, Promise!NullReply, NullReply
  <1>4. CASE /\ ~SetRefused(k, o)
             /\ SetString(k, v, TtlMs(o))
             /\ reply' = IF o.get THEN BulkOrNull(GetString(k)) ELSE OK
    <2>1. TtlMs(o) \in Int \cup {NaN}
      BY TtlMsType
    <2>2. o.get \in BOOLEAN /\ now' = now
      BY StringsAssumption DEF Set
    <2>3. Promise!Put(k, v, o.get)
      BY ONLY <1>4, <2>1, <2>2, WellFormed, StoreRefines
    <2> QED  BY <1>2, <1>4, <2>3 DEF Promise!Set
  <1> QED  BY <1>3, <1>4 DEF Set

(* SETNX: on a corpse it writes, as on an absent key.                      *)
LEMMA SetNxRefines ==
  ASSUME WellFormed, NEW k \in Keys, NEW v \in Values, SetNx(k, v)
  PROVE  Promise!SetNx(k, v)
  <1>1. CASE ExistsKey(k) /\ reply' = Integer(0) /\ UNCHANGED strings
    <2>1. strings = LazyDelete({k})
      BY <1>1, StringsAssumption
         DEF ExistsKey, GetString, UnwrapEntry, LazyDelete, WellFormed
    <2>2. Promise!Forget({k})
      BY <1>1, <2>1, LazyDeleteForgets DEF SetNx
    <2> QED  BY <1>1, <2>2, VisibleIsGetString
             DEF Promise!SetNx, ExistsKey, Promise!Integer, Integer
  <1>2. CASE ~ExistsKey(k) /\ SetString(k, v, 0) /\ reply' = Integer(1)
    <2>1. Promise!Write(k, v)
      BY <1>2, SetStringWrites DEF SetNx
    <2> QED  BY <1>2, <2>1, VisibleIsGetString
             DEF Promise!SetNx, ExistsKey, Promise!Integer, Integer
  <1> QED  BY <1>1, <1>2 DEF SetNx

(* INCR, DECR, INCRBY and DECRBY: a corpse counts as zero.                 *)
LEMMA AddRefines ==
  ASSUME WellFormed, NEW k \in Keys, NEW d \in Int \cup {NaN}, Add(k, d)
  PROVE  Promise!Add(k, d)
  <1> DEFINE old == IF Promise!Visible(k) = Nil THEN 0 ELSE ParseInt(Promise!Visible(k))
  <1>1. old = OldNumber(k)
    BY VisibleIsGetString DEF OldNumber, ExistsKey
  <1>2. CASE NaN \in {OldNumber(k), d} /\ strings' = LazyDelete({k}) /\ reply' = Error
    <2>1. Promise!Forget({k})
      BY <1>2, LazyDeleteForgets DEF Add
    <2> QED  BY <1>1, <1>2, <2>1 DEF Promise!Add, Promise!Error, Error
  <1>3. CASE /\ NaN \notin {OldNumber(k), d}
             /\ OldNumber(k) + d \in Counters
             /\ SetString(k, Str(OldNumber(k) + d), 0)
             /\ reply' = Integer(OldNumber(k) + d)
    <2>1. Promise!Write(k, Str(OldNumber(k) + d))
      <3> DEFINE new == Str(OldNumber(k) + d)
      <3>1. new \in Values /\ SetString(k, new, 0) /\ now' = now
        BY <1>3, StringsAssumption DEF Add
      <3> HIDE DEF new
      <3>2. Promise!Write(k, new)
        BY <3>1, SetStringWrites
      <3> QED  BY <3>2 DEF new
    <2> QED  BY <1>1, <1>3, <2>1 DEF Promise!Add, Promise!Integer, Integer
  <1> QED  BY <1>2, <1>3 DEF Add

(* APPEND: a corpse counts as the empty string.                            *)
LEMMA AppendRefines ==
  ASSUME WellFormed, NEW k \in Keys, NEW v \in Values, AppendTo(k, v)
  PROVE  Promise!AppendTo(k, v)
  <1> DEFINE new == Concat(IF ExistsKey(k) THEN GetString(k) ELSE EmptyString, v)
  <1>1. new \in Values /\ SetString(k, new, 0) /\ reply' = Integer(Length(new)) /\ now' = now
    BY DEF AppendTo
  <1>2. Promise!Write(k, new)
    BY <1>1, SetStringWrites
  <1>3. new = Concat(IF Promise!Visible(k) = Nil THEN EmptyString ELSE Promise!Visible(k), v)
    BY VisibleIsGetString DEF ExistsKey
  <1> HIDE DEF new
  <1> QED  BY <1>1, <1>2, <1>3 DEF Promise!AppendTo, Promise!Integer, Integer

(* MSET: the last of the values given to a key is the one kept.            *)
LEMMA MSetRefines ==
  ASSUME WellFormed, NEW ks \in KeyLists, NEW vs \in [DOMAIN ks -> Values], MSet(ks, vs)
  PROVE  Promise!MSet(ks, vs)
  <1> DEFINE f == [k \in ArgKeys(ks) |-> vs[LastOf(ks, k)]]
  <1>1. f \in [ArgKeys(ks) -> Values] /\ ArgKeys(ks) \in SUBSET Keys
    BY LastOfType, KeyListType
  <1>2. \A i \in DOMAIN ks : (\A j \in DOMAIN ks : j > i => ks[j] # ks[i]) => f[ks[i]] = vs[i]
    <2> SUFFICES ASSUME NEW i \in DOMAIN ks, \A j \in DOMAIN ks : j > i => ks[j] # ks[i]
                 PROVE  f[ks[i]] = vs[i]
      OBVIOUS
    <2>1. ks[i] \in ArgKeys(ks)
      BY DEF ArgKeys
    <2>2. LastOf(ks, ks[i]) = i
      <3>1. PICK n \in Nat : ks \in [1 .. n -> Keys]
        BY KeyListType
      <3>2. LastOf(ks, ks[i]) \in 1 .. n /\ i \in 1 .. n
        BY <2>1, <3>1, LastOfType
      <3> QED  BY <2>1, <3>1, <3>2, LastOfType
    <2> QED  BY <2>1, <2>2
  <1>3. strings' = [k \in Keys |-> IF k \in ArgKeys(ks) THEN WrapValue(f[k], 0) ELSE strings[k]]
    BY DEF MSet
  <1> HIDE DEF f
  <1>4. Promise!Store(ArgKeys(ks), f)
    BY <1>1, <1>3, StoringStores DEF MSet
  <1> QED  BY <1>1, <1>2, <1>4
           DEF MSet, Promise!MSet, Promise!ArgKeys, ArgKeys, Promise!OK, OK, Promise!Simple, Simple

(* The commands that look at many keys.                                    *)
LEMMA LookupRefines ==
  ASSUME WellFormed, NEW ks \in KeyLists, Exists(ks) \/ MGet(ks)
  PROVE  (Exists(ks) => Promise!Exists(ks)) /\ (MGet(ks) => Promise!MGet(ks))
  <1>1. Promise!Forget(ArgKeys(ks))
    BY LazyDeleteForgets DEF Exists, MGet
  <1>2. \A i \in DOMAIN ks : ks[i] \in Keys
    BY KeyListType DEF ArgKeys
  <1>3. ASSUME Exists(ks)
        PROVE  Promise!Exists(ks)
    <2>1. {i \in DOMAIN ks : Promise!Visible(ks[i]) # Nil} = {i \in DOMAIN ks : ExistsKey(ks[i])}
      BY <1>2, VisibleIsGetString DEF ExistsKey
    <2> QED  BY <1>1, <1>3, <2>1, SameCardinality
             DEF Exists, Promise!Exists, Promise!ArgKeys, ArgKeys, Promise!Integer, Integer
  <1>4. ASSUME MGet(ks)
        PROVE  Promise!MGet(ks)
    <2>1. [i \in DOMAIN ks |-> Promise!Visible(ks[i])] = [i \in DOMAIN ks |-> GetString(ks[i])]
      BY <1>2, VisibleIsGetString
    <2> QED  BY <1>1, <1>4, <2>1
             DEF MGet, Promise!MGet, Promise!ArgKeys, ArgKeys, Promise!Array, Array
  <1> QED  BY <1>3, <1>4

(* GET and STRLEN answer for a corpse as for an absent key, and collect    *)
(* it.                                                                     *)
LEMMA GetRefines ==
  ASSUME WellFormed, NEW k \in Keys, Get(k) \/ StrLen(k)
  PROVE  (Get(k) => Promise!Get(k)) /\ (StrLen(k) => Promise!StrLen(k))
  <1>1. Promise!Forget({k})
    BY LazyDeleteForgets DEF Get, StrLen
  <1>2. Get(k) => Promise!Get(k)
    BY <1>1, VisibleIsGetString
       DEF Get, Promise!Get, Promise!BulkOrNull, BulkOrNull, Promise!Bulk, Bulk,
           Promise!NullReply, NullReply
  <1>3. StrLen(k) => Promise!StrLen(k)
    BY <1>1, VisibleIsGetString
       DEF StrLen, ExistsKey, Promise!StrLen, Promise!Integer, Integer
  <1> QED  BY <1>2, <1>3

(* DEL, which counts corpses too.                                          *)
LEMMA DelRefines ==
  ASSUME WellFormed, NEW ks \in KeyLists, Del(ks)
  PROVE  Promise!Del(ks)
  <1>1. \A k \in Keys : strings'[k] = IF k \in ArgKeys(ks) THEN NoEntry ELSE strings[k]
    BY DEF Del
  <1>2. Corpses' = Corpses \ ArgKeys(ks)
    BY <1>1 DEF Del, Corpses, Expired
  <1>3. ValuesHeld' = [k \in Keys |-> IF k \in ArgKeys(ks) THEN Nil ELSE ValuesHeld[k]]
    BY <1>1 DEF ValuesHeld, Stored
  <1> QED  BY <1>2, <1>3, HeldIsStored, SameCardinality
           DEF Del, Promise!Del, Promise!ArgKeys, ArgKeys, Promise!Integer, Integer

(* EXPIRE and EXPIREAT, on a live key and on a corpse.                     *)
LEMMA RetimeRefines ==
  ASSUME WellFormed, NEW k \in Keys,
         \/ \E s \in Durations : Expire(k, s)
         \/ \E t \in Instants : ExpireAt(k, t)
  PROVE  Promise!Retime(k)
  <1>1. now' = now /\ now \in Int
    BY StringsAssumption DEF Expire, ExpireAt, WellFormed
  <1>2. \/ k \notin Stored /\ reply' = Integer(0) /\ UNCHANGED strings
        \/ /\ k \in Stored /\ reply' = Integer(1)
           /\ \E e \in Int : strings' = [strings EXCEPT ![k].expiry = e]
    BY <1>1, StringsAssumption DEF Expire, ExpireAt, ExpireKey, Seconds, Never
  <1>3. ASSUME k \notin Stored, reply' = Integer(0), UNCHANGED strings
        PROVE  Promise!Retime(k)
    BY <1>1, <1>3, HeldIsStored, UnchangedMap DEF Promise!Retime, Promise!Integer, Integer
  <1>4. ASSUME k \in Stored, reply' = Integer(1),
               \E e \in Int : strings' = [strings EXCEPT ![k].expiry = e]
        PROVE  Promise!Retime(k)
    BY <1>1, <1>4, RetimingRetimes
  <1> QED  BY <1>2, <1>3, <1>4

(* TTL of a live key is its time left, rounded up, or -1: never -2.        *)
LEMMA TtlRefines ==
  ASSUME WellFormed, NEW k \in Keys, Ttl(k)
  PROVE  Promise!Ttl(k)
  <1>1. reply'.type = "integer"
    BY DEF Ttl, Integer
  <1>2. k \notin Stored => reply' = Integer(-2)
    BY DEF Ttl
  <1>3. ASSUME Promise!Visible(k) # Nil
        PROVE  reply' # Integer(-2)
    <2>1. k \in Stored /\ strings[k] \in Entries /\ ~Expired(strings[k])
      BY <1>3, VisibleIsGetString DEF GetString, UnwrapEntry, Stored, WellFormed
    <2>2. CASE strings[k].expiry = Never
      BY <2>1, <2>2 DEF Ttl, Integer
    <2>3. CASE strings[k].expiry # Never
      <3>1. now \in Int /\ Second \in Nat \ {0} /\ strings[k].expiry \in Int
        BY <2>1, StringsAssumption DEF WellFormed, Entries
      <3>2. strings[k].expiry - now > 0
        BY <2>1, <2>3, <3>1 DEF Expired, Stored
      <3>3. CeilDiv(strings[k].expiry - now, Second) >= 0
        BY <3>1, <3>2, Z3 DEF CeilDiv
      <3>4. TtlOf(strings[k]) >= 0 /\ TtlOf(strings[k]) # -2
        BY <3>1, <3>3 DEF TtlOf, CeilDiv
      <3>5. reply' = Integer(TtlOf(strings[k]))
        BY <2>1, <2>3 DEF Ttl
      <3> QED  BY <3>4, <3>5 DEF Integer
    <2> QED  BY <2>2, <2>3
  <1> QED  BY <1>1, <1>2, <1>3, HeldIsStored, UnchangedMap
           DEF Ttl, Promise!Ttl, Promise!Integer, Integer

(* TYPE and KEYS, which notice corpses.                                    *)
LEMMA InspectRefines ==
  ASSUME WellFormed
  PROVE  /\ \A k \in Keys : Type(k) => Promise!Type(k)
         /\ \A P \in SUBSET Keys : KeysByPattern(P) => Promise!KeysMatching(P)
  BY UnchangedMap, HeldIsStored
     DEF Type, Promise!Type, Promise!Simple, Simple,
         KeysByPattern, Promise!KeysMatching, Promise!Unordered, Unordered

(* As the clock moves, live keys decay.                                    *)
LEMMA TickDecays ==
  ASSUME WellFormed, Tick
  PROVE  Promise!Decay
  <1>1. now' > now /\ now \in Int /\ strings' = strings
    BY StringsAssumption DEF Tick, WellFormed
  <1>2. ValuesHeld' = ValuesHeld
    BY <1>1 DEF ValuesHeld, Stored
  <1>3. ASSUME NEW k \in Keys, Expired(strings[k])
        PROVE  Expired(strings[k])'
    <2>1. strings[k] # NoEntry /\ strings[k].expiry \in Int
      BY <1>3 DEF Expired, WellFormed, Entries
    <2>2. now' \in Int
      BY <1>1 DEF Tick
    <2> QED  BY <1>1, <1>3, <2>1, <2>2 DEF Expired
  <1>4. Corpses \subseteq Corpses' /\ Corpses' \subseteq Stored
    BY <1>1, <1>3 DEF Corpses, Stored, Expired
  <1> QED  BY <1>2, <1>4, HeldIsStored DEF Tick, Promise!Decay

(* A sweep collects every corpse.                                          *)
LEMMA SweepCollects ==
  ASSUME WellFormed, Sweep
  PROVE  Promise!Collect
  <1>1. Promise!Forget(Keys) /\ UNCHANGED <<request, reply>>
    BY LazyDeleteForgets DEF Sweep
  <1>2. Promise!Forget(Corpses)
    BY <1>1 DEF Promise!Forget, Corpses
  <1> QED  BY <1>1, <1>2 DEF Promise!Collect
----------------------------------------------------------------------------
(* Every step of the server is a step of the abstraction or leaves it      *)
(* alone.                                                                  *)
LEMMA StepRefines ==
  ASSUME WellFormed, [Next]_vars
  PROVE  [Promise!Next]_(Promise!vars)
  <1>1. ASSUME NEW k \in Keys, NEW v \in Values, NEW s \in Durations, SetEx(k, s, v)
        PROVE  Promise!Put(k, v, FALSE)
    <2>1. Seconds(s) \in Int \cup {NaN}
      BY StringsAssumption DEF Seconds
    <2>2. /\ SetString(k, v, Seconds(s)) /\ now' = now
          /\ reply' = IF FALSE THEN BulkOrNull(GetString(k)) ELSE OK
      BY <1>1 DEF SetEx
    <2> QED  BY <2>1, <2>2, StoreRefines
  <1>2. ASSUME NEW k \in Keys, NEW v \in Values, GetSet(k, v)
        PROVE  Promise!Put(k, v, TRUE)
    <2>1. 0 \in Int \cup {NaN} /\ TRUE \in BOOLEAN
      OBVIOUS
    <2>2. /\ SetString(k, v, 0) /\ now' = now
          /\ reply' = BulkOrNull(GetString(k))
      BY <1>2 DEF GetSet
    <2>3. reply' = IF TRUE THEN BulkOrNull(GetString(k)) ELSE OK
      BY <2>2
    <2> QED  BY ONLY <2>1, <2>2, <2>3, StoreRefines, WellFormed
  <1>3. ASSUME NEW k \in Keys
        PROVE  /\ Incr(k) => Promise!Add(k, 1)
               /\ Decr(k) => Promise!Add(k, -1)
               /\ \A n \in Deltas : /\ IncrBy(k, n) => Promise!Add(k, n)
                                    /\ DecrBy(k, n) => Promise!Add(k, Promise!Negated(n))
    <2>1. ASSUME NEW n \in Deltas
          PROVE  n \in Int \cup {NaN} /\ (IF n = NaN THEN NaN ELSE -n) \in Int \cup {NaN}
      BY <2>1, StringsAssumption
    <2>2. 1 \in Int \cup {NaN} /\ -1 \in Int \cup {NaN}
      OBVIOUS
    <2> QED  BY <2>1, <2>2, AddRefines DEF Incr, Decr, IncrBy, DecrBy, Promise!Negated
  <1>4. CASE Command
    <2>1. CASE \E k \in Keys, v \in Values, o \in SetOptions :
                 request' = <<"SET", k, v, o.nx, o.xx, o.get>> /\ Set(k, v, o)
      <3>1. \A o \in SetOptions : o.nx \in BOOLEAN /\ o.xx \in BOOLEAN /\ o.get \in BOOLEAN
        BY StringsAssumption
      <3> QED  BY <2>1, <3>1, SetRefines DEF Promise!Next, Promise!ValueCommand
    <2>2. CASE \/ \E k \in Keys, s \in Durations, v \in Values :
                    request' = <<"SETEX", k, v>> /\ SetEx(k, s, v)
               \/ \E k \in Keys, v \in Values :
                    \/ request' = <<"GETSET", k, v>> /\ GetSet(k, v)
                    \/ request' = <<"SETNX", k, v>> /\ SetNx(k, v)
                    \/ request' = <<"APPEND", k, v>> /\ AppendTo(k, v)
      BY <1>1, <1>2, <2>2, SetNxRefines, AppendRefines DEF Promise!Next, Promise!ValueCommand
    <2>3. CASE \E k \in Keys :
                 \/ request' = <<"GET", k>> /\ Get(k)
                 \/ request' = <<"STRLEN", k>> /\ StrLen(k)
                 \/ request' = <<"INCR", k>> /\ Incr(k)
                 \/ request' = <<"DECR", k>> /\ Decr(k)
                 \/ \E n \in Deltas :
                      \/ request' = <<"INCRBY", k, n>> /\ IncrBy(k, n)
                      \/ request' = <<"DECRBY", k, n>> /\ DecrBy(k, n)
      BY <1>3, <2>3, GetRefines DEF Promise!Next, Promise!ValueCommand
    <2>4. CASE \E ks \in KeyLists :
                 \/ request' = <<"MGET", ks>> /\ MGet(ks)
                 \/ request' = <<"EXISTS", ks>> /\ Exists(ks)
                 \/ \E vs \in [DOMAIN ks -> Values] : request' = <<"MSET", ks, vs>> /\ MSet(ks, vs)
      BY <2>4, LookupRefines, MSetRefines
         DEF Promise!Next, Promise!ValueCommand, Promise!KeyLists, KeyLists
    <2>5. CASE \/ \E ks \in KeyLists : request' = <<"DEL", ks>> /\ Del(ks)
               \/ \E k \in Keys : request' = <<"TTL", k>> /\ Ttl(k)
               \/ \E k \in Keys : request' = <<"TYPE", k>> /\ Type(k)
               \/ \E P \in SUBSET Keys : request' = <<"KEYS", P>> /\ KeysByPattern(P)
      BY <2>5, DelRefines, TtlRefines, InspectRefines
         DEF Promise!Next, Promise!KeyspaceCommand, Promise!KeyLists, KeyLists
    <2>6. CASE \E k \in Keys :
                 \/ \E s \in Durations : request' = <<"EXPIRE", k>> /\ Expire(k, s)
                 \/ \E t \in Instants : request' = <<"EXPIREAT", k>> /\ ExpireAt(k, t)
      BY <2>6, RetimeRefines DEF Promise!Next, Promise!KeyspaceCommand
    <2> QED  BY <1>4, <2>1, <2>2, <2>3, <2>4, <2>5, <2>6 DEF Command
  <1>5. CASE Sweep \/ Tick
    BY <1>5, TickDecays, SweepCollects DEF Promise!Next
  <1>6. CASE UNCHANGED vars
    BY <1>6, UnchangedMap DEF vars, Promise!vars
  <1> QED  BY <1>4, <1>5, <1>6 DEF Next

(* Clients of the string commands see a map in which an expired key is     *)
(* absent; what holds a value, and for how long, is hidden.                *)
THEOREM StringsKeepPromise == Spec => KeepsPromise
  <1>1. Init => Promise!Init
    BY StringsAssumption
       DEF Init, Promise!Init, ValuesHeld, Corpses, Stored, Expired,
           Promise!NullReply, NullReply
  <1>2. TypeOK => WellFormed
    BY DEF TypeOK
  <1> QED  BY <1>1, <1>2, TypeCorrect, StepRefines, PTL DEF Spec, KeepsPromise, Promise!Spec
----------------------------------------------------------------------------
(* AdapterStrings.  The maps of Strings and of AdapterStrings are the      *)
(* same, so the lemmas above apply to the methods that do what a command   *)
(* does; the other methods are proved here.  Replies play no part in the   *)
(* invariant, for a counter may answer NaN.                                *)

(* Both abstract maps have the same keys, corpses and ways to change them. *)
LEMMA SameMaps ==
  /\ AdapterPromise!KeyLists = KeyLists /\ AdapterPromise!Held = Promise!Held
  /\ \A k : AdapterPromise!Visible(k) = Promise!Visible(k)
  /\ \A K : AdapterPromise!Forget(K) <=> Promise!Forget(K)
  /\ \A k, v : AdapterPromise!Write(k, v) <=> Promise!Write(k, v)
  BY DEF AdapterPromise!KeyLists, KeyLists, AdapterPromise!Held, Promise!Held,
     AdapterPromise!Visible, Promise!Visible, AdapterPromise!Forget, Promise!Forget,
     AdapterPromise!Write, Promise!Write, AdapterPromise!Store, Promise!Store

LEMMA SameReplies ==
  /\ \A n : AdapterPromise!Integer(n) = Integer(n)
  /\ \A v : AdapterPromise!Bulk(v) = Bulk(v)
  /\ AdapterPromise!OK = OK /\ AdapterPromise!Error = Error
  BY DEF AdapterPromise!Integer, Integer, AdapterPromise!Bulk, Bulk, AdapterPromise!OK, OK,
     AdapterPromise!Simple, Simple, AdapterPromise!Error, Error
----------------------------------------------------------------------------
(* The methods that do what a command of the server does. *)

LEMMA SameReads ==
  ASSUME NEW k
  PROVE  /\ Promise!Get(k) => AdapterPromise!Get(k)
         /\ Promise!StrLen(k) => AdapterPromise!StrLen(k)
         /\ Promise!Type(k) => AdapterPromise!Type(k)
         /\ Promise!Retime(k) => AdapterPromise!Retime(k)
         /\ \A ks : Promise!MGet(ks) => AdapterPromise!MGet(ks)
         /\ \A ks : Promise!Del(ks) => AdapterPromise!Del(ks)
         /\ \A P : Promise!KeysMatching(P) => AdapterPromise!KeysMatching(P)
  <1>1. Promise!Get(k) => AdapterPromise!Get(k)
    BY SameMaps DEF Promise!Get, AdapterPromise!Get, Promise!BulkOrNull, AdapterPromise!BulkOrNull,
       Promise!Bulk, AdapterPromise!Bulk, Promise!NullReply, AdapterPromise!NullReply
  <1>2. Promise!StrLen(k) => AdapterPromise!StrLen(k)
    BY SameMaps DEF Promise!StrLen, AdapterPromise!StrLen, Promise!Integer, AdapterPromise!Integer
  <1>3. Promise!Type(k) => AdapterPromise!Type(k)
    BY SameMaps DEF Promise!Type, AdapterPromise!Type, Promise!Simple, AdapterPromise!Simple
  <1>4. Promise!Retime(k) => AdapterPromise!Retime(k)
    BY SameMaps DEF Promise!Retime, AdapterPromise!Retime, Promise!Integer, AdapterPromise!Integer
  <1>5. ASSUME NEW ks, Promise!MGet(ks)
        PROVE  AdapterPromise!MGet(ks)
    BY <1>5, SameMaps DEF Promise!MGet, AdapterPromise!MGet, Promise!Array, AdapterPromise!Array,
       Promise!ArgKeys, AdapterPromise!ArgKeys
  <1>6. ASSUME NEW ks, Promise!Del(ks)
        PROVE  AdapterPromise!Del(ks)
    BY <1>6, SameMaps DEF Promise!Del, AdapterPromise!Del, Promise!Integer, AdapterPromise!Integer,
       Promise!ArgKeys, AdapterPromise!ArgKeys, Promise!Cardinality, AdapterPromise!Cardinality
  <1>7. ASSUME NEW P, Promise!KeysMatching(P)
        PROVE  AdapterPromise!KeysMatching(P)
    BY <1>7, SameMaps DEF Promise!KeysMatching, AdapterPromise!KeysMatching,
       Promise!Unordered, AdapterPromise!Unordered
  <1> QED  BY <1>1, <1>2, <1>3, <1>4, <1>5, <1>6, <1>7

LEMMA SameWrites ==
  ASSUME NEW k, NEW v
  PROVE  /\ Promise!AppendTo(k, v) => AdapterPromise!AppendTo(k, v)
         /\ Promise!Put(k, v, TRUE) => AdapterPromise!Put(k, v, TRUE)
         /\ Promise!Put(k, v, FALSE) => AdapterPromise!Put(k, v, FALSE)
         /\ \A ks, vs : Promise!MSet(ks, vs) => AdapterPromise!MSet(ks, vs)
  <1>1. Promise!AppendTo(k, v) => AdapterPromise!AppendTo(k, v)
    BY SameMaps DEF Promise!AppendTo, AdapterPromise!AppendTo, Promise!Integer, AdapterPromise!Integer
  <1>2. ASSUME NEW get, Promise!Put(k, v, get)
        PROVE  AdapterPromise!Put(k, v, get)
    BY <1>2, SameMaps DEF Promise!Put, AdapterPromise!Put, Promise!BulkOrNull, AdapterPromise!BulkOrNull,
       Promise!Bulk, AdapterPromise!Bulk, Promise!NullReply, AdapterPromise!NullReply,
       Promise!OK, AdapterPromise!OK, Promise!Simple, AdapterPromise!Simple
  <1>3. ASSUME NEW ks, NEW vs, Promise!MSet(ks, vs)
        PROVE  AdapterPromise!MSet(ks, vs)
    BY <1>3 DEF Promise!MSet, AdapterPromise!MSet, Promise!Store, AdapterPromise!Store,
       Promise!ArgKeys, AdapterPromise!ArgKeys, Promise!OK, AdapterPromise!OK,
       Promise!Simple, AdapterPromise!Simple
  <1> QED  BY <1>1, <1>2, <1>3
----------------------------------------------------------------------------
(* The methods that differ. *)

(* incr, decr, incrBy and decrBy: a text that is no number counts as 0.    *)
LEMMA CountRefines ==
  ASSUME WellFormed, NEW k \in Keys, NEW d \in Int \cup {NaN}, Count(k, d)
  PROVE  AdapterPromise!Count(k, d) /\ WellFormed'
  <1> DEFINE old == OrZero(OldNumber(k))
  <1>1. old \in Int /\ NaN \notin Int
    BY OldNumberType, StringsAssumption DEF OrZero
  <1>2. old = LET seen == IF AdapterPromise!Visible(k) = Nil THEN NaN ELSE ParseInt(AdapterPromise!Visible(k))
              IN  IF seen = NaN THEN 0 ELSE seen
    BY SameMaps, VisibleIsGetString DEF OrZero, OldNumber, ExistsKey
  <1> HIDE DEF old
  <1>3. /\ Plus(old, d) \in Counters \cup {NaN} /\ now' = now
        /\ SetString(k, IF Plus(old, d) = NaN THEN NaNText ELSE Str(Plus(old, d)), 0)
        /\ reply' = Integer(Plus(old, d))
    BY DEF Count, old
  <1>4. Plus(old, d) = NaN <=> d = NaN
    BY <1>1 DEF Plus
  <1> DEFINE text == IF Plus(old, d) = NaN THEN NaNText ELSE Str(Plus(old, d))
  <1>5. text \in Values
    BY <1>3, StringsAssumption, AdapterStringsAssumption
  <1> HIDE DEF text
  <1>6. SetString(k, text, 0)
    BY <1>3 DEF text
  <1>7. AdapterPromise!Write(k, text)
    BY <1>3, <1>5, <1>6, SetStringWrites, SameMaps
  <1>8. AdapterPromise!Count(k, d)
    <2>1. CASE d = NaN
      <3>1. text = NaNText /\ reply' = Integer(NaN)
        BY <1>3, <1>4, <2>1 DEF text
      <3> QED  BY <1>7, <2>1, <3>1, SameReplies DEF AdapterPromise!Count
    <2>2. CASE d # NaN
      <3>1. text = Str(old + d) /\ reply' = Integer(old + d)
        BY <1>3, <1>4, <2>2 DEF text, Plus
      <3> QED  BY <1>2, <1>7, <2>2, <3>1, SameReplies DEF AdapterPromise!Count
    <2> QED  BY <2>1, <2>2
  <1>9. WellFormed'
    <2>1. WrapValue(text, 0) \in Entries
      BY <1>5, WrapValueType
    <2> QED  BY <1>3, <1>6, <2>1 DEF SetString, WellFormed
  <1> QED  BY <1>8, <1>9

(* ttl collects a corpse and says so; a live key's time left is not less   *)
(* than 0.                                                                 *)
LEMMA TtlCollectsRefines ==
  ASSUME WellFormed, NEW k \in Keys, TtlCollects(k)
  PROVE  AdapterPromise!TtlCollects(k)
  <1>1. AdapterPromise!Forget({k})
    BY LazyDeleteForgets, SameMaps DEF TtlCollects
  <1>2. k \in Corpses <=> k \in Stored /\ Expired(strings[k])
    BY DEF Corpses, Stored, Expired
  <1>3. CASE k \in Corpses
    <2>1. reply' = Integer(-2)
      BY <1>2, <1>3 DEF TtlCollects, Expired
    <2> QED  BY <1>1, <1>3, <2>1, SameReplies DEF AdapterPromise!TtlCollects
  <1>4. CASE k \notin Corpses
    <2>1. UNCHANGED <<ValuesHeld, Corpses>>
      BY <1>1, <1>4 DEF AdapterPromise!Forget, ValuesHeld
    <2>2. k \notin Stored => reply' = Integer(-1)
      BY DEF TtlCollects
    <2>3. ASSUME k \in Stored, strings[k].expiry # Never
          PROVE  \E n \in Nat : reply' = Integer(n)
      <3>1. strings[k].expiry \in Int /\ now \in Int /\ Second \in Nat \ {0}
        BY <2>3, StringsAssumption DEF Stored, WellFormed, Entries
      <3>2. strings[k].expiry - now > 0
        BY <1>2, <1>4, <2>3, <3>1 DEF Expired, Stored
      <3>3. (strings[k].expiry - now) \div Second \in Nat
        BY <3>1, <3>2, Z3
      <3>4. reply' = Integer((strings[k].expiry - now) \div Second)
        BY <1>2, <1>4, <2>3 DEF TtlCollects
      <3> QED  BY <3>3, <3>4
    <2>4. \E n \in Int : reply' = Integer(n) /\ n >= -1
      BY <2>2, <2>3 DEF TtlCollects
    <2> QED  BY <1>4, <2>1, <2>2, <2>4, HeldIsStored, SameMaps
             DEF AdapterPromise!TtlCollects, Integer
  <1> QED  BY <1>3, <1>4

(* getRange: the clipped indexes delimit what both bounds admit.           *)
LEMMA GetRangeRefines ==
  ASSUME WellFormed, NEW k \in Keys, NEW start \in Ranges, NEW end \in Ranges, GetRange(k, start, end)
  PROVE  AdapterPromise!GetRange(k, start, end)
  <1> DEFINE v == IF ExistsKey(k) THEN GetString(k) ELSE EmptyString
             L == Length(v)
             s == IF start >= 0 THEN start ELSE IF L + start < 0 THEN 0 ELSE L + start
             e == IF end < 0 THEN L + end ELSE end
             at(i) == IF i < 0 THEN L + i ELSE i
             shown == {i \in 0 .. L - 1 : at(start) <= i /\ i <= at(end)}
  <1>1. AdapterPromise!Forget({k})
    BY LazyDeleteForgets, SameMaps DEF GetRange
  <1>2. v = IF AdapterPromise!Visible(k) = Nil THEN EmptyString ELSE AdapterPromise!Visible(k)
    BY VisibleIsGetString, SameMaps DEF ExistsKey
  <1>3. L \in Nat /\ start \in Int /\ end \in Int
    BY GetStringType, StringsAssumption, AdapterStringsAssumption DEF ExistsKey
  <1>4. reply' = Bulk(IF s > e \/ s >= L THEN EmptyString
                      ELSE Substring(v, s, IF e + 1 > L THEN L ELSE e + 1))
    BY DEF GetRange
  <1> HIDE DEF v
  <1>5. \/ shown = {} /\ reply' = Bulk(EmptyString)
        \/ \E i \in shown, j \in shown : shown = i .. j /\ reply' = Bulk(Substring(v, i, j + 1))
    <2>1. CASE s > e \/ s >= L
      <3>1. shown = {}
        BY <1>3, <2>1
      <3> QED  BY <1>4, <2>1, <3>1
    <2>2. CASE ~(s > e \/ s >= L)
      <3> DEFINE j == IF e + 1 > L THEN L - 1 ELSE e
      <3>1. s \in shown /\ j \in shown /\ shown = s .. j
        BY <1>3, <2>2
      <3>2. (IF e + 1 > L THEN L ELSE e + 1) = j + 1
        BY <1>3
      <3>3. reply' = Bulk(Substring(v, s, j + 1))
        BY <1>4, <2>2, <3>2
      <3> HIDE DEF s, j, shown
      <3> QED  BY <3>1, <3>3
    <2> QED  BY <2>1, <2>2
  <1> QED  BY <1>1, <1>2, <1>5, SameReplies DEF AdapterPromise!GetRange

(* rename carries value and deadline over, and loses a key renamed to      *)
(* itself.                                                                 *)
LEMMA RenameRefines ==
  ASSUME WellFormed, NEW k \in Keys, NEW n \in Keys, Rename(k, n)
  PROVE  AdapterPromise!Rename(k, n) /\ WellFormed'
  <1>1. CASE k \notin Stored /\ reply' = Error /\ UNCHANGED strings
    <2>1. UNCHANGED <<ValuesHeld, Corpses>>
      BY <1>1, UnchangedMap DEF Rename
    <2> QED  BY <1>1, <2>1, HeldIsStored, SameMaps, SameReplies
             DEF AdapterPromise!Rename, Rename, WellFormed
  <1>2. CASE /\ k \in Stored /\ reply' = OK
             /\ strings' = [strings EXCEPT ![n] = strings[k], ![k] = NoEntry]
    <2>1. \A x \in Keys : strings'[x] = IF x = k THEN NoEntry ELSE IF x = n THEN strings[k] ELSE strings[x]
      BY <1>2 DEF WellFormed
    <2>2. now' = now /\ strings[k] # NoEntry
      BY <1>2 DEF Rename, Stored
    <2>3. \A x \in Keys : ValuesHeld'[x] = IF x = k THEN Nil ELSE IF x = n THEN ValuesHeld[k] ELSE ValuesHeld[x]
      BY <2>1, <2>2 DEF ValuesHeld, Stored
    <2>4. ValuesHeld' = [ValuesHeld EXCEPT ![n] = ValuesHeld[k], ![k] = Nil]
      <3>1. DOMAIN ValuesHeld' = Keys
        BY DEF ValuesHeld
      <3>2. [ValuesHeld EXCEPT ![n] = ValuesHeld[k], ![k] = Nil]
              = [x \in Keys |-> IF x = k THEN Nil ELSE IF x = n THEN ValuesHeld[k] ELSE ValuesHeld[x]]
        BY DEF ValuesHeld
      <3>3. ValuesHeld' = [x \in Keys |-> ValuesHeld'[x]]
        BY DEF ValuesHeld
      <3> QED  BY <2>3, <3>2, <3>3
    <2>5. Corpses' = (IF k \in Corpses THEN Corpses \cup {n} ELSE Corpses \ {n}) \ {k}
      <3>1. \A x \in Keys : x \in Corpses' <=>
              (IF x = k THEN FALSE ELSE IF x = n THEN k \in Corpses ELSE x \in Corpses)
        BY <2>1, <2>2 DEF Corpses, Expired
      <3>2. Corpses \subseteq Keys /\ Corpses' \subseteq Keys
        BY DEF Corpses
      <3> QED  BY <3>1, <3>2
    <2>6. WellFormed'
      BY <1>2, <2>2 DEF WellFormed
    <2> QED  BY <1>2, <2>4, <2>5, <2>6, HeldIsStored, SameMaps, SameReplies DEF AdapterPromise!Rename
  <1> QED  BY <1>1, <1>2 DEF Rename

(* exists looks into the map.                                              *)
LEMMA ExistsHeldRefines ==
  ASSUME WellFormed, NEW k \in Keys, ExistsHeld(k)
  PROVE  AdapterPromise!ExistsHeld(k)
  BY HeldIsStored, SameMaps, SameReplies, UnchangedMap DEF ExistsHeld, AdapterPromise!ExistsHeld

(* set, setEx and getSet.                                                  *)
LEMMA PutRefines ==
  ASSUME WellFormed, NEW k \in Keys, NEW v \in Values
  PROVE  /\ AdapterSet(k, v) => AdapterPromise!Put(k, v, FALSE)
         /\ \A s \in Durations : SetEx(k, s, v) => AdapterPromise!Put(k, v, FALSE)
         /\ GetSet(k, v) => AdapterPromise!Put(k, v, TRUE)
  <1>1. ASSUME NEW t \in Int \cup {NaN}, SetString(k, v, t), reply' = OK, now' = now
        PROVE  AdapterPromise!Put(k, v, FALSE)
    <2>1. reply' = IF FALSE THEN BulkOrNull(GetString(k)) ELSE OK
      BY <1>1
    <2> QED  BY <1>1, <2>1, StoreRefines, SameWrites
  <1>2. ASSUME GetSet(k, v)
        PROVE  AdapterPromise!Put(k, v, TRUE)
    <2>1. /\ SetString(k, v, 0) /\ now' = now /\ 0 \in Int \cup {NaN} /\ TRUE \in BOOLEAN
          /\ reply' = IF TRUE THEN BulkOrNull(GetString(k)) ELSE OK
      BY <1>2 DEF GetSet
    <2>2. Promise!Put(k, v, TRUE)
      BY ONLY <2>1, WellFormed, StoreRefines
    <2> QED  BY <2>2, SameWrites
  <1>3. 0 \in Int \cup {NaN} /\ \A s \in Durations : Seconds(s) \in Int \cup {NaN}
    BY StringsAssumption DEF Seconds
  <1> QED  BY <1>1, <1>2, <1>3 DEF AdapterSet, SetEx

(* mSet stores the empty text where it is given none.                      *)
LEMMA AdapterMSetRefines ==
  ASSUME WellFormed, NEW ks \in KeyLists, NEW vs \in [DOMAIN ks -> Values \cup {Nil}], AdapterMSet(ks, vs)
  PROVE  \E texts \in [DOMAIN ks -> Values] :
           /\ \A i \in DOMAIN ks : texts[i] = IF vs[i] = Nil THEN EmptyString ELSE vs[i]
           /\ AdapterPromise!MSet(ks, texts) /\ MSet(ks, texts)
  <1> DEFINE texts == [i \in DOMAIN vs |-> IF vs[i] = Nil THEN EmptyString ELSE vs[i]]
  <1>1. texts \in [DOMAIN ks -> Values]
    BY StringsAssumption
  <1>2. \A i \in DOMAIN ks : texts[i] = IF vs[i] = Nil THEN EmptyString ELSE vs[i]
    OBVIOUS
  <1>3. MSet(ks, texts)
    BY DEF AdapterMSet
  <1> HIDE DEF texts
  <1>4. AdapterPromise!MSet(ks, texts)
    BY <1>1, <1>3, MSetRefines, SameWrites
  <1> QED  BY <1>1, <1>2, <1>3, <1>4
----------------------------------------------------------------------------
(* The store stays well formed. *)

LEMMA AdapterMethodKeepsStore ==
  ASSUME WellFormed, AdapterMethod \/ Tick
  PROVE  WellFormed'
  <1> USE StringsAssumption
  <1>1. ASSUME NEW K, strings' = LazyDelete(K), now' = now
        PROVE  WellFormed'
    BY <1>1, LazyDeleteType DEF WellFormed
  <1>2. ASSUME NEW k \in Keys, NEW v \in Values, NEW t \in Int \cup {NaN}, SetString(k, v, t), now' = now
        PROVE  WellFormed'
    BY <1>2, WrapValueType DEF SetString, WellFormed
  <1>3. ASSUME UNCHANGED strings, now' \in Epoch .. MaxTime
        PROVE  WellFormed'
    BY <1>3 DEF WellFormed
  <1>4. now \in Epoch .. MaxTime /\ 0 \in Int \cup {NaN}
    BY DEF WellFormed
  <1>5. ASSUME NEW k \in Keys, \/ Get(k) \/ StrLen(k) \/ TtlCollects(k) \/ ExistsHeld(k) \/ Type(k)
                               \/ \E i \in Ranges, j \in Ranges : GetRange(k, i, j)
        PROVE  WellFormed'
    BY <1>1, <1>3, <1>4, <1>5 DEF Get, StrLen, TtlCollects, ExistsHeld, Type, GetRange
  <1>6. ASSUME NEW k \in Keys, NEW s \in Durations, Expire(k, s)
        PROVE  WellFormed'
    BY <1>6 DEF Expire, ExpireKey, Seconds, Stored, Entries, Never, WellFormed
  <1>7. ASSUME NEW k \in Keys, NEW v \in Values,
               AdapterSet(k, v) \/ GetSet(k, v) \/ AppendTo(k, v) \/ \E s \in Durations : SetEx(k, s, v)
        PROVE  WellFormed'
    <2>1. \A s \in Durations : Seconds(s) \in Int \cup {NaN}
      BY DEF Seconds
    <2> QED  BY <1>2, <1>4, <1>7, <2>1 DEF AdapterSet, GetSet, AppendTo, SetEx
  <1>8. ASSUME NEW ks \in KeyLists, NEW vs \in [DOMAIN ks -> Values], MSet(ks, vs)
        PROVE  WellFormed'
    <2>1. ASSUME NEW k \in ArgKeys(ks)
          PROVE  WrapValue(vs[LastOf(ks, k)], 0) \in Entries
      BY <1>4, LastOfType, WrapValueType
    <2> QED  BY <1>8, <2>1 DEF MSet, WellFormed
  <1>9. ASSUME NEW ks \in KeyLists, MGet(ks) \/ Del(ks)
        PROVE  WellFormed'
    BY <1>1, <1>9 DEF MGet, Del, WellFormed
  <1>10. ASSUME NEW P, KeysByPattern(P)
         PROVE  WellFormed'
    BY <1>3, <1>4, <1>10 DEF KeysByPattern
  <1>11. CASE Tick
    BY <1>11 DEF Tick, WellFormed
  <1>12. 1 \in Int \cup {NaN} /\ -1 \in Int \cup {NaN}
         /\ \A d \in Deltas : d \in Int \cup {NaN} /\ (IF d = NaN THEN NaN ELSE -d) \in Int \cup {NaN}
    OBVIOUS
  <1> QED  BY <1>5, <1>6, <1>7, <1>8, <1>9, <1>10, <1>11, <1>12,
              CountRefines, RenameRefines, AdapterMSetRefines DEF AdapterMethod
----------------------------------------------------------------------------
(* Every call of the adapter is a step of the abstraction. *)
LEMMA AdapterStepRefines ==
  ASSUME WellFormed, [AdapterMethod \/ Tick]_vars
  PROVE  [AdapterPromise!AdapterMethod \/ AdapterPromise!Decay]_(AdapterPromise!vars)
  <1> DEFINE Step == AdapterPromise!AdapterMethod
  <1>1. CASE \E k \in Keys :
               \/ request' = <<"get", k>> /\ Get(k)
               \/ request' = <<"strlen", k>> /\ StrLen(k)
               \/ request' = <<"type", k>> /\ Type(k)
               \/ \E s \in Durations : request' = <<"expire", k>> /\ Expire(k, s)
    BY <1>1, GetRefines, InspectRefines, RetimeRefines, SameReads DEF AdapterPromise!AdapterMethod
  <1>2. CASE \E k \in Keys :
               \/ request' = <<"exists", k>> /\ ExistsHeld(k)
               \/ request' = <<"ttl", k>> /\ TtlCollects(k)
               \/ \E n \in Keys : request' = <<"rename", k, n>> /\ Rename(k, n)
               \/ \E i \in Ranges, j \in Ranges : request' = <<"getRange", k, i, j>> /\ GetRange(k, i, j)
    BY <1>2, ExistsHeldRefines, TtlCollectsRefines, RenameRefines, GetRangeRefines
       DEF AdapterPromise!AdapterMethod
  <1>3. CASE \E k \in Keys :
               \/ request' = <<"incr", k>> /\ Count(k, 1)
               \/ request' = <<"decr", k>> /\ Count(k, -1)
               \/ \E d \in Deltas :
                    \/ request' = <<"incrBy", k, d>> /\ Count(k, d)
                    \/ request' = <<"decrBy", k, d>> /\ Count(k, IF d = NaN THEN NaN ELSE -d)
    <2>1. 1 \in Int \cup {NaN} /\ -1 \in Int \cup {NaN}
      OBVIOUS
    <2>2. \A d \in Deltas : d \in Int \cup {NaN} /\ (IF d = NaN THEN NaN ELSE -d) \in Int \cup {NaN}
      BY StringsAssumption
    <2> QED  BY <1>3, <2>1, <2>2, CountRefines DEF AdapterPromise!AdapterMethod, AdapterPromise!Negated
  <1>4. CASE \E k \in Keys, v \in Values :
               \/ request' = <<"set", k, v>> /\ AdapterSet(k, v)
               \/ \E s \in Durations : request' = <<"setEx", k, v>> /\ SetEx(k, s, v)
               \/ request' = <<"getSet", k, v>> /\ GetSet(k, v)
               \/ request' = <<"append", k, v>> /\ AppendTo(k, v)
    BY <1>4, PutRefines, AppendRefines, SameWrites DEF AdapterPromise!AdapterMethod
  <1>5. CASE \E ks \in KeyLists :
               \/ request' = <<"mGet", ks>> /\ MGet(ks)
               \/ request' = <<"del", ks>> /\ Del(ks)
    BY <1>5, LookupRefines, DelRefines, SameReads, SameMaps DEF AdapterPromise!AdapterMethod
  <1>6. CASE \E ks \in KeyLists : \E vs \in [DOMAIN ks -> Values \cup {Nil}] :
               request' = <<"mSet", ks, vs>> /\ AdapterMSet(ks, vs)
    BY <1>6, AdapterMSetRefines, SameMaps DEF AdapterPromise!AdapterMethod
  <1>7. CASE \E P \in SUBSET Keys : request' = <<"keys", P>> /\ KeysByPattern(P)
    BY <1>7, InspectRefines, SameReads DEF AdapterPromise!AdapterMethod
  <1>8. CASE Tick
    BY <1>8, TickDecays, HeldIsStored, SameMaps DEF Promise!Decay, AdapterPromise!Decay
  <1>9. CASE UNCHANGED vars
    BY <1>9, UnchangedMap DEF vars, AdapterPromise!vars
  <1> QED  BY <1>1, <1>2, <1>3, <1>4, <1>5, <1>6, <1>7, <1>8, <1>9 DEF AdapterMethod

(* Users of the adapter see a map in which an expired value is absent,     *)
(* counted, renamed and read by ranges as the abstract map says (the       *)
(* methods of LinRedisAdapter on strings).                                 *)
THEOREM AdapterStringsKeepPromise == AdapterSpec => AdapterKeepsPromise
  <1>1. Init => WellFormed
    BY StringsAssumption DEF Init, WellFormed
  <1>2. Init => AdapterPromise!Init
    BY StringsAssumption
       DEF Init, AdapterPromise!Init, ValuesHeld, Corpses, Stored, Expired,
           AdapterPromise!NullReply, NullReply
  <1>3. WellFormed /\ [AdapterMethod \/ Tick]_vars => WellFormed'
    BY AdapterMethodKeepsStore DEF vars, WellFormed
  <1> QED  BY <1>1, <1>2, <1>3, AdapterStepRefines, PTL
           DEF AdapterSpec, AdapterKeepsPromise, AdapterPromise!AdapterSpec
=============================================================================
