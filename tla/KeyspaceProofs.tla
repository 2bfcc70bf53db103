--------------------------- MODULE KeyspaceProofs ---------------------------
(***************************************************************************)
(* What is proved of a Database, for every set of keys, of values and of   *)
(* arguments, and however long the lists of arguments are: no hash and no  *)
(* set is stored empty, every map holds what its commands put in it, and   *)
(* every command does what the module Contents promises of it.             *)
(*                                                                         *)
(* The first invariant says besides that the two maps have an entry (or    *)
(* NoEntry) for every key, without which an update of a map says nothing.  *)
(* The second one has the types, map by map, and that what is stored is    *)
(* finite.  The promise is kept command by command, under both: a list of  *)
(* the promise is the elements at a set of positions, in order, and the    *)
(* lemmas on enumerations turn the loops and slices of the code into such  *)
(* sets; a listing of a sorted set is a function of ranks.                 *)
(***************************************************************************)
EXTENDS Keyspace, Counting, SequenceTheorems

HashesHold == DOMAIN hashes = Keys /\ \A k \in Keys : hashes[k] # Empty
SetsHold   == DOMAIN sets = Keys /\ \A k \in Keys : sets[k] # {}
Inv == HashesHold /\ SetsHold

(* What is put into a map leaves it with something in it.                  *)
LEMMA EmptyDomain == DOMAIN Empty = {}
BY DEF Empty

(* The argument lists of a command have at least one element.              *)
LEMMA ListsAreNotEmpty ==
  ASSUME NEW S, NEW xs \in ListsOf(S) PROVE Elements(xs) # {} /\ DOMAIN xs # {}
<1>1. PICK n \in 1 .. MaxArgs : xs \in [1 .. n -> S] BY DEF ListsOf
<1>2. 1 \in DOMAIN xs BY <1>1, CollectionsAssumption
<1> QED BY <1>2 DEF Elements

LEMMA PutAllIsNotEmpty ==
  ASSUME NEW m, NEW ps, DOMAIN ps # {} PROVE PutAll(m, ps) # Empty
<1>1. PICK i \in DOMAIN ps : TRUE OBVIOUS
<1>2. i \in DOMAIN Names(ps) BY DEF Names
<1>3. Names(ps)[i] \in DOMAIN PutAll(m, ps) BY <1>2 DEF PutAll, Elements
<1> QED BY <1>3, EmptyDomain

(* NoEntry is neither the empty map nor the empty set.                     *)
LEMMA NoEntryIsNotEmpty == NoEntry # Empty /\ NoEntry # {}
<1>1. <<>> \in Seq(Values) OBVIOUS
<1>2. {} \in SUBSET Values OBVIOUS
<1> QED BY <1>1, <1>2, CollectionsAssumption DEF Empty

(* A hash whose fields do not all go keeps one.                            *)
LEMMA DelHashFieldsKeeps ==
  ASSUME HashesHold, NEW k \in Keys, NEW fs, DelHashFields(k, fs)
  PROVE  HashesHold'
<1> DEFINE left == Without(Hash(k), fs)
<1>1. ASSUME ~(DOMAIN Hash(k) \subseteq Elements(fs)) PROVE left # Empty
  <2>1. PICK f \in DOMAIN Hash(k) : f \notin Elements(fs) BY <1>1
  <2>2. f \in DOMAIN left BY <2>1 DEF Without
  <2> QED BY <2>2, EmptyDomain
<1> HIDE DEF left
<1>2. hashes' = [hashes EXCEPT ![k] = IF DOMAIN Hash(k) \subseteq Elements(fs)
                                      THEN NoEntry ELSE left]
  BY DEF DelHashFields, left
<1> QED BY <1>1, <1>2, NoEntryIsNotEmpty DEF HashesHold

LEMMA SetHashFieldsKeeps ==
  ASSUME HashesHold, NEW k \in Keys, NEW ps, DOMAIN ps # {}, SetHashFields(k, ps)
  PROVE  HashesHold'
<1>1. PutAll(Hash(k), ps) # Empty BY PutAllIsNotEmpty
<1> QED BY <1>1 DEF SetHashFields, HashesHold

LEMMA SetRemoveKeeps ==
  ASSUME SetsHold, NEW k \in Keys, NEW ms, SetRemove(k, ms)
  PROVE  SetsHold'
<1>1. ~(Members(k) \subseteq Elements(ms)) => Members(k) \ Elements(ms) # {} OBVIOUS
<1> QED BY <1>1, NoEntryIsNotEmpty DEF SetRemove, SetsHold

LEMMA DeleteKeysKeeps ==
  ASSUME NEW K, DeleteKeys(K)
  PROVE  (HashesHold => HashesHold') /\ (SetsHold => SetsHold')
BY NoEntryIsNotEmpty DEF DeleteKeys, Drop, HashesHold, SetsHold
----------------------------------------------------------------------------
LEMMA InitInv == Init => Inv
BY NoEntryIsNotEmpty DEF Init, Inv, HashesHold, SetsHold

LEMMA HashCommandKeeps ==
  ASSUME HashesHold, HashCommand
  PROVE  HashesHold'
<1>1. CASE \E k \in Keys, ps \in ListsOf(Values \X Values) : HSet(k, ps) \/ HMSet(k, ps)
  BY <1>1, SetHashFieldsKeeps, ListsAreNotEmpty DEF HSet, HMSet
<1>2. CASE \E k \in Keys, f \in Values, v \in Values : HSetNx(k, f, v)
  <2>1. PICK k \in Keys, f \in Values, v \in Values : HSetNx(k, f, v) BY <1>2
  <2>2. DOMAIN <<<<f, v>>>> # {} OBVIOUS
  <2>3. CASE UNCHANGED hashes BY <2>3 DEF HashesHold
  <2>4. CASE SetHashFields(k, <<<<f, v>>>>) BY <2>2, <2>4, SetHashFieldsKeeps
  <2> QED BY <2>1, <2>3, <2>4 DEF HSetNx
<1>3. CASE \E k \in Keys, fs \in ListsOf(Values) : HDel(k, fs)
  BY <1>3, DelHashFieldsKeeps DEF HDel
<1>4. CASE UNCHANGED hashes BY <1>4 DEF HashesHold
<1> QED BY <1>1, <1>2, <1>3, <1>4
     DEF HashCommand, HMGet, HGet, HExists, HLen, HKeys, HGetAll, HVals

LEMMA SetCommandKeeps ==
  ASSUME SetsHold, SetCommand
  PROVE  SetsHold'
<1>1. CASE \E k \in Keys, ms \in ListsOf(Values) : SAdd(k, ms)
  <2>1. PICK k \in Keys, ms \in ListsOf(Values) : SAdd(k, ms) BY <1>1
  <2>2. Members(k) \cup Elements(ms) # {} BY ListsAreNotEmpty
  <2> QED BY <2>1, <2>2 DEF SAdd, SetsHold
<1>2. CASE \E k \in Keys : \E ms : SetRemove(k, ms) BY <1>2, SetRemoveKeeps
<1>3. CASE UNCHANGED sets BY <1>3 DEF SetsHold
<1> QED BY <1>1, <1>2, <1>3
     DEF SetCommand, SRem, SPop, SRandMember, SIsMember, SMembers, SCard

LEMMA KeyspaceCommandKeeps ==
  ASSUME KeyspaceCommand
  PROVE  (HashesHold => HashesHold') /\ (SetsHold => SetsHold')
<1>1. CASE \E ks \in ListsOf(Keys) : Del(ks) BY <1>1, DeleteKeysKeeps DEF Del
<1>2. CASE FlushDb BY <1>2, DeleteKeysKeeps DEF FlushDb
<1>3. CASE UNCHANGED <<hashes, sets>> BY <1>3 DEF HashesHold, SetsHold
<1> QED BY <1>1, <1>2, <1>3
     DEF KeyspaceCommand, SetString, Type, Exists, KeysByPattern, DbSize, RandomKey, stores

LEMMA NextInv == Inv /\ [Next]_vars => Inv'
<1> SUFFICES ASSUME HashesHold, SetsHold, [Next]_vars PROVE HashesHold' /\ SetsHold'
  BY DEF Inv
<1>1. CASE HashCommand /\ UNCHANGED sets
  BY <1>1, HashCommandKeeps DEF SetsHold
<1>2. CASE SetCommand /\ UNCHANGED hashes
  BY <1>2, SetCommandKeeps DEF HashesHold
<1>3. CASE KeyspaceCommand BY <1>3, KeyspaceCommandKeeps
<1>4. CASE UNCHANGED <<hashes, sets>> BY <1>4 DEF HashesHold, SetsHold
<1> QED BY <1>1, <1>2, <1>3, <1>4 DEF Next, vars, stores

(* No sequence of commands leaves an empty hash or an empty set in the     *)
(* database (delHashField, setRemove).                                     *)
THEOREM NoEmptyHashOrSet == Spec => []HashesAndSetsHoldSomething
<1>1. Inv => HashesAndSetsHoldSomething
  BY DEF Inv, HashesHold, SetsHold, HashesAndSetsHoldSomething
<1> QED BY InitInv, NextInv, <1>1, PTL DEF Spec
----------------------------------------------------------------------------
(* Types *)

Numbers == Int \cup {NaN}

(* What the parts of the database hold.  Nothing but sort needs the sorted *)
(* sets to be finite, nothing but DBSIZE the set of keys, and no command   *)
(* but the methods of the adapter that draw members needs it of the sets.  *)
HashesOK ==
  DOMAIN hashes = Keys /\ \A k \in Keys : hashes[k] # NoEntry => IsMap(hashes[k], Values)
ListsOK ==
  DOMAIN lists = Keys /\ \A k \in Keys : lists[k] # NoEntry => lists[k] \in Seq(Values)
SetsOK ==
  /\ DOMAIN sets = Keys
  /\ \A k \in Keys : sets[k] # NoEntry => sets[k] \in SUBSET Values /\ IsFiniteSet(sets[k])
ZSetsOK ==
  /\ DOMAIN zsets = Keys
  /\ \A k \in Keys : zsets[k] # NoEntry => IsMap(zsets[k], Numbers) /\ IsFiniteSet(DOMAIN zsets[k])
ReplyOK == reply.type \in {"simple", "integer", "bulk", "array", "unordered", "null", "error"}

TypeInv ==
  /\ strings \subseteq Keys /\ IsFiniteSet(AllKeys)
  /\ HashesOK /\ ListsOK /\ SetsOK /\ ZSetsOK /\ ReplyOK

LEMMA TypeInvIsTypeOK == TypeInv => TypeOK
  BY DEF TypeInv, TypeOK, HashesOK, ListsOK, SetsOK, ZSetsOK, ReplyOK, Numbers,
         HashKeys, ListKeys, SetKeys, ZSetKeys

LEMMA ReplyTypes ==
  /\ \A x : /\ Simple(x).type = "simple" /\ Integer(x).type = "integer"
            /\ Bulk(x).type = "bulk" /\ Array(x).type = "array"
            /\ Unordered(x).type = "unordered" /\ BulkOrNull(x).type \in {"bulk", "null"}
  /\ NullReply.type = "null" /\ Error.type = "error" /\ OK.type = "simple"
  BY DEF Simple, Integer, Bulk, Array, Unordered, BulkOrNull, NullReply, Error, OK

(* A set of numbers up to n has a greatest one.                            *)
LEMMA Greatest ==
  ASSUME NEW n \in Nat, NEW P, P \subseteq 1 .. n, P # {}
  PROVE  \E i \in P : \A j \in P : j <= i
  <1> DEFINE D == {n - i : i \in P}
  <1>1. D \subseteq Nat /\ D # {}
    OBVIOUS
  <1> HIDE DEF D
  <1>2. PICK d \in D : \A e \in D : d <= e
    BY <1>1, Least
  <1>3. PICK i \in P : d = n - i
    BY <1>2 DEF D
  <1>4. ASSUME NEW j \in P
        PROVE  j <= i
    <2>1. n - j \in D /\ d \in Nat /\ i \in Nat /\ j \in Nat
      BY <1>1, <1>2 DEF D
    <2>2. n - i <= n - j
      BY <1>2, <1>3, <2>1
    <2> QED  BY <2>1, <2>2
  <1> QED  BY <1>4

(* The last of the pairs that give a value to f.                           *)
LEMMA LastIsLast ==
  ASSUME NEW n \in Nat, NEW ps, DOMAIN ps = 1 .. n, NEW f \in Elements(Names(ps))
  PROVE  /\ LastOf(ps, f) \in DOMAIN ps /\ ps[LastOf(ps, f)][1] = f
         /\ \A j \in DOMAIN ps : j > LastOf(ps, f) => ps[j][1] # f
  <1> DEFINE P == {i \in 1 .. n : ps[i][1] = f}
  <1>1. P \subseteq 1 .. n /\ P # {}
    BY DEF Elements, Names
  <1> HIDE DEF P
  <1>2. PICK i \in P : \A j \in P : j <= i
    BY <1>1, Greatest
  <1>3. i \in DOMAIN ps /\ ps[i][1] = f /\ \A j \in DOMAIN ps : j > i => ps[j][1] # f
    BY <1>2 DEF P
  <1> QED  BY <1>3 DEF LastOf

LEMMA RangeIsFinite ==
  ASSUME NEW n \in Nat, NEW S, NEW xs \in [1 .. n -> S]
  PROVE  IsFiniteSet(Elements(xs)) /\ IsFiniteSet(DOMAIN xs)
  <1>1. IsFiniteSet(1 .. n)
    BY FS_Interval
  <1>2. xs \in Surjection(1 .. n, Elements(xs))
    BY DEF Surjection, Elements
  <1> QED  BY <1>1, <1>2, FS_Surjection

LEMMA ListsAreSequences ==
  ASSUME NEW S, NEW xs \in ListsOf(S)
  PROVE  /\ xs \in Seq(S) /\ Len(xs) \in 1 .. MaxArgs /\ DOMAIN xs = 1 .. Len(xs)
         /\ Elements(xs) \subseteq S /\ IsFiniteSet(Elements(xs))
  <1>1. PICK n \in 1 .. MaxArgs : xs \in [1 .. n -> S]
    BY DEF ListsOf
  <1>2. n \in Nat /\ MaxArgs \in Nat
    BY CollectionsAssumption
  <1>3. xs \in Seq(S) /\ Len(xs) = n /\ DOMAIN xs = 1 .. n
    BY <1>1, <1>2
  <1>4. Elements(xs) \subseteq S
    BY <1>1 DEF Elements
  <1>5. IsFiniteSet(Elements(xs))
    BY <1>1, <1>2, RangeIsFinite
  <1> QED  BY <1>3, <1>4, <1>5

(* A loop of Map.set leaves a map of the same type.                        *)
LEMMA PutAllIsMap ==
  ASSUME NEW S, NEW m, IsMap(m, S), NEW ps \in Seq(Values \X S)
  PROVE  /\ IsMap(PutAll(m, ps), S)
         /\ IsFiniteSet(DOMAIN m) => IsFiniteSet(DOMAIN PutAll(m, ps))
  <1>1. PICK F \in SUBSET Values : m \in [F -> S]
    BY DEF IsMap
  <1> DEFINE N == Elements(Names(ps))
  <1>2. DOMAIN ps = 1 .. Len(ps) /\ Len(ps) \in Nat /\ \A i \in DOMAIN ps : ps[i] \in Values \X S
    OBVIOUS
  <1>3. N \subseteq Values
    BY <1>2 DEF Elements, Names
  <1>4. \A f \in N : ps[LastOf(ps, f)][2] \in S
    BY <1>2, LastIsLast
  <1>5. IsFiniteSet(N)
    <2>1. Names(ps) \in [1 .. Len(ps) -> Values]
      BY <1>2 DEF Names
    <2> QED  BY <1>2, <2>1, RangeIsFinite
  <1> HIDE DEF N
  <1>6. PutAll(m, ps) = [f \in F \cup N |-> IF f \in N THEN ps[LastOf(ps, f)][2] ELSE m[f]]
    BY <1>1 DEF PutAll, N
  <1>7. PutAll(m, ps) \in [F \cup N -> S] /\ F \cup N \in SUBSET Values
    BY <1>1, <1>3, <1>4, <1>6
  <1>8. IsMap(PutAll(m, ps), S)
    BY <1>7 DEF IsMap
  <1>9. IsFiniteSet(DOMAIN m) => IsFiniteSet(DOMAIN PutAll(m, ps))
    BY <1>1, <1>5, <1>7, FS_Union
  <1> QED  BY <1>8, <1>9

LEMMA WithoutIsMap ==
  ASSUME NEW S, NEW m, IsMap(m, S), NEW fs
  PROVE  /\ IsMap(Without(m, fs), S)
         /\ IsFiniteSet(DOMAIN m) => IsFiniteSet(DOMAIN Without(m, fs))
  <1>1. PICK F \in SUBSET Values : m \in [F -> S]
    BY DEF IsMap
  <1>2. Without(m, fs) \in [F \ Elements(fs) -> S]
    BY <1>1 DEF Without
  <1>3. IsMap(Without(m, fs), S)
    BY <1>2 DEF IsMap
  <1>4. DOMAIN Without(m, fs) \subseteq DOMAIN m
    BY DEF Without
  <1> QED  BY <1>3, <1>4, FS_Subset

(* What a command finds at a key.                                          *)
LEMMA EmptyIsMap ==
  ASSUME NEW S
  PROVE  IsMap(Empty, S) /\ IsFiniteSet(DOMAIN Empty)
  <1>1. Empty \in [{} -> S]
    BY DEF Empty
  <1> QED  BY <1>1, EmptyDomain, FS_EmptySet DEF IsMap

LEMMA Found ==
  ASSUME TypeInv, NEW k \in Keys
  PROVE  /\ IsMap(Hash(k), Values) /\ List(k) \in Seq(Values) /\ Members(k) \in SUBSET Values
         /\ IsMap(ZSet(k), Numbers) /\ IsFiniteSet(DOMAIN ZSet(k)) /\ IsFiniteSet(Members(k))
  <1>1. Empty \in Seq(Values)
    BY DEF Empty
  <1> QED  BY <1>1, EmptyIsMap, FS_EmptySet
    DEF TypeInv, HashesOK, ListsOK, SetsOK, ZSetsOK, Hash, List, Members, ZSet
----------------------------------------------------------------------------
(* The loop of LREM *)

(* e lists the numbers of P from the least to the greatest, and Chosen the *)
(* elements of s at the positions that e lists.                            *)
Enumerates(e, P) ==
  e \in Seq(P) /\ Elements(e) = P /\ \A i, j \in DOMAIN e : i < j => e[i] < e[j]
Chosen(s, e) == [i \in 1 .. Len(e) |-> s[e[i]]]

(* T has the first positions, up to n, at which s holds v: as many as      *)
(* limit allows.                                                           *)
FirstHolding(s, v, limit, n, T) ==
  /\ T \subseteq 1 .. n /\ IsFiniteSet(T) /\ Cardinality(T) <= limit
  /\ \A p \in T : s[p] = v
  /\ Cardinality(T) < limit => \A p \in 1 .. n : s[p] = v => p \in T
  /\ \A p \in T, q \in (1 .. n) \ T : s[q] = v => p < q

Others(n, T) == (1 .. n) \ T

LEMMA EnumerateMore ==
  ASSUME NEW n \in Nat, NEW P, P \subseteq 1 .. n, NEW e, Enumerates(e, P), NEW s
  PROVE  /\ Enumerates(Append(e, n + 1), P \cup {n + 1})
         /\ Chosen(s, Append(e, n + 1)) = Append(Chosen(s, e), s[n + 1])
  <1> DEFINE f == Append(e, n + 1)
  <1>1. e \in Seq(P) /\ Len(e) \in Nat /\ DOMAIN e = 1 .. Len(e)
    BY DEF Enumerates
  <1>2. /\ f \in Seq(P \cup {n + 1}) /\ Len(f) = Len(e) + 1 /\ DOMAIN f = 1 .. Len(e) + 1
        /\ f[Len(e) + 1] = n + 1 /\ \A i \in 1 .. Len(e) : f[i] = e[i]
    <2>1. e \in Seq(P \cup {n + 1}) /\ n + 1 \in P \cup {n + 1}
      BY <1>1
    <2> QED  BY <1>1, <2>1, AppendProperties
  <1> HIDE DEF f
  <1>3. \A i \in 1 .. Len(e) : e[i] \in P /\ e[i] \in Nat /\ e[i] < n + 1
    <2>1. \A p \in P : p \in Nat /\ p < n + 1
      OBVIOUS
    <2>2. \A i \in 1 .. Len(e) : e[i] \in P
      BY <1>1
    <2> QED  BY <2>1, <2>2
  <1>4. Elements(f) = P \cup {n + 1}
    <2>1. Elements(f) = Elements(e) \cup {n + 1}
      BY <1>1, <1>2 DEF Elements
    <2> QED  BY <2>1 DEF Enumerates
  <1>5. ASSUME NEW i \in DOMAIN f, NEW j \in DOMAIN f, i < j
        PROVE  f[i] < f[j]
    <2>1. i \in 1 .. Len(e) /\ f[i] = e[i]
      BY <1>1, <1>2, <1>5
    <2>2. CASE j \in 1 .. Len(e)
      BY <1>1, <1>2, <1>5, <2>1, <2>2 DEF Enumerates
    <2>3. CASE j = Len(e) + 1
      BY <1>2, <1>3, <2>1, <2>3
    <2> QED  BY <1>1, <1>2, <2>2, <2>3
  <1>6. Chosen(s, f) = Append(Chosen(s, e), s[n + 1])
    <2> DEFINE c == Chosen(s, e)
    <2>1. Len(c) = Len(e) /\ \A i \in 1 .. Len(e) : c[i] = s[e[i]]
      BY <1>1 DEF Chosen
    <2>2. c \in Seq({s[e[i]] : i \in 1 .. Len(e)})
      BY <1>1 DEF Chosen
    <2> HIDE DEF c
    <2>3. Append(c, s[n + 1]) = [i \in 1 .. Len(e) + 1 |-> IF i = Len(e) + 1 THEN s[n + 1] ELSE c[i]]
      BY <1>1, <2>1, <2>2
    <2>4. Chosen(s, f) = [i \in 1 .. Len(e) + 1 |-> s[f[i]]]
      BY <1>2 DEF Chosen
    <2> QED  BY <1>1, <1>2, <2>1, <2>3, <2>4 DEF c
  <1> QED  BY <1>2, <1>4, <1>5, <1>6 DEF Enumerates, f

LEMMA TakeNext ==
  ASSUME NEW s, NEW v, NEW limit \in Nat, NEW n \in Nat, NEW T, FirstHolding(s, v, limit, n, T),
         s[n + 1] = v, Cardinality(T) < limit
  PROVE  /\ FirstHolding(s, v, limit, n + 1, T \cup {n + 1})
         /\ Cardinality(T \cup {n + 1}) = Cardinality(T) + 1
         /\ Others(n + 1, T \cup {n + 1}) = Others(n, T)
  <1>1. Cardinality(T) \in Nat /\ T \subseteq 1 .. n /\ n + 1 \notin T
    BY FS_CardinalityType DEF FirstHolding
  <1>2. 1 .. n + 1 = (1 .. n) \cup {n + 1}
    OBVIOUS
  <1>3. IsFiniteSet(T \cup {n + 1}) /\ Cardinality(T \cup {n + 1}) = Cardinality(T) + 1
    BY <1>1, FS_AddElement DEF FirstHolding
  <1>4. FirstHolding(s, v, limit, n + 1, T \cup {n + 1})
    BY <1>1, <1>2, <1>3 DEF FirstHolding
  <1>5. Others(n + 1, T \cup {n + 1}) = Others(n, T)
    BY <1>1, <1>2 DEF Others
  <1> QED  BY <1>3, <1>4, <1>5

LEMMA PassNext ==
  ASSUME NEW s, NEW v, NEW limit \in Nat, NEW n \in Nat, NEW T, FirstHolding(s, v, limit, n, T),
         s[n + 1] # v \/ limit <= Cardinality(T)
  PROVE  FirstHolding(s, v, limit, n + 1, T)
  <1>1. Cardinality(T) \in Nat /\ T \subseteq 1 .. n /\ n + 1 \notin T
    BY FS_CardinalityType DEF FirstHolding
  <1>2. 1 .. n + 1 = (1 .. n) \cup {n + 1}
    OBVIOUS
  <1> QED  BY <1>1, <1>2 DEF FirstHolding

(* The recursion of Taking has a solution, and Taking is its last value.   *)
LEMMA WalkExists ==
  ASSUME NEW s \in Seq(Values), NEW v, NEW limit
  PROVE  \E walk : /\ walk[0] = [kept |-> <<>>, removed |-> 0]
                   /\ \A n \in 1 .. Len(s) : walk[n] = Turn(walk[n - 1], s[n], v, limit)
                   /\ Taking(s, v, limit) = walk[Len(s)]
  <1> DEFINE Start == [kept |-> <<>>, removed |-> 0]
             W(walk, n) ==
               walk = [i \in 0 .. n |-> IF i = 0 THEN Start ELSE Turn(walk[i - 1], s[i], v, limit)]
             G == {n \in Nat : \E walk : W(walk, n)}
  <1> HIDE DEF Start
  <1>1. 0 \in G
    <2>1. W([i \in 0 .. 0 |-> Start], 0)
      OBVIOUS
    <2> QED  BY <2>1
  <1>2. ASSUME NEW n \in Nat, n \in G
        PROVE  n + 1 \in G
    <2>1. PICK w : W(w, n)
      BY <1>2
    <2> DEFINE u == [i \in 0 .. n + 1 |-> IF i = 0 THEN Start ELSE Turn(w[i - 1], s[i], v, limit)]
    <2>2. \A i \in 0 .. n : u[i] = w[i]
      BY <2>1
    <2>3. \A i \in 1 .. n + 1 : i - 1 \in 0 .. n
      OBVIOUS
    <2>4. /\ u = [i \in 0 .. n + 1 |-> u[i]] /\ u[0] = Start
          /\ \A i \in 1 .. n + 1 : u[i] = Turn(w[i - 1], s[i], v, limit)
      OBVIOUS
    <2> HIDE DEF u
    <2>5. ASSUME NEW i \in 0 .. n + 1
          PROVE  u[i] = IF i = 0 THEN Start ELSE Turn(u[i - 1], s[i], v, limit)
      <3>1. CASE i = 0
        BY <2>4, <3>1
      <3>2. CASE i # 0
        <4>1. i \in 1 .. n + 1
          BY <3>2
        <4>2. u[i] = Turn(w[i - 1], s[i], v, limit)
          BY <2>4, <4>1
        <4>3. u[i - 1] = w[i - 1]
          BY <2>2, <2>3, <4>1
        <4> QED  BY <3>2, <4>2, <4>3
      <3> QED  BY <3>1, <3>2
    <2>6. W(u, n + 1)
      BY <2>4, <2>5
    <2> HIDE DEF W
    <2> QED  BY <2>6
  <1>3. Len(s) \in G
    <2> HIDE DEF G
    <2> QED  BY <1>1, <1>2, SetInduction
  <1> DEFINE X == CHOOSE walk : W(walk, Len(s))
  <1>4. Taking(s, v, limit) = X[Len(s)]
    BY DEF Taking, Start
  <1>5. W(X, Len(s))
    <2> HIDE DEF W
    <2> QED  BY <1>3
  <1> HIDE DEF X
  <1>6. Len(s) \in Nat /\ \A n \in 1 .. Len(s) : n \in 0 .. Len(s) /\ n # 0
    OBVIOUS
  <1>7. X[0] = Start /\ \A n \in 1 .. Len(s) : X[n] = Turn(X[n - 1], s[n], v, limit)
    BY <1>5, <1>6
  <1> QED  BY <1>4, <1>7 DEF Start

(* LREM takes the first positions of those that hold v, and keeps what is  *)
(* at the others in its order.                                             *)
LEMMA TakingTakes ==
  ASSUME NEW s \in Seq(Values), NEW v, NEW limit \in Nat
  PROVE  \E T, e : /\ FirstHolding(s, v, limit, Len(s), T)
                   /\ Enumerates(e, Others(Len(s), T))
                   /\ Taking(s, v, limit) = [kept |-> Chosen(s, e), removed |-> Cardinality(T)]
  <1>1. PICK walk : /\ walk[0] = [kept |-> <<>>, removed |-> 0]
                    /\ \A n \in 1 .. Len(s) : walk[n] = Turn(walk[n - 1], s[n], v, limit)
                    /\ Taking(s, v, limit) = walk[Len(s)]
    BY WalkExists
  <1> DEFINE W(n, T, e) == /\ FirstHolding(s, v, limit, n, T)
                           /\ Enumerates(e, Others(n, T))
                           /\ walk[n] = [kept |-> Chosen(s, e), removed |-> Cardinality(T)]
             G == {n \in Nat : n <= Len(s) => \E T, e : W(n, T, e)}
  <1>2. 0 \in G
    <2>1. FirstHolding(s, v, limit, 0, {})
      BY FS_EmptySet DEF FirstHolding
    <2>2. Enumerates(<<>>, Others(0, {})) /\ Chosen(s, <<>>) = <<>>
      BY DEF Enumerates, Elements, Chosen, Others
    <2>3. W(0, {}, <<>>)
      BY <1>1, <2>1, <2>2, FS_EmptySet
    <2> QED  BY <2>3
  <1>3. ASSUME NEW n \in Nat, n \in G, n + 1 <= Len(s)
        PROVE  \E T, e : W(n + 1, T, e)
    <2>1. PICK T, e : W(n, T, e)
      <3> HIDE DEF W
      <3> QED  BY <1>3
    <2>2. walk[n + 1] = Turn(walk[n], s[n + 1], v, limit)
      <3>1. n + 1 \in 1 .. Len(s) /\ (n + 1) - 1 = n
        BY <1>3
      <3> QED  BY <1>1, <3>1
    <2>3. CASE s[n + 1] = v /\ Cardinality(T) < limit
      <3>1. /\ FirstHolding(s, v, limit, n + 1, T \cup {n + 1})
            /\ Cardinality(T \cup {n + 1}) = Cardinality(T) + 1
            /\ Others(n + 1, T \cup {n + 1}) = Others(n, T)
        <4>1. FirstHolding(s, v, limit, n, T) /\ s[n + 1] = v /\ Cardinality(T) < limit
          BY <2>1, <2>3
        <4> QED  BY <4>1, TakeNext
      <3>2. walk[n + 1] = [kept |-> Chosen(s, e), removed |-> Cardinality(T) + 1]
        BY <2>1, <2>2, <2>3 DEF Turn
      <3>3. W(n + 1, T \cup {n + 1}, e)
        BY <2>1, <3>1, <3>2
      <3> HIDE DEF W
      <3> QED  BY <3>3
    <2>4. CASE ~ (s[n + 1] = v /\ Cardinality(T) < limit)
      <3>1. Others(n, T) \subseteq 1 .. n
        BY DEF Others
      <3>2. FirstHolding(s, v, limit, n + 1, T)
        <4>1. FirstHolding(s, v, limit, n, T)
          BY <2>1
        <4>2. s[n + 1] # v \/ limit <= Cardinality(T)
          <5>1. Cardinality(T) \in Nat
            BY <4>1, FS_CardinalityType DEF FirstHolding
          <5> QED  BY <2>4, <5>1
        <4> QED  BY <4>1, <4>2, PassNext
      <3>3. Others(n + 1, T) = Others(n, T) \cup {n + 1}
        <4>1. n + 1 \notin T
          BY <2>1 DEF FirstHolding
        <4>2. 1 .. n + 1 = (1 .. n) \cup {n + 1}
          OBVIOUS
        <4> QED  BY <4>1, <4>2 DEF Others
      <3>4. /\ Enumerates(Append(e, n + 1), Others(n + 1, T))
            /\ Chosen(s, Append(e, n + 1)) = Append(Chosen(s, e), s[n + 1])
        BY <2>1, <3>3, <3>1, EnumerateMore
      <3>5. walk[n + 1] = [kept |-> Append(Chosen(s, e), s[n + 1]), removed |-> Cardinality(T)]
        <4>1. walk[n + 1] = Turn([kept |-> Chosen(s, e), removed |-> Cardinality(T)], s[n + 1], v, limit)
          BY <2>1, <2>2
        <4>2. Cardinality(T) \in Nat
          BY <2>1, FS_CardinalityType DEF FirstHolding
        <4> DEFINE c == Chosen(s, e)
                   d == Cardinality(T)
                   x == s[n + 1]
        <4>3. d \in Nat /\ ~ (x = v /\ d < limit)
          BY <2>4, <4>2
        <4> HIDE DEF c, d, x
        <4>4. Turn([kept |-> c, removed |-> d], x, v, limit) = [kept |-> Append(c, x), removed |-> d]
          BY <4>3 DEF Turn
        <4> QED  BY <4>1, <4>4 DEF c, d, x
      <3>6. W(n + 1, T, Append(e, n + 1))
        BY <3>2, <3>4, <3>5
      <3> HIDE DEF W
      <3> QED  BY <3>6
    <2> QED  BY <2>3, <2>4
  <1>4. Len(s) \in G /\ Len(s) \in Nat
    <2> HIDE DEF W
    <2>1. \A n \in Nat : n \in G => n + 1 \in G
      BY <1>3
    <2> HIDE DEF G
    <2> QED  BY <1>2, <2>1, SetInduction
  <1>5. PICK T, e : W(Len(s), T, e)
    <2> HIDE DEF W
    <2> QED  BY <1>4
  <1> QED  BY <1>1, <1>5

LEMMA ChosenIsSeq ==
  ASSUME NEW S, NEW s \in Seq(S), NEW P, P \subseteq 1 .. Len(s), NEW e, Enumerates(e, P)
  PROVE  Chosen(s, e) \in Seq(S) /\ Len(Chosen(s, e)) = Len(e)
  <1>1. e \in Seq(P) /\ Len(e) \in Nat /\ \A i \in 1 .. Len(e) : e[i] \in P
    BY DEF Enumerates
  <1>2. \A p \in P : s[p] \in S
    OBVIOUS
  <1>3. \A i \in 1 .. Len(e) : s[e[i]] \in S
    BY <1>1, <1>2
  <1> QED  BY <1>1, <1>3 DEF Chosen

LEMMA TakingKeepsSeq ==
  ASSUME NEW s \in Seq(Values), NEW v, NEW limit \in Nat
  PROVE  Taking(s, v, limit).kept \in Seq(Values)
  <1>1. PICK T, e : /\ Enumerates(e, Others(Len(s), T))
                    /\ Taking(s, v, limit) = [kept |-> Chosen(s, e), removed |-> Cardinality(T)]
    BY TakingTakes
  <1>2. Others(Len(s), T) \subseteq 1 .. Len(s)
    BY DEF Others
  <1>3. Chosen(s, e) \in Seq(Values)
    BY <1>1, <1>2, ChosenIsSeq
  <1> QED  BY <1>1, <1>3

LEMMA ReverseIsSeq ==
  ASSUME NEW S, NEW s \in Seq(S)
  PROVE  /\ Reverse(s) \in Seq(S) /\ Len(Reverse(s)) = Len(s)
         /\ \A i \in 1 .. Len(s) : Reverse(s)[i] = s[Len(s) + 1 - i]
  <1>1. Len(s) \in Nat /\ \A i \in 1 .. Len(s) : (Len(s) - i) + 1 \in 1 .. Len(s)
    OBVIOUS
  <1>2. \A i \in 1 .. Len(s) : s[(Len(s) - i) + 1] \in S
    BY <1>1
  <1>3. \A i \in 1 .. Len(s) : (Len(s) - i) + 1 = Len(s) + 1 - i
    BY <1>1
  <1> QED  BY <1>1, <1>2, <1>3 DEF Reverse

LEMMA RemoveCountKeepsSeq ==
  ASSUME NEW s \in Seq(Values), NEW v, NEW count \in Counts
  PROVE  RemoveCount(s, v, count).kept \in Seq(Values)
  <1>1. count \in Int \cup {NaN} /\ NaN \notin Int /\ Len(s) \in Nat
    BY ListsAssumption, CollectionsAssumption
  <1>2. CASE count = NaN
    BY <1>2, TakingKeepsSeq DEF RemoveCount
  <1>3. CASE count = 0
    BY <1>1, <1>3, TakingKeepsSeq DEF RemoveCount
  <1>4. CASE count # NaN /\ count > 0
    <2>1. count \in Nat
      BY <1>1, <1>4
    <2>2. RemoveCount(s, v, count) = Taking(s, v, count)
      BY <1>4, <2>1 DEF RemoveCount
    <2> QED  BY <2>1, <2>2, TakingKeepsSeq
  <1>5. CASE count # NaN /\ count < 0
    <2>1. -count \in Nat /\ Reverse(s) \in Seq(Values)
      BY <1>1, <1>5, ReverseIsSeq
    <2> DEFINE walk == Taking(Reverse(s), v, -count)
    <2>2. walk.kept \in Seq(Values)
      BY <2>1, TakingKeepsSeq
    <2>3. PICK T, e : walk = [kept |-> Chosen(Reverse(s), e), removed |-> Cardinality(T)]
      BY <2>1, TakingTakes
    <2>4. RemoveCount(s, v, count) = Backwards(walk)
      BY <1>1, <1>5, <2>1 DEF RemoveCount
    <2> HIDE DEF walk
    <2>5. RemoveCount(s, v, count).kept = Reverse(walk.kept)
      BY <2>3, <2>4 DEF Backwards
    <2> QED  BY <2>2, <2>5, ReverseIsSeq
  <1> QED  BY <1>1, <1>2, <1>3, <1>4, <1>5
----------------------------------------------------------------------------
(* Every command keeps the types *)

LEMMA NewHashTyped ==
  ASSUME HashesOK, NEW k \in Keys, NEW h, h # NoEntry => IsMap(h, Values),
         hashes' = [hashes EXCEPT ![k] = h]
  PROVE  HashesOK' /\ \A q \in Keys \ {k} : hashes'[q] = hashes[q]
  BY DEF HashesOK

LEMMA HashCommandTyped ==
  ASSUME TypeInv, HashCommand
  PROVE  HashesOK' /\ ReplyOK' /\ \E k \in Keys : \A q \in Keys \ {k} : hashes'[q] = hashes[q]
  <1> USE ReplyTypes DEF ReplyOK
  <1>0. HashesOK
    BY DEF TypeInv
  <1>1. ASSUME NEW k \in Keys, NEW ps \in Seq(Values \X Values), SetHashFields(k, ps)
        PROVE  HashesOK' /\ \A q \in Keys \ {k} : hashes'[q] = hashes[q]
    <2>1. IsMap(PutAll(Hash(k), ps), Values)
      BY Found, PutAllIsMap
    <2> QED  BY <1>0, <1>1, <2>1, NewHashTyped DEF SetHashFields
  <1>2. CASE \E k \in Keys, ps \in ListsOf(Values \X Values) : HSet(k, ps) \/ HMSet(k, ps)
    <2>1. PICK k \in Keys, ps \in ListsOf(Values \X Values) : HSet(k, ps) \/ HMSet(k, ps)
      BY <1>2
    <2>2. ps \in Seq(Values \X Values)
      BY ListsAreSequences
    <2> QED  BY <1>1, <2>1, <2>2 DEF HSet, HMSet
  <1>3. CASE \E k \in Keys, f \in Values, v \in Values : HSetNx(k, f, v)
    <2>1. PICK k \in Keys, f \in Values, v \in Values : HSetNx(k, f, v)
      BY <1>3
    <2>2. <<<<f, v>>>> \in Seq(Values \X Values)
      OBVIOUS
    <2>3. CASE SetHashFields(k, <<<<f, v>>>>)
      BY <1>1, <2>1, <2>2, <2>3 DEF HSetNx
    <2>4. CASE UNCHANGED hashes
      BY <1>0, <2>1, <2>4 DEF HSetNx, HashesOK
    <2> QED  BY <2>1, <2>3, <2>4 DEF HSetNx
  <1>4. CASE \E k \in Keys, fs \in ListsOf(Values) : HDel(k, fs)
    <2>1. PICK k \in Keys, fs \in ListsOf(Values) : HDel(k, fs)
      BY <1>4
    <2>2. IsMap(Without(Hash(k), fs), Values)
      BY Found, WithoutIsMap
    <2> DEFINE h == IF DOMAIN Hash(k) \subseteq Elements(fs) THEN NoEntry ELSE Without(Hash(k), fs)
    <2>3. h # NoEntry => IsMap(h, Values)
      BY <2>2
    <2>4. hashes' = [hashes EXCEPT ![k] = h]
      BY <2>1 DEF HDel, DelHashFields
    <2> HIDE DEF h
    <2> QED  BY <1>0, <2>1, <2>3, <2>4, NewHashTyped DEF HDel
  <1>5. CASE UNCHANGED hashes /\ (\E k \in Keys : TRUE) /\ ReplyOK'
    BY <1>0, <1>5 DEF HashesOK
  <1> QED  BY <1>2, <1>3, <1>4, <1>5
       DEF HashCommand, HMGet, HGet, HExists, HLen, HKeys, HGetAll, HVals

LEMMA SetListTyped ==
  ASSUME ListsOK, NEW k \in Keys, NEW s \in Seq(Values), SetList(k, s)
  PROVE  ListsOK' /\ \A q \in Keys \ {k} : lists'[q] = lists[q]
  BY DEF ListsOK, SetList

(* How many values are popped: no more than there are.                     *)
LEMMA PoppedInRange ==
  ASSUME TypeInv, NEW k \in Keys, NEW n \in Counts
  PROVE  Popped(k, n) \in 0 .. Len(List(k))
  <1>1. Len(List(k)) \in Nat /\ n \in Int \cup {NaN} /\ NaN \notin Int
    BY Found, ListsAssumption, CollectionsAssumption
  <1>2. CASE n = NaN
    BY <1>1, <1>2 DEF Popped
  <1>3. CASE n # NaN /\ n <= 0
    BY <1>1, <1>3 DEF Popped
  <1>4. CASE n # NaN /\ ~ (n <= 0)
    <2>1. Popped(k, n) = IF n <= Len(List(k)) THEN n ELSE Len(List(k))
      BY <1>4 DEF Popped
    <2> QED  BY <1>1, <1>4, <2>1
  <1> QED  BY <1>2, <1>3, <1>4

LEMMA ListCommandTyped ==
  ASSUME TypeInv, ListCommand
  PROVE  ListsOK' /\ ReplyOK' /\ \E k \in Keys : \A q \in Keys \ {k} : lists'[q] = lists[q]
  <1> USE ReplyTypes DEF ReplyOK
  <1>0. ListsOK
    BY DEF TypeInv
  <1>1. CASE \E k \in Keys, vs \in ListsOf(Values) : LPush(k, vs) \/ RPush(k, vs)
    <2>1. PICK k \in Keys, vs \in ListsOf(Values) : LPush(k, vs) \/ RPush(k, vs)
      BY <1>1
    <2>2. vs \in Seq(Values) /\ Reverse(vs) \in Seq(Values) /\ List(k) \in Seq(Values)
      BY ListsAreSequences, ReverseIsSeq, Found
    <2>3. Reverse(vs) \o List(k) \in Seq(Values) /\ List(k) \o vs \in Seq(Values)
      BY <2>2
    <2> QED  BY <1>0, <2>1, <2>3, SetListTyped DEF LPush, RPush
  <1>2. CASE \E k \in Keys, n \in Counts : LPop(k, n) \/ RPop(k, n)
    <2>1. PICK k \in Keys, n \in Counts : LPop(k, n) \/ RPop(k, n)
      BY <1>2
    <2> DEFINE p == Popped(k, n)
               l == Len(List(k))
               right == SubSeq(List(k), p + 1, l)
               left == SubSeq(List(k), 1, l - p)
    <2>2. p \in 0 .. l /\ l \in Nat /\ List(k) \in Seq(Values)
      BY PoppedInRange, Found
    <2>3. right \in Seq(Values) /\ left \in Seq(Values)
      BY <2>2
    <2>4. \E rest \in {left, right} : IF lists[k] = NoEntry THEN UNCHANGED lists ELSE SetList(k, rest)
      BY <2>1 DEF LPop, RPop, Pop
    <2>5. ReplyOK'
      BY <2>1 DEF LPop, RPop, Pop
    <2> HIDE DEF left, right
    <2>6. CASE UNCHANGED lists
      BY <1>0, <2>5, <2>6 DEF ListsOK
    <2>7. CASE \E rest \in {left, right} : SetList(k, rest)
      BY <1>0, <2>3, <2>5, <2>7, SetListTyped
    <2> QED  BY <2>4, <2>6, <2>7
  <1>3. CASE \E k \in Keys, i \in Indexes, v \in Values : LSet(k, i, v)
    <2>1. PICK k \in Keys, i \in Indexes, v \in Values : LSet(k, i, v)
      BY <1>3
    <2>2. List(k) \in Seq(Values) /\ i \in Int
      BY Found, CollectionsAssumption
    <2>3. CASE UNCHANGED lists
      BY <1>0, <2>1, <2>3 DEF LSet, ListsOK
    <2>4. CASE ~ UNCHANGED lists
      <3>1. /\ i \in 0 .. Len(List(k)) - 1 /\ SetList(k, [List(k) EXCEPT ![i + 1] = v])
            /\ reply' = OK
        BY <2>1, <2>4 DEF LSet
      <3>2. [List(k) EXCEPT ![i + 1] = v] \in Seq(Values)
        BY <2>2, <3>1, ExceptSeq
      <3> QED  BY <1>0, <3>1, <3>2, SetListTyped
    <2> QED  BY <2>3, <2>4
  <1>4. CASE \E k \in Keys, n \in Counts, v \in Values : LRem(k, n, v)
    <2>1. PICK k \in Keys, n \in Counts, v \in Values : LRem(k, n, v)
      BY <1>4
    <2> DEFINE rest == RemoveCount(List(k), v, n).kept
    <2>2. rest \in Seq(Values)
      BY Found, RemoveCountKeepsSeq
    <2>3. IF lists[k] = NoEntry THEN UNCHANGED lists ELSE SetList(k, rest)
      BY <2>1 DEF LRem
    <2>4. ReplyOK'
      BY <2>1 DEF LRem
    <2> HIDE DEF rest
    <2>5. CASE UNCHANGED lists
      BY <1>0, <2>4, <2>5 DEF ListsOK
    <2>6. CASE SetList(k, rest)
      BY <1>0, <2>2, <2>4, <2>6, SetListTyped
    <2> QED  BY <2>3, <2>5, <2>6
  <1>5. CASE UNCHANGED lists /\ (\E k \in Keys : TRUE) /\ ReplyOK'
    BY <1>0, <1>5 DEF ListsOK
  <1> QED  BY <1>1, <1>2, <1>3, <1>4, <1>5 DEF ListCommand, LLen, LRange, LIndex

LEMMA SetCommandTyped ==
  ASSUME TypeInv, SetCommand
  PROVE  SetsOK' /\ ReplyOK' /\ \E k \in Keys : \A q \in Keys \ {k} : sets'[q] = sets[q]
  <1> USE ReplyTypes DEF ReplyOK
  <1>0. SetsOK
    BY DEF TypeInv
  <1>1. CASE \E k \in Keys, ms \in ListsOf(Values) : SAdd(k, ms)
    <2>1. PICK k \in Keys, ms \in ListsOf(Values) : SAdd(k, ms)
      BY <1>1
    <2>2. Members(k) \cup Elements(ms) \in SUBSET Values /\ IsFiniteSet(Members(k) \cup Elements(ms))
      BY Found, ListsAreSequences, FS_Union
    <2> QED  BY <1>0, <2>1, <2>2 DEF SAdd, SetsOK
  <1>2. CASE ReplyOK' /\ \E k \in Keys : \E ms : SetRemove(k, ms)
    <2>1. PICK k \in Keys : \E ms : SetRemove(k, ms)
      BY <1>2
    <2>2. PICK ms : SetRemove(k, ms)
      BY <2>1
    <2>3. Members(k) \ Elements(ms) \in SUBSET Values /\ IsFiniteSet(Members(k) \ Elements(ms))
      BY Found, FS_Difference
    <2> QED  BY <1>0, <1>2, <2>2, <2>3 DEF SetRemove, SetsOK
  <1>3. CASE UNCHANGED sets /\ (\E k \in Keys : TRUE) /\ ReplyOK'
    BY <1>0, <1>3 DEF SetsOK
  <1> QED  BY <1>1, <1>2, <1>3
       DEF SetCommand, SRem, SPop, SRandMember, SIsMember, SMembers, SCard

LEMMA NewZSetTyped ==
  ASSUME ZSetsOK, NEW k \in Keys, NEW z,
         z # NoEntry => IsMap(z, Numbers) /\ IsFiniteSet(DOMAIN z),
         zsets' = [zsets EXCEPT ![k] = z]
  PROVE  ZSetsOK' /\ \A q \in Keys \ {k} : zsets'[q] = zsets[q]
  BY DEF ZSetsOK

LEMMA ZSetCommandTyped ==
  ASSUME TypeInv, ZSetCommand
  PROVE  ZSetsOK' /\ ReplyOK' /\ \E k \in Keys : \A q \in Keys \ {k} : zsets'[q] = zsets[q]
  <1> USE ReplyTypes DEF ReplyOK
  <1>0. ZSetsOK
    BY DEF TypeInv
  <1>1. ASSUME NEW k \in Keys, NEW ps \in Seq(Values \X Numbers), ZSetAdd(k, ps)
        PROVE  ZSetsOK' /\ \A q \in Keys \ {k} : zsets'[q] = zsets[q]
    <2>1. IsMap(PutAll(ZSet(k), ps), Numbers) /\ IsFiniteSet(DOMAIN PutAll(ZSet(k), ps))
      BY Found, PutAllIsMap
    <2> QED  BY <1>0, <1>1, <2>1, NewZSetTyped DEF ZSetAdd
  <1>2. CASE \E k \in Keys, ps \in ListsOf(Values \X Scores) \cup {<<>>} : ZAdd(k, ps)
    <2>1. PICK k \in Keys, ps \in ListsOf(Values \X Scores) \cup {<<>>} : ZAdd(k, ps)
      BY <1>2
    <2>2. ps \in Seq(Values \X Numbers)
      <3>1. ps \in Seq(Values \X Scores)
        <4>1. CASE ps \in ListsOf(Values \X Scores)
          BY <4>1, ListsAreSequences
        <4>2. CASE ps = <<>>
          BY <4>2
        <4> QED  BY <4>1, <4>2
      <3>2. Values \X Scores \subseteq Values \X Numbers
        BY SortedSetsAssumption DEF Numbers
      <3> QED  BY <3>1, <3>2
    <2>3. CASE UNCHANGED zsets
      BY <1>0, <2>1, <2>3 DEF ZAdd, ZSetsOK
    <2>4. CASE ZSetAdd(k, ps)
      BY <1>1, <2>1, <2>2, <2>4 DEF ZAdd
    <2> QED  BY <2>1, <2>3, <2>4 DEF ZAdd
  <1>3. CASE \E k \in Keys, m \in Values, s \in Scores, nx \in BOOLEAN, xx \in BOOLEAN :
               ZAddIncr(k, m, s, nx, xx)
    <2>1. PICK k \in Keys, m \in Values, s \in Scores, nx \in BOOLEAN, xx \in BOOLEAN :
            ZAddIncr(k, m, s, nx, xx)
      BY <1>3
    <2>2. CASE UNCHANGED zsets
      BY <1>0, <2>1, <2>2 DEF ZAddIncr, ZSetsOK
    <2>3. CASE \E x \in (-ScoreBound .. ScoreBound) \cup {NaN} : ZSetAdd(k, <<<<m, x>>>>)
      <3>1. PICK x \in (-ScoreBound .. ScoreBound) \cup {NaN} : ZSetAdd(k, <<<<m, x>>>>)
        BY <2>3
      <3>2. x \in Numbers
        BY SortedSetsAssumption DEF Numbers
      <3>3. <<<<m, x>>>> \in Seq(Values \X Numbers)
        BY <3>2
      <3> QED  BY <1>1, <2>1, <3>1, <3>3 DEF ZAddIncr
    <2> QED  BY <2>1, <2>2, <2>3 DEF ZAddIncr
  <1>4. CASE \E k \in Keys, ms \in ListsOf(Values) : ZRem(k, ms)
    <2>1. PICK k \in Keys, ms \in ListsOf(Values) : ZRem(k, ms)
      BY <1>4
    <2>2. IsMap(Without(ZSet(k), ms), Numbers) /\ IsFiniteSet(DOMAIN Without(ZSet(k), ms))
      BY Found, WithoutIsMap
    <2> DEFINE z == IF DOMAIN ZSet(k) \subseteq Elements(ms) THEN NoEntry ELSE Without(ZSet(k), ms)
    <2>3. z # NoEntry => IsMap(z, Numbers) /\ IsFiniteSet(DOMAIN z)
      BY <2>2
    <2>4. zsets' = [zsets EXCEPT ![k] = z]
      BY <2>1 DEF ZRem
    <2> HIDE DEF z
    <2> QED  BY <1>0, <2>1, <2>3, <2>4, NewZSetTyped DEF ZRem
  <1>5. ASSUME NEW k \in Keys,
               \/ \E m \in Values : ZScore(k, m)
               \/ ZCard(k)
               \/ \E i, j, w : ZRange(k, i, j, w)
               \/ \E min, max, l, w : ZRangeByScore(k, min, max, l, w)
               \/ \E min, max : ZCount(k, min, max)
        PROVE  ZSetsOK' /\ ReplyOK' /\ \A q \in Keys \ {k} : zsets'[q] = zsets[q]
    <2>1. UNCHANGED zsets /\ ReplyOK'
      BY <1>5 DEF ZScore, ZCard, ZRange, ZRangeByScore, ZCount, WithScores
    <2> QED  BY <1>0, <2>1 DEF ZSetsOK
  <1> QED  BY <1>2, <1>3, <1>4, <1>5 DEF ZSetCommand

LEMMA DeleteKeysTyped ==
  ASSUME TypeInv, NEW K, DeleteKeys(K)
  PROVE  /\ strings' \subseteq Keys /\ HashesOK' /\ ListsOK' /\ SetsOK' /\ ZSetsOK'
         /\ AllKeys' \subseteq AllKeys
  <1>1. strings' \subseteq strings
    BY DEF DeleteKeys
  <1>2. HashesOK' /\ HashKeys' \subseteq HashKeys
    BY DEF TypeInv, DeleteKeys, Drop, HashesOK, HashKeys
  <1>3. ListsOK' /\ ListKeys' \subseteq ListKeys
    BY DEF TypeInv, DeleteKeys, Drop, ListsOK, ListKeys
  <1>4. SetsOK' /\ SetKeys' \subseteq SetKeys
    BY DEF TypeInv, DeleteKeys, Drop, SetsOK, SetKeys
  <1>5. ZSetsOK' /\ ZSetKeys' \subseteq ZSetKeys
    BY DEF TypeInv, DeleteKeys, Drop, ZSetsOK, ZSetKeys
  <1> QED  BY <1>1, <1>2, <1>3, <1>4, <1>5 DEF AllKeys, TypeInv

(* A map whose commands touch one key at a time gains one key at most.     *)
LEMMA OneKeyMore ==
  ASSUME TypeInv, NEW k, AllKeys' \subseteq AllKeys \cup {k}
  PROVE  IsFiniteSet(AllKeys')
  <1>1. IsFiniteSet(AllKeys \cup {k})
    BY FS_AddElement DEF TypeInv
  <1> QED  BY <1>1, FS_Subset

LEMMA InitTyped == Init => TypeInv
  <1> SUFFICES ASSUME Init
               PROVE  TypeInv
    OBVIOUS
  <1>1. AllKeys = {}
    BY DEF Init, AllKeys, HashKeys, ListKeys, SetKeys, ZSetKeys
  <1>2. IsFiniteSet(AllKeys)
    BY <1>1, FS_EmptySet
  <1> QED  BY <1>2, ReplyTypes DEF Init, TypeInv, HashesOK, ListsOK, SetsOK, ZSetsOK, ReplyOK

LEMMA CommandTyped ==
  ASSUME TypeInv,
         \/ HashCommand /\ UNCHANGED <<strings, lists, sets, zsets>>
         \/ ListCommand /\ UNCHANGED <<strings, hashes, sets, zsets>>
         \/ SetCommand /\ UNCHANGED <<strings, hashes, lists, zsets>>
         \/ ZSetCommand /\ UNCHANGED <<strings, hashes, lists, sets>>
         \/ KeyspaceCommand
  PROVE  TypeInv'
  <1> USE DEF AllKeys, HashKeys, ListKeys, SetKeys, ZSetKeys
  <1>1. CASE HashCommand /\ UNCHANGED <<strings, lists, sets, zsets>>
    <2>1. HashesOK' /\ ReplyOK' /\ \E k \in Keys : \A q \in Keys \ {k} : hashes'[q] = hashes[q]
      BY <1>1, HashCommandTyped
    <2>2. IsFiniteSet(AllKeys')
      BY <1>1, <2>1, OneKeyMore
    <2>3. strings' \subseteq Keys /\ ListsOK' /\ SetsOK' /\ ZSetsOK'
      BY <1>1 DEF TypeInv, ListsOK, SetsOK, ZSetsOK
    <2> QED  BY <2>1, <2>2, <2>3 DEF TypeInv
  <1>2. CASE ListCommand /\ UNCHANGED <<strings, hashes, sets, zsets>>
    <2>1. ListsOK' /\ ReplyOK' /\ \E k \in Keys : \A q \in Keys \ {k} : lists'[q] = lists[q]
      BY <1>2, ListCommandTyped
    <2>2. IsFiniteSet(AllKeys')
      BY <1>2, <2>1, OneKeyMore
    <2>3. strings' \subseteq Keys /\ HashesOK' /\ SetsOK' /\ ZSetsOK'
      BY <1>2 DEF TypeInv, HashesOK, SetsOK, ZSetsOK
    <2> QED  BY <2>1, <2>2, <2>3 DEF TypeInv
  <1>3. CASE SetCommand /\ UNCHANGED <<strings, hashes, lists, zsets>>
    <2>1. SetsOK' /\ ReplyOK' /\ \E k \in Keys : \A q \in Keys \ {k} : sets'[q] = sets[q]
      BY <1>3, SetCommandTyped
    <2>2. IsFiniteSet(AllKeys')
      BY <1>3, <2>1, OneKeyMore
    <2>3. strings' \subseteq Keys /\ HashesOK' /\ ListsOK' /\ ZSetsOK'
      BY <1>3 DEF TypeInv, HashesOK, ListsOK, ZSetsOK
    <2> QED  BY <2>1, <2>2, <2>3 DEF TypeInv
  <1>4. CASE ZSetCommand /\ UNCHANGED <<strings, hashes, lists, sets>>
    <2>1. ZSetsOK' /\ ReplyOK' /\ \E k \in Keys : \A q \in Keys \ {k} : zsets'[q] = zsets[q]
      BY <1>4, ZSetCommandTyped
    <2>2. IsFiniteSet(AllKeys')
      BY <1>4, <2>1, OneKeyMore
    <2>3. strings' \subseteq Keys /\ HashesOK' /\ ListsOK' /\ SetsOK'
      BY <1>4 DEF TypeInv, HashesOK, ListsOK, SetsOK
    <2> QED  BY <2>1, <2>2, <2>3 DEF TypeInv
  <1>5. CASE KeyspaceCommand
    <2> HIDE DEF AllKeys
    <2>1. CASE \E k \in Keys : SetString(k)
      <3>1. PICK k \in Keys : SetString(k)
        BY <2>1
      <3>2. AllKeys' \subseteq AllKeys \cup {k}
        BY <3>1 DEF SetString, AllKeys
      <3>3. IsFiniteSet(AllKeys')
        BY <3>2, OneKeyMore
      <3> QED  BY <3>1, <3>3, ReplyTypes
           DEF SetString, TypeInv, HashesOK, ListsOK, SetsOK, ZSetsOK, ReplyOK
    <2>2. CASE \E K : DeleteKeys(K) /\ \E n : reply' \in {OK, Integer(n)}
      <3>1. /\ strings' \subseteq Keys /\ HashesOK' /\ ListsOK' /\ SetsOK' /\ ZSetsOK'
            /\ AllKeys' \subseteq AllKeys
        BY <2>2, DeleteKeysTyped
      <3>2. IsFiniteSet(AllKeys')
        BY <3>1, FS_Subset DEF TypeInv
      <3> QED  BY <2>2, <3>1, <3>2, ReplyTypes DEF TypeInv, ReplyOK
    <2>3. CASE UNCHANGED stores /\ ReplyOK'
      BY <2>3 DEF stores, TypeInv, AllKeys, HashesOK, ListsOK, SetsOK, ZSetsOK
    <2>4. ASSUME NEW ks, Del(ks)
          PROVE  \E K : DeleteKeys(K) /\ \E n : reply' \in {OK, Integer(n)}
      BY <2>4 DEF Del
    <2>5. ASSUME FlushDb
          PROVE  \E K : DeleteKeys(K) /\ \E n : reply' \in {OK, Integer(n)}
      BY <2>5 DEF FlushDb
    <2>6. ASSUME \/ \E k \in Keys : Type(k)
                 \/ \E ks : Exists(ks)
                 \/ \E P : KeysByPattern(P)
                 \/ DbSize \/ RandomKey
          PROVE  UNCHANGED stores /\ ReplyOK'
      BY <2>6, ReplyTypes DEF Type, Exists, KeysByPattern, DbSize, RandomKey, ReplyOK
    <2> QED  BY <1>5, <2>1, <2>2, <2>3, <2>4, <2>5, <2>6 DEF KeyspaceCommand
  <1> QED  BY <1>1, <1>2, <1>3, <1>4, <1>5

LEMMA NextTyped == TypeInv /\ [Next]_vars => TypeInv'
  <1> SUFFICES ASSUME TypeInv, [Next]_vars
               PROVE  TypeInv'
    OBVIOUS
  <1>1. CASE Next
    BY <1>1, CommandTyped DEF Next
  <1>2. CASE UNCHANGED vars
    BY <1>2 DEF vars, stores, TypeInv, AllKeys, HashKeys, ListKeys, SetKeys, ZSetKeys,
            HashesOK, ListsOK, SetsOK, ZSetsOK, ReplyOK
  <1> QED  BY <1>1, <1>2

(* Every map of the database holds what its commands put in it: hashes and *)
(* sorted sets of members of the right kind, sequences and sets of values, *)
(* whatever the values, the limits and the scores are.                     *)
THEOREM TypeCorrect == Spec => []TypeOK
  BY InitTyped, NextTyped, TypeInvIsTypeOK, PTL DEF Spec
----------------------------------------------------------------------------
(* The database keeps its promise *)

(* The instance has its own copies of the operators it is built from.      *)
LEMMA SameOperators ==
  /\ \A S : Promise!Cardinality(S) = Cardinality(S) /\ Promise!ListsOf(S) = ListsOf(S)
  /\ \A xs : Promise!Elements(xs) = Elements(xs)
  /\ \A ps : Promise!Names(ps) = Elements(Names(ps))
  /\ \A x : /\ Promise!Integer(x) = Integer(x) /\ Promise!Bulk(x) = Bulk(x)
            /\ Promise!Array(x) = Array(x) /\ Promise!Unordered(x) = Unordered(x)
            /\ Promise!Simple(x) = Simple(x) /\ Promise!BulkOrNull(x) = BulkOrNull(x)
  /\ Promise!NullReply = NullReply /\ Promise!Error = Error /\ Promise!OK = OK
  <1>1. ASSUME NEW S
        PROVE  Promise!Cardinality(S) = Cardinality(S) /\ Promise!ListsOf(S) = ListsOf(S)
    BY DEF Promise!Cardinality, Cardinality, Promise!ListsOf, ListsOf
  <1>2. ASSUME NEW xs
        PROVE  Promise!Elements(xs) = Elements(xs) /\ Promise!Names(xs) = Elements(Names(xs))
    BY DEF Promise!Elements, Elements, Promise!Names, Names
  <1>3. ASSUME NEW x
        PROVE  /\ Promise!Integer(x) = Integer(x) /\ Promise!Bulk(x) = Bulk(x)
               /\ Promise!Array(x) = Array(x) /\ Promise!Unordered(x) = Unordered(x)
               /\ Promise!Simple(x) = Simple(x) /\ Promise!BulkOrNull(x) = BulkOrNull(x)
    BY DEF Promise!Integer, Integer, Promise!Bulk, Bulk, Promise!Array, Array, Promise!Unordered,
           Unordered, Promise!Simple, Simple, Promise!BulkOrNull, BulkOrNull,
           Promise!NullReply, NullReply
  <1>4. Promise!NullReply = NullReply /\ Promise!Error = Error /\ Promise!OK = OK
    BY DEF Promise!NullReply, NullReply, Promise!Error, Error, Promise!OK, OK,
           Promise!Simple, Simple
  <1> QED  BY <1>1, <1>2, <1>3, <1>4

(* An element counts once, at the first of the positions that hold it.     *)
LEMMA FirstsCount ==
  ASSUME NEW S, NEW xs \in Seq(S), NEW W, W \subseteq Elements(xs)
  PROVE  /\ Cardinality({i \in Firsts(xs) : xs[i] \in W}) = Cardinality(W)
         /\ IsFiniteSet(W)
  <1> DEFINE P == {i \in Firsts(xs) : xs[i] \in W}
             f == [i \in P |-> xs[i]]
  <1>1. DOMAIN xs = 1 .. Len(xs) /\ Len(xs) \in Nat
    OBVIOUS
  <1>2. P \subseteq 1 .. Len(xs) /\ IsFiniteSet(P)
    <2>1. P \subseteq 1 .. Len(xs)
      BY <1>1 DEF Firsts
    <2>2. IsFiniteSet(1 .. Len(xs))
      BY <1>1, FS_Interval
    <2> HIDE DEF P
    <2> QED  BY <2>1, <2>2, FS_Subset
  <1>3. ASSUME NEW w \in W
        PROVE  \E i \in P : xs[i] = w
    <2> DEFINE Q == {i \in 1 .. Len(xs) : xs[i] = w}
    <2>1. Q \subseteq Nat /\ Q # {}
      BY <1>1 DEF Elements
    <2> HIDE DEF Q
    <2>2. PICK i \in Q : \A j \in Q : i <= j
      BY <2>1, Least
    <2>3. i \in DOMAIN xs /\ xs[i] = w /\ \A j \in DOMAIN xs : j < i => xs[j] # xs[i]
      BY <1>1, <2>2 DEF Q
    <2> QED  BY <2>3 DEF Firsts
  <1>4. ASSUME NEW i \in P, NEW j \in P, xs[i] = xs[j]
        PROVE  i = j
    <2>1. i \in Nat /\ j \in Nat
      BY <1>2
    <2>2. ~ (i < j) /\ ~ (j < i)
      BY <1>4 DEF Firsts
    <2> QED  BY <2>1, <2>2
  <1>5. f \in Bijection(P, W)
    <2>1. f \in [P -> W] /\ \A i \in P : f[i] = xs[i]
      OBVIOUS
    <2> HIDE DEF P, f
    <2> QED  BY <1>3, <1>4, <2>1 DEF Bijection, Injection, Surjection, IsInjective
  <1> HIDE DEF P, f
  <1>6. Cardinality(W) = Cardinality(P) /\ IsFiniteSet(W)
    <2>1. ExistsBijection(P, W)
      BY <1>5 DEF ExistsBijection
    <2> QED  BY <1>2, <2>1, FS_Bijection
  <1> QED  BY <1>6 DEF P

LEMMA AddedCounts ==
  ASSUME NEW S, NEW xs \in Seq(S), NEW X
  PROVE  /\ Added(xs, X) = Cardinality(Elements(xs) \ X)
         /\ Removed(xs, X) = Cardinality(X \cap Elements(xs))
  <1>1. \A i \in Firsts(xs) : xs[i] \in Elements(xs)
    BY DEF Firsts, Elements
  <1> DEFINE A == Elements(xs) \ X
             R == X \cap Elements(xs)
  <1>2. {i \in Firsts(xs) : xs[i] \notin X} = {i \in Firsts(xs) : xs[i] \in A}
    BY <1>1
  <1>3. {i \in Firsts(xs) : xs[i] \in X} = {i \in Firsts(xs) : xs[i] \in R}
    BY <1>1
  <1>4. A \subseteq Elements(xs) /\ R \subseteq Elements(xs)
    OBVIOUS
  <1> HIDE DEF A, R
  <1>5. Cardinality({i \in Firsts(xs) : xs[i] \in A}) = Cardinality(A)
    BY <1>4, FirstsCount
  <1>6. Cardinality({i \in Firsts(xs) : xs[i] \in R}) = Cardinality(R)
    BY <1>4, FirstsCount
  <1> QED  BY <1>2, <1>3, <1>5, <1>6 DEF Added, Removed, A, R

LEMMA NamesAreSequences ==
  ASSUME NEW S, NEW T, NEW ps \in Seq(S \X T)
  PROVE  Names(ps) \in Seq(S) /\ DOMAIN Names(ps) = DOMAIN ps
  <1>1. DOMAIN ps = 1 .. Len(ps) /\ Len(ps) \in Nat /\ \A i \in DOMAIN ps : ps[i] \in S \X T
    OBVIOUS
  <1>2. \A i \in DOMAIN ps : ps[i][1] \in S
    BY <1>1
  <1> QED  BY <1>1, <1>2 DEF Names

(* A loop of Map.set lays the pairs over the map.                          *)
LEMMA PutAllOverlays ==
  ASSUME NEW T, NEW m, NEW S, NEW ps \in Seq(Values \X T), T \subseteq S,
         \A f \in DOMAIN m : m[f] \in S
  PROVE  PutAll(m, ps) \in Promise!Overlays(m, ps, S)
  <1> DEFINE N == Elements(Names(ps))
             p == PutAll(m, ps)
  <1>1. DOMAIN ps = 1 .. Len(ps) /\ Len(ps) \in Nat /\ \A i \in DOMAIN ps : ps[i] \in Values \X T
    OBVIOUS
  <1>2. \A f \in N : /\ LastOf(ps, f) \in DOMAIN ps /\ ps[LastOf(ps, f)][1] = f
                     /\ \A j \in DOMAIN ps : j > LastOf(ps, f) => ps[j][1] # f
    BY <1>1, LastIsLast
  <1>3. p = [f \in DOMAIN m \cup N |-> IF f \in N THEN ps[LastOf(ps, f)][2] ELSE m[f]]
    BY DEF PutAll
  <1>4. \A i \in DOMAIN ps : ps[i][1] \in N /\ ps[i][2] \in S
    BY <1>1 DEF Elements, Names
  <1> HIDE DEF N, p
  <1>5. p \in [DOMAIN m \cup N -> S]
    BY <1>2, <1>3, <1>4
  <1>6. \A f \in DOMAIN m \ N : p[f] = m[f]
    BY <1>3
  <1>7. ASSUME NEW i \in DOMAIN ps, \A j \in DOMAIN ps : j > i => ps[j][1] # ps[i][1]
        PROVE  p[ps[i][1]] = ps[i][2]
    <2> DEFINE l == LastOf(ps, ps[i][1])
    <2>1. /\ l \in DOMAIN ps /\ ps[l][1] = ps[i][1]
          /\ \A j \in DOMAIN ps : j > l => ps[j][1] # ps[i][1]
      BY <1>2, <1>4
    <2> HIDE DEF l
    <2>2. l \in Nat /\ i \in Nat /\ ~ (l < i) /\ ~ (i < l)
      BY <1>1, <1>7, <2>1
    <2>3. l = i
      BY <2>2
    <2> QED  BY <1>3, <1>4, <2>3 DEF l
  <1>8. Promise!Names(ps) = N
    BY SameOperators DEF N
  <1> QED  BY <1>5, <1>6, <1>7, <1>8 DEF Promise!Overlays, p

(* What the promise sees of the four maps and of the husks.                *)
HashesSeen == Seen(hashes, Empty)
ListsSeen  == Seen(lists, Empty)
SetsSeen   == Seen(sets, {})
ZSetsSeen  == Seen(zsets, Empty)
Husks      == HusksOf(lists, sets, zsets)

LEMMA SeenIsFound ==
  /\ \A k \in Keys : /\ HashesSeen[k] = Hash(k) /\ ListsSeen[k] = List(k)
                     /\ SetsSeen[k] = Members(k) /\ ZSetsSeen[k] = ZSet(k)
  /\ DOMAIN HashesSeen = Keys /\ DOMAIN ListsSeen = Keys
  /\ DOMAIN SetsSeen = Keys /\ DOMAIN ZSetsSeen = Keys
  BY DEF HashesSeen, ListsSeen, SetsSeen, ZSetsSeen, Seen, Hash, List, Members, ZSet

LEMMA HusksAre ==
  /\ \A k \in Keys : /\ <<"list", k>> \in Husks <=> lists[k] = Empty
                     /\ <<"set", k>> \in Husks <=> sets[k] = {}
                     /\ <<"zset", k>> \in Husks <=> zsets[k] = Empty
  /\ \A h \in Husks : h \in {"list", "set", "zset"} \X Keys
  BY DEF Husks, HusksOf

(* What a command on one map leaves alone.                                 *)
LEMMA UnchangedMaps ==
  /\ UNCHANGED hashes => UNCHANGED HashesSeen
  /\ UNCHANGED lists => UNCHANGED ListsSeen
  /\ UNCHANGED sets => UNCHANGED SetsSeen
  /\ UNCHANGED zsets => UNCHANGED ZSetsSeen
  /\ UNCHANGED <<lists, sets, zsets>> => UNCHANGED Husks
  BY DEF HashesSeen, ListsSeen, SetsSeen, ZSetsSeen, Husks

(* A new entry of a map is a new collection, or an empty one.              *)
OrNone(e, none) == IF e = NoEntry THEN none ELSE e

LEMMA SeenChanges ==
  ASSUME NEW m, NEW n, NEW none, DOMAIN m = Keys, NEW k \in Keys, NEW e,
         n = [m EXCEPT ![k] = e]
  PROVE  Seen(n, none) = [Seen(m, none) EXCEPT ![k] = OrNone(e, none)]
  BY DEF Seen, OrNone

LEMMA HashWritten ==
  ASSUME TypeInv, NEW k \in Keys, NEW e, hashes' = [hashes EXCEPT ![k] = e],
         UNCHANGED <<strings, lists, sets, zsets>>
  PROVE  Promise!SetHash(k, OrNone(e, Empty))
  <1>1. HashesSeen' = [HashesSeen EXCEPT ![k] = OrNone(e, Empty)]
    BY DEF TypeInv, HashesOK, HashesSeen, Seen, OrNone
  <1>2. UNCHANGED <<strings, ListsSeen, SetsSeen, ZSetsSeen, Husks>>
    BY UnchangedMaps
  <1> QED  BY <1>1, <1>2
       DEF Promise!SetHash, HashesSeen, ListsSeen, SetsSeen, ZSetsSeen, Husks

(* A command that leaves the hash as it is writes it again.                *)
LEMMA HashKept ==
  ASSUME TypeInv, NEW k \in Keys, UNCHANGED <<strings, hashes, lists, sets, zsets>>
  PROVE  Promise!SetHash(k, Hash(k))
  <1>1. HashesSeen' = [HashesSeen EXCEPT ![k] = Hash(k)]
    <2>1. HashesSeen' = HashesSeen /\ HashesSeen[k] = Hash(k) /\ DOMAIN HashesSeen = Keys
      BY UnchangedMaps, SeenIsFound
    <2>2. HashesSeen = [x \in Keys |-> HashesSeen[x]]
      BY DEF HashesSeen, Seen
    <2> QED  BY <2>1, <2>2
  <1>2. UNCHANGED <<strings, ListsSeen, SetsSeen, ZSetsSeen, Husks>>
    BY UnchangedMaps
  <1> QED  BY <1>1, <1>2
       DEF Promise!SetHash, HashesSeen, ListsSeen, SetsSeen, ZSetsSeen, Husks

(* A map of collections is none of the entries NoEntry stands for.         *)
LEMMA MapsAreEntries ==
  ASSUME NEW S, S \in {Values, Numbers}, NEW m, IsMap(m, S)
  PROVE  m # NoEntry
  <1>1. PICK F \in SUBSET Values : m \in [F -> S]
    BY DEF IsMap
  <1>2. NoEntry \notin [F -> Values] /\ NoEntry \notin [F -> Int \cup {NaN}]
    BY CollectionsAssumption
  <1> QED  BY <1>1, <1>2 DEF Numbers

LEMMA HashValues ==
  ASSUME TypeInv, NEW k \in Keys
  PROVE  \A f \in DOMAIN Hash(k) : f \in Values /\ Hash(k)[f] \in Values /\ Hash(k)[f] # Nil
  <1>1. PICK F \in SUBSET Values : Hash(k) \in [F -> Values]
    BY Found DEF IsMap
  <1> QED  BY <1>1, CollectionsAssumption

LEMMA HashFieldsWritten ==
  ASSUME TypeInv, NEW k \in Keys, NEW ps \in Seq(Values \X Values), SetHashFields(k, ps),
         UNCHANGED <<strings, lists, sets, zsets>>
  PROVE  \E h \in Promise!Overlays(Hash(k), ps, Values) : Promise!SetHash(k, h)
  <1> DEFINE h == PutAll(Hash(k), ps)
  <1>1. h # NoEntry
    <2>1. IsMap(h, Values)
      BY Found, PutAllIsMap
    <2> QED  BY <2>1, MapsAreEntries
  <1>2. Promise!SetHash(k, OrNone(h, Empty))
    BY HashWritten DEF SetHashFields
  <1>3. h \in Promise!Overlays(Hash(k), ps, Values)
    BY HashValues, PutAllOverlays
  <1> HIDE DEF h
  <1> QED  BY <1>1, <1>2, <1>3 DEF OrNone

LEMMA HSetRefines ==
  ASSUME TypeInv, NEW k \in Keys, NEW ps \in ListsOf(Values \X Values),
         UNCHANGED <<strings, lists, sets, zsets>>,
         \/ request' = <<"HSET", k, ps>> /\ HSet(k, ps)
         \/ request' = <<"HMSET", k, ps>> /\ HMSet(k, ps)
  PROVE  Promise!HashWrite
  <1>1. ps \in Seq(Values \X Values)
    BY ListsAreSequences
  <1>2. \E h \in Promise!Overlays(Hash(k), ps, Values) : Promise!SetHash(k, h)
    BY <1>1, HashFieldsWritten DEF HSet, HMSet
  <1>3. Names(ps) \in Seq(Values)
    BY <1>1, NamesAreSequences
  <1>4. Added(Names(ps), DOMAIN Hash(k)) = Cardinality(Elements(Names(ps)) \ DOMAIN Hash(k))
    BY <1>3, AddedCounts
  <1>5. /\ request' \in {<<"HSET", k, ps>>, <<"HMSET", k, ps>>}
        /\ reply' = IF request'[1] = "HMSET" THEN OK
                    ELSE Integer(Cardinality(Elements(Names(ps)) \ DOMAIN Hash(k)))
    BY <1>4 DEF HSet, HMSet
  <1> QED  BY <1>2, <1>5, SameOperators, SeenIsFound DEF Promise!HashWrite, HashesSeen

LEMMA HSetNxRefines ==
  ASSUME TypeInv, NEW k \in Keys, NEW f \in Values, NEW v \in Values,
         UNCHANGED <<strings, lists, sets, zsets>>,
         request' = <<"HSETNX", k, f, v>>, HSetNx(k, f, v)
  PROVE  Promise!HashWrite
  <1> DEFINE ps == <<<<f, v>>>>
             there == f \in DOMAIN Hash(k)
  <1>1. ps \in Seq(Values \X Values)
    OBVIOUS
  <1>2. HashField(k, f) # Nil <=> there
    BY HashValues DEF HashField
  <1>3. reply' = Promise!Bit(f \notin DOMAIN Hash(k))
    BY <1>2, SameOperators DEF HSetNx, Promise!Bit
  <1>4. \E h \in Promise!Overlays(Hash(k), ps, Values) :
          Promise!SetHash(k, IF there THEN Hash(k) ELSE h)
    <2>1. CASE there
      <3>1. UNCHANGED hashes
        BY <1>2, <2>1 DEF HSetNx
      <3>2. Promise!SetHash(k, Hash(k))
        BY <3>1, HashKept
      <3>3. PutAll(Hash(k), ps) \in Promise!Overlays(Hash(k), ps, Values)
        BY <1>1, HashValues, PutAllOverlays
      <3> HIDE DEF ps, there
      <3> QED  BY <2>1, <3>2, <3>3
    <2>2. CASE ~ there
      <3>1. SetHashFields(k, ps)
        BY <1>2, <2>2 DEF HSetNx
      <3>2. \E h \in Promise!Overlays(Hash(k), ps, Values) : Promise!SetHash(k, h)
        BY <1>1, <3>1, HashFieldsWritten
      <3> HIDE DEF ps, there
      <3> QED  BY <2>2, <3>2
    <2> QED  BY <2>1, <2>2
  <1> QED  BY <1>3, <1>4, SeenIsFound DEF Promise!HashWrite, HashesSeen

LEMMA HDelRefines ==
  ASSUME TypeInv, NEW k \in Keys, NEW fs \in ListsOf(Values),
         UNCHANGED <<strings, lists, sets, zsets>>,
         request' = <<"HDEL", k, fs>>, HDel(k, fs)
  PROVE  Promise!HashWrite
  <1> DEFINE left == Without(Hash(k), fs)
             e == IF DOMAIN Hash(k) \subseteq Elements(fs) THEN NoEntry ELSE left
  <1>1. left # NoEntry
    <2>1. IsMap(left, Values)
      BY Found, WithoutIsMap
    <2> QED  BY <2>1, MapsAreEntries
  <1>2. Promise!SetHash(k, OrNone(e, Empty))
    BY HashWritten DEF HDel, DelHashFields
  <1>3. DOMAIN Hash(k) \subseteq Elements(fs) => left = Empty
    BY DEF Without, Empty
  <1>4. OrNone(e, Empty) = left
    BY <1>1, <1>3 DEF OrNone
  <1>5. left = Promise!Restricted(Hash(k), DOMAIN Hash(k) \ Elements(fs))
    BY DEF Without, Promise!Restricted
  <1>6. reply' = Integer(Cardinality(DOMAIN Hash(k) \cap Elements(fs)))
    <2>1. fs \in Seq(Values)
      BY ListsAreSequences
    <2> QED  BY <2>1, AddedCounts DEF HDel
  <1> HIDE DEF left, e
  <1> QED  BY <1>2, <1>4, <1>5, <1>6, SameOperators, SeenIsFound DEF Promise!HashWrite, HashesSeen

(* A command that only looks is an answer of the promise.                  *)
LEMMA Answered ==
  ASSUME UNCHANGED <<strings, hashes, lists, sets, zsets>>,
         \/ \E k \in Keys : \/ Promise!HashAnswer(k) \/ Promise!ListAnswer(k)
                            \/ Promise!SetAnswer(k) \/ Promise!ZSetAnswer(k)
         \/ Promise!KeyspaceAnswer
  PROVE  Promise!Next
  <1>1. UNCHANGED <<strings, HashesSeen, ListsSeen, SetsSeen, ZSetsSeen, Husks>>
    BY UnchangedMaps
  <1> QED  BY <1>1
       DEF Promise!Next, Promise!Answer, HashesSeen, ListsSeen, SetsSeen, ZSetsSeen, Husks

LEMMA HashFieldLooksUp ==
  ASSUME NEW k \in Keys, NEW f
  PROVE  HashField(k, f) = Promise!Lookup(Hash(k), f)
  BY DEF HashField, Promise!Lookup

LEMMA HashAnswers ==
  ASSUME TypeInv, NEW k \in Keys,
         \/ \E fs \in ListsOf(Values) : request' = <<"HMGET", k, fs>> /\ HMGet(k, fs)
         \/ \E f \in Values : \/ request' = <<"HGET", k, f>> /\ HGet(k, f)
                              \/ request' = <<"HEXISTS", k, f>> /\ HExists(k, f)
         \/ request' = <<"HLEN", k>> /\ HLen(k)
         \/ request' = <<"HKEYS", k>> /\ HKeys(k)
         \/ request' = <<"HGETALL", k>> /\ HGetAll(k)
         \/ request' = <<"HVALS", k>> /\ HVals(k)
  PROVE  Promise!HashAnswer(k)
  <1> USE SameOperators, SeenIsFound
  <1>1. CASE \E fs \in ListsOf(Values) : request' = <<"HMGET", k, fs>> /\ HMGet(k, fs)
    <2>1. PICK fs \in ListsOf(Values) : request' = <<"HMGET", k, fs>> /\ HMGet(k, fs)
      BY <1>1
    <2>2. reply' = Array([i \in DOMAIN fs |-> Promise!Lookup(Hash(k), fs[i])])
      BY <2>1 DEF HMGet, HashField, Promise!Lookup
    <2> QED  BY <2>1, <2>2 DEF Promise!HashAnswer, HashesSeen
  <1>2. CASE \E f \in Values : request' = <<"HGET", k, f>> /\ HGet(k, f)
    <2>1. PICK f \in Values : request' = <<"HGET", k, f>> /\ HGet(k, f)
      BY <1>2
    <2>2. reply' = BulkOrNull(Promise!Lookup(Hash(k), f))
      BY <2>1, HashFieldLooksUp DEF HGet
    <2> QED  BY <2>1, <2>2 DEF Promise!HashAnswer, HashesSeen
  <1>3. CASE \E f \in Values : request' = <<"HEXISTS", k, f>> /\ HExists(k, f)
    <2>1. PICK f \in Values : request' = <<"HEXISTS", k, f>> /\ HExists(k, f)
      BY <1>3
    <2>2. HashField(k, f) # Nil <=> f \in DOMAIN Hash(k)
      BY HashValues DEF HashField
    <2>3. reply' = Promise!Bit(f \in DOMAIN Hash(k))
      BY <2>1, <2>2 DEF HExists, Promise!Bit
    <2> QED  BY <2>1, <2>3 DEF Promise!HashAnswer, HashesSeen
  <1>4. CASE request' = <<"HLEN", k>> /\ HLen(k)
    BY <1>4 DEF HLen, Promise!HashAnswer, HashesSeen
  <1>5. CASE request' = <<"HKEYS", k>> /\ HKeys(k)
    BY <1>5 DEF HKeys, Promise!HashAnswer, HashesSeen
  <1>6. CASE request' = <<"HGETALL", k>> /\ HGetAll(k)
    BY <1>6 DEF HGetAll, Promise!HashAnswer, HashesSeen
  <1>7. CASE request' = <<"HVALS", k>> /\ HVals(k)
    <2> DEFINE h == Hash(k)
               s == HashesSeen[k]
               holding(v) == {f \in DOMAIN h : h[f] = v}
               one(f) == <<h[f], Cardinality(holding(h[f]))>>
               seen(f) == <<s[f], Promise!Cardinality({g \in DOMAIN s : s[g] = s[f]})>>
               A == {<<v, Cardinality(holding(v))>> : v \in {x \in Values : holding(x) # {}}}
               B == {one(f) : f \in DOMAIN h}
               C == {seen(f) : f \in DOMAIN s}
    <2>1. \A f \in DOMAIN h : h[f] \in Values
      BY HashValues
    <2>2. A = B
      <3>1. {x \in Values : holding(x) # {}} = {h[f] : f \in DOMAIN h}
        BY <2>1
      <3> HIDE DEF holding
      <3> QED  BY <3>1
    <2>3. reply' = Unordered(A)
      BY <1>7 DEF HVals
    <2>4. B = C
      <3>1. s = h
        OBVIOUS
      <3>2. \A S : Promise!Cardinality(S) = Cardinality(S)
        OBVIOUS
      <3> HIDE DEF s, h
      <3>3. \A f \in DOMAIN h : one(f) = seen(f)
        BY <3>1, <3>2
      <3> HIDE DEF one, seen
      <3> QED  BY <3>1, <3>3
    <2>5. reply' = Promise!Unordered(C)
      <3> HIDE DEF A, B, C
      <3> QED  BY <2>2, <2>3, <2>4
    <2> QED  BY <1>7, <2>5 DEF Promise!HashAnswer, HashesSeen
  <1> QED  BY <1>1, <1>2, <1>3, <1>4, <1>5, <1>6, <1>7

LEMMA HashRefines ==
  ASSUME TypeInv, HashCommand, UNCHANGED <<strings, lists, sets, zsets>>
  PROVE  Promise!Next
  <1>1. CASE Promise!HashWrite
    BY <1>1 DEF Promise!Next, Promise!Write
  <1>2. CASE UNCHANGED hashes /\ \E k \in Keys : Promise!HashAnswer(k)
    BY <1>2, Answered
  <1>3. ASSUME \/ \E k \in Keys, ps \in ListsOf(Values \X Values) :
                    \/ request' = <<"HSET", k, ps>> /\ HSet(k, ps)
                    \/ request' = <<"HMSET", k, ps>> /\ HMSet(k, ps)
               \/ \E k \in Keys, f \in Values, v \in Values :
                    request' = <<"HSETNX", k, f, v>> /\ HSetNx(k, f, v)
               \/ \E k \in Keys, fs \in ListsOf(Values) :
                    request' = <<"HDEL", k, fs>> /\ HDel(k, fs)
        PROVE  Promise!HashWrite
    BY <1>3, HSetRefines, HSetNxRefines, HDelRefines
  <1>4. ASSUME NEW k \in Keys,
               \/ \E fs \in ListsOf(Values) : request' = <<"HMGET", k, fs>> /\ HMGet(k, fs)
               \/ \E f \in Values : \/ request' = <<"HGET", k, f>> /\ HGet(k, f)
                                    \/ request' = <<"HEXISTS", k, f>> /\ HExists(k, f)
               \/ request' = <<"HLEN", k>> /\ HLen(k)
               \/ request' = <<"HKEYS", k>> /\ HKeys(k)
               \/ request' = <<"HGETALL", k>> /\ HGetAll(k)
               \/ request' = <<"HVALS", k>> /\ HVals(k)
        PROVE  UNCHANGED hashes /\ Promise!HashAnswer(k)
    <2>1. UNCHANGED hashes
      BY <1>4 DEF HMGet, HGet, HExists, HLen, HKeys, HGetAll, HVals
    <2>2. Promise!HashAnswer(k)
      BY <1>4, HashAnswers
    <2> QED  BY <2>1, <2>2
  <1> QED  BY <1>1, <1>2, <1>3, <1>4 DEF HashCommand
----------------------------------------------------------------------------
(* Sets keep the promise *)

LEMMA SetWritten ==
  ASSUME TypeInv, NEW k \in Keys, NEW e, e # {},
         sets' = [sets EXCEPT ![k] = e], UNCHANGED <<strings, hashes, lists, zsets>>
  PROVE  Promise!SetSet(k, OrNone(e, {}))
  <1>1. SetsSeen' = [SetsSeen EXCEPT ![k] = OrNone(e, {})]
    BY DEF TypeInv, SetsOK, SetsSeen, Seen, OrNone
  <1>2. UNCHANGED <<strings, HashesSeen, ListsSeen, ZSetsSeen>>
    BY UnchangedMaps
  <1>3. Husks' = Husks \ {<<"set", k>>}
    <2> DEFINE S == {x \in Keys : sets[x] = {}}
               R == {<<"list", q>> : q \in {x \in Keys : lists[x] = Empty}}
                      \cup {<<"zset", q>> : q \in {x \in Keys : zsets[x] = Empty}}
    <2>1. {x \in Keys : sets'[x] = {}} = S \ {k}
      BY DEF TypeInv, SetsOK
    <2>2. Husks = {<<"set", q>> : q \in S} \cup R /\ Husks' = {<<"set", q>> : q \in S \ {k}} \cup R
      BY <2>1 DEF Husks, HusksOf, Empty
    <2>3. <<"set", k>> \notin R
      OBVIOUS
    <2> HIDE DEF S, R
    <2> QED  BY <2>2, <2>3
  <1> QED  BY <1>1, <1>2, <1>3
       DEF Promise!SetSet, HashesSeen, ListsSeen, SetsSeen, ZSetsSeen, Husks

LEMMA SAddRefines ==
  ASSUME TypeInv, NEW k \in Keys, NEW ms \in ListsOf(Values), UNCHANGED <<strings, hashes, lists, zsets>>,
         request' = <<"SADD", k, ms>>, SAdd(k, ms)
  PROVE  Promise!SetWrite
  <1> DEFINE e == Members(k) \cup Elements(ms)
  <1>1. e # NoEntry /\ e # {}
    <2>1. e \in SUBSET Values
      BY Found, ListsAreSequences
    <2> QED  BY <2>1, CollectionsAssumption, ListsAreNotEmpty
  <1>2. Promise!SetSet(k, OrNone(e, {}))
    BY <1>1, SetWritten DEF SAdd
  <1>3. OrNone(e, {}) = e
    BY <1>1 DEF OrNone
  <1>4. reply' = Integer(Cardinality(Elements(ms) \ Members(k)))
    <2>1. ms \in Seq(Values)
      BY ListsAreSequences
    <2> QED  BY <2>1, AddedCounts DEF SAdd
  <1> QED  BY <1>2, <1>3, <1>4, SameOperators, SeenIsFound DEF Promise!SetWrite, SetsSeen

(* What SREM and SPOP leave of a set.                                      *)
LEMMA SetRemoved ==
  ASSUME TypeInv, NEW k \in Keys, NEW ms, SetRemove(k, ms), UNCHANGED <<strings, hashes, lists, zsets>>
  PROVE  Promise!SetSet(k, Members(k) \ Elements(ms))
  <1> DEFINE e == IF Members(k) \subseteq Elements(ms) THEN NoEntry ELSE Members(k) \ Elements(ms)
  <1>1. Members(k) \ Elements(ms) # NoEntry
    <2>1. Members(k) \ Elements(ms) \in SUBSET Values
      BY Found
    <2> QED  BY <2>1, CollectionsAssumption
  <1>2. Promise!SetSet(k, OrNone(e, {}))
    <2>1. e # {}
      BY NoEntryIsNotEmpty
    <2> QED  BY <2>1, SetWritten DEF SetRemove
  <1>3. OrNone(e, {}) = Members(k) \ Elements(ms)
    BY <1>1 DEF OrNone
  <1> HIDE DEF e
  <1> QED  BY <1>2, <1>3

LEMMA SRemRefines ==
  ASSUME TypeInv, NEW k \in Keys, NEW ms \in ListsOf(Values), UNCHANGED <<strings, hashes, lists, zsets>>,
         request' = <<"SREM", k, ms>>, SRem(k, ms)
  PROVE  Promise!SetWrite
  <1>1. Promise!SetSet(k, Members(k) \ Elements(ms))
    BY SetRemoved DEF SRem
  <1>2. reply' = Integer(Cardinality(Elements(ms) \cap Members(k)))
    <2>1. ms \in Seq(Values) /\ Elements(ms) \cap Members(k) = Members(k) \cap Elements(ms)
      BY ListsAreSequences
    <2> QED  BY <2>1, AddedCounts DEF SRem
  <1> QED  BY <1>1, <1>2, SameOperators, SeenIsFound DEF Promise!SetWrite, SetsSeen

LEMMA SPopRefines ==
  ASSUME TypeInv, NEW k \in Keys, UNCHANGED <<strings, hashes, lists, zsets>>, request' = <<"SPOP", k>>, SPop(k)
  PROVE  Promise!SetWrite \/ (UNCHANGED sets /\ Promise!SetAnswer(k))
  <1> USE SameOperators, SeenIsFound
  <1>1. CASE Members(k) = {} /\ reply' = NullReply /\ UNCHANGED sets
    BY <1>1 DEF Promise!SetAnswer, SetsSeen
  <1>2. CASE \E m \in Members(k) : SetRemove(k, <<m>>) /\ reply' = Bulk(m)
    <2>1. PICK m \in Members(k) : SetRemove(k, <<m>>) /\ reply' = Bulk(m)
      BY <1>2
    <2>2. Elements(<<m>>) = {m}
      BY DEF Elements
    <2>3. Promise!SetSet(k, Members(k) \ {m})
      BY <2>1, <2>2, SetRemoved
    <2> QED  BY <2>1, <2>3 DEF Promise!SetWrite, SetsSeen
  <1> QED  BY <1>1, <1>2 DEF SPop

LEMMA SetAnswers ==
  ASSUME NEW k \in Keys,
         \/ \E m \in Values : request' = <<"SISMEMBER", k, m>> /\ SIsMember(k, m)
         \/ request' = <<"SRANDMEMBER", k>> /\ SRandMember(k)
         \/ request' = <<"SMEMBERS", k>> /\ SMembers(k)
         \/ request' = <<"SCARD", k>> /\ SCard(k)
  PROVE  UNCHANGED sets /\ Promise!SetAnswer(k)
  <1> USE SameOperators, SeenIsFound DEF Promise!SetAnswer, SetsSeen
  <1>1. CASE \E m \in Values : request' = <<"SISMEMBER", k, m>> /\ SIsMember(k, m)
    BY <1>1 DEF SIsMember, Promise!Bit
  <1>2. CASE request' = <<"SRANDMEMBER", k>> /\ SRandMember(k)
    BY <1>2 DEF SRandMember
  <1>3. CASE request' = <<"SMEMBERS", k>> /\ SMembers(k)
    BY <1>3 DEF SMembers
  <1>4. CASE request' = <<"SCARD", k>> /\ SCard(k)
    BY <1>4 DEF SCard
  <1> QED  BY <1>1, <1>2, <1>3, <1>4

LEMMA SetsRefine ==
  ASSUME TypeInv, SetCommand, UNCHANGED <<strings, hashes, lists, zsets>>
  PROVE  Promise!Next
  <1>1. CASE Promise!SetWrite
    BY <1>1 DEF Promise!Next, Promise!Write
  <1>2. CASE UNCHANGED sets /\ \E k \in Keys : Promise!SetAnswer(k)
    BY <1>2, Answered
  <1> QED  BY <1>1, <1>2, SAddRefines, SRemRefines, SPopRefines, SetAnswers DEF SetCommand
----------------------------------------------------------------------------
(* The commands on the keyspace keep the promise *)

(* An empty hash would be taken for none, which HashesHold excludes.       *)

LEMMA EmptyIsEmpty ==
  ASSUME NEW F, NEW S, NEW m \in [F -> S], DOMAIN m = {}
  PROVE  m = Empty
  <1>1. F = {} /\ m = [x \in F |-> m[x]]
    OBVIOUS
  <1>2. m = [x \in {} |-> m[x]]
    BY <1>1
  <1> QED  BY <1>2 DEF Empty

(* A key is of a type when the map of that type has an entry for it.       *)
LEMMA TypesAre ==
  ASSUME TypeInv, HashesHold, NEW k \in Keys
  PROVE  /\ "string" \in Promise!Types(k) <=> k \in strings
         /\ "hash" \in Promise!Types(k) <=> k \in HashKeys
         /\ "list" \in Promise!Types(k) <=> k \in ListKeys
         /\ "set" \in Promise!Types(k) <=> k \in SetKeys
         /\ "zset" \in Promise!Types(k) <=> k \in ZSetKeys
         /\ Promise!Types(k) \subseteq {"string", "hash", "list", "set", "zset"}
  <1>1. Promise!Types(k) =
               (IF k \in strings THEN {"string"} ELSE {})
          \cup (IF DOMAIN Hash(k) # {} THEN {"hash"} ELSE {})
          \cup (IF List(k) # <<>> \/ <<"list", k>> \in Husks THEN {"list"} ELSE {})
          \cup (IF Members(k) # {} \/ <<"set", k>> \in Husks THEN {"set"} ELSE {})
          \cup (IF DOMAIN ZSet(k) # {} \/ <<"zset", k>> \in Husks THEN {"zset"} ELSE {})
    BY SeenIsFound DEF Promise!Types, HashesSeen, ListsSeen, SetsSeen, ZSetsSeen, Husks
  <1>2. DOMAIN Hash(k) # {} <=> k \in HashKeys
    <2>1. CASE hashes[k] = NoEntry
      BY <2>1, EmptyDomain DEF HashKeys, Hash
    <2>2. CASE hashes[k] # NoEntry
      <3>1. PICK F \in SUBSET Values : hashes[k] \in [F -> Values]
        BY <2>2 DEF TypeInv, HashesOK, IsMap
      <3>2. hashes[k] # Empty
        BY DEF HashesHold
      <3>3. DOMAIN hashes[k] = {} => hashes[k] = Empty
        BY <3>1, EmptyIsEmpty
      <3> QED  BY <2>2, <3>2, <3>3 DEF HashKeys, Hash
    <2> QED  BY <2>1, <2>2
  <1>3. List(k) # <<>> \/ <<"list", k>> \in Husks <=> k \in ListKeys
    BY HusksAre, NoEntryIsNotEmpty DEF List, ListKeys, Empty
  <1>4. Members(k) # {} \/ <<"set", k>> \in Husks <=> k \in SetKeys
    BY HusksAre, NoEntryIsNotEmpty DEF Members, SetKeys
  <1>5. DOMAIN ZSet(k) # {} \/ <<"zset", k>> \in Husks <=> k \in ZSetKeys
    <2>1. CASE zsets[k] = NoEntry
      BY <2>1, EmptyDomain, HusksAre, NoEntryIsNotEmpty DEF ZSetKeys, ZSet
    <2>2. CASE zsets[k] # NoEntry
      <3>1. PICK F \in SUBSET Values : zsets[k] \in [F -> Numbers]
        BY <2>2 DEF TypeInv, ZSetsOK, IsMap
      <3>2. DOMAIN zsets[k] = {} => zsets[k] = Empty
        BY <3>1, EmptyIsEmpty
      <3> QED  BY <2>2, <3>2, HusksAre DEF ZSetKeys, ZSet
    <2> QED  BY <2>1, <2>2
  <1> QED  BY <1>1, <1>2, <1>3, <1>4, <1>5

LEMMA PresentIsAllKeys ==
  ASSUME TypeInv, HashesHold
  PROVE  Promise!Present = AllKeys
  <1>1. Promise!Present = {k \in Keys : Promise!Types(k) # {}}
    BY DEF Promise!Present
  <1>2. AllKeys \subseteq Keys
    BY DEF TypeInv, AllKeys, HashKeys, ListKeys, SetKeys, ZSetKeys
  <1>3. \A k \in Keys : Promise!Types(k) # {} <=> k \in AllKeys
    BY TypesAre DEF AllKeys
  <1> QED  BY <1>1, <1>2, <1>3

LEMMA FirstTypeIs ==
  ASSUME TypeInv, HashesHold, NEW k \in Keys
  PROVE  Promise!FirstType(k) = KeyType(k)
  <1> DEFINE T == Promise!Types(k)
             O == <<"string", "hash", "list", "set", "zset">>
             First(i) == i \in DOMAIN O /\ O[i] \in T /\ \A j \in 1 .. i - 1 : O[j] \notin T
  <1>1. Promise!FirstType(k) = IF T = {} THEN "none" ELSE O[CHOOSE i : First(i)]
    BY DEF Promise!FirstType, Promise!TypeOrder
  <1>2. /\ "string" \in T <=> k \in strings
        /\ "hash" \in T <=> k \in HashKeys
        /\ "list" \in T <=> k \in ListKeys
        /\ "set" \in T <=> k \in SetKeys
        /\ "zset" \in T <=> k \in ZSetKeys
        /\ T \subseteq {"string", "hash", "list", "set", "zset"}
    BY TypesAre
  <1>3. \A i, j : First(i) /\ First(j) => i = j
    <2>1. DOMAIN O = 1 .. 5
      OBVIOUS
    <2> HIDE DEF O, T
    <2> QED  BY <2>1
  <1>4. ASSUME NEW i, First(i)
        PROVE  Promise!FirstType(k) = O[i]
    <2>1. T # {}
      BY <1>4
    <2> HIDE DEF First
    <2>2. (CHOOSE x : First(x)) = i
      BY <1>3, <1>4
    <2> HIDE DEF T, O
    <2> QED  BY <1>1, <2>1, <2>2
  <1> HIDE DEF T
  <1>5. CASE k \in strings
    <2>1. First(1)
      BY <1>2, <1>5
    <2> QED  BY <1>4, <1>5, <2>1 DEF KeyType
  <1>6. CASE k \notin strings /\ k \in HashKeys
    <2>1. First(2)
      BY <1>2, <1>6
    <2> QED  BY <1>4, <1>6, <2>1 DEF KeyType
  <1>7. CASE k \notin strings \cup HashKeys /\ k \in ListKeys
    <2>1. First(3)
      BY <1>2, <1>7
    <2> QED  BY <1>4, <1>7, <2>1 DEF KeyType
  <1>8. CASE k \notin strings \cup HashKeys \cup ListKeys /\ k \in SetKeys
    <2>1. First(4)
      BY <1>2, <1>8
    <2> QED  BY <1>4, <1>8, <2>1 DEF KeyType
  <1>9. CASE k \notin strings \cup HashKeys \cup ListKeys \cup SetKeys /\ k \in ZSetKeys
    <2>1. First(5)
      BY <1>2, <1>9
    <2> QED  BY <1>4, <1>9, <2>1 DEF KeyType
  <1>10. CASE k \notin strings \cup HashKeys \cup ListKeys \cup SetKeys \cup ZSetKeys
    <2>1. T = {}
      BY <1>2, <1>10
    <2>2. KeyType(k) = "none"
      BY <1>10 DEF KeyType
    <2> QED  BY <1>1, <2>1, <2>2
  <1> QED  BY <1>5, <1>6, <1>7, <1>8, <1>9, <1>10

(* The pairs of a type and a key of it, from the keys of each type.        *)
OfTypes(A, B, C, D, E) ==
  {"string"} \X A \cup {"hash"} \X B \cup {"list"} \X C \cup {"set"} \X D \cup {"zset"} \X E
LEMMA TypesAddUp ==
  ASSUME NEW P, IsFiniteSet(P), NEW Q, IsFiniteSet(Q), NEW R, IsFiniteSet(R),
         NEW S, IsFiniteSet(S), NEW T, IsFiniteSet(T)
  PROVE  /\ IsFiniteSet(OfTypes(P, Q, R, S, T))
         /\ Cardinality(OfTypes(P, Q, R, S, T)) =
              Cardinality(P) + Cardinality(Q) + Cardinality(R) + Cardinality(S) + Cardinality(T)
  <1> DEFINE A == {"string"} \X P
             B == {"hash"} \X Q
             C == {"list"} \X R
             D == {"set"} \X S
             E == {"zset"} \X T
             All == OfTypes(P, Q, R, S, T)
  <1>1. /\ IsFiniteSet(A) /\ Cardinality(A) = Cardinality(P)
        /\ IsFiniteSet(B) /\ Cardinality(B) = Cardinality(Q)
        /\ IsFiniteSet(C) /\ Cardinality(C) = Cardinality(R)
        /\ IsFiniteSet(D) /\ Cardinality(D) = Cardinality(S)
        /\ IsFiniteSet(E) /\ Cardinality(E) = Cardinality(T)
    BY TaggedSize
  <1> DEFINE AB == A \cup B
             AC == AB \cup C
             AD == AC \cup D
             AE == AD \cup E
  <1>2. A \cap B = {} /\ AB \cap C = {} /\ AC \cap D = {} /\ AD \cap E = {} /\ All = AE
    BY DEF OfTypes
  <1> HIDE DEF A, B, C, D, E, All
  <1>3. IsFiniteSet(AB) /\ Cardinality(AB) = Cardinality(A) + Cardinality(B)
    BY <1>1, <1>2, DisjointSize
  <1> HIDE DEF AB
  <1>4. IsFiniteSet(AC) /\ Cardinality(AC) = Cardinality(AB) + Cardinality(C)
    BY <1>1, <1>2, <1>3, DisjointSize
  <1> HIDE DEF AC
  <1>5. IsFiniteSet(AD) /\ Cardinality(AD) = Cardinality(AC) + Cardinality(D)
    BY <1>1, <1>2, <1>4, DisjointSize
  <1> HIDE DEF AD
  <1>6. IsFiniteSet(AE) /\ Cardinality(AE) = Cardinality(AD) + Cardinality(E)
    BY <1>1, <1>2, <1>5, DisjointSize
  <1> HIDE DEF AE
  <1>7. IsFiniteSet(All) /\ Cardinality(All) =
          Cardinality(P) + Cardinality(Q) + Cardinality(R) + Cardinality(S) + Cardinality(T)
    BY <1>1, <1>2, <1>3, <1>4, <1>5, <1>6
  <1> QED  BY <1>7 DEF All

(* DBSIZE counts the keys of every map (Database.size).                    *)
LEMMA DbSizeCounts ==
  ASSUME TypeInv, HashesHold
  PROVE  DbEntries =
           Cardinality({tk \in {Promise!TypeOrder[i] : i \in 1 .. 5} \X Keys :
                          tk[1] \in Promise!Types(tk[2])})
  <1> DEFINE Some == OfTypes(strings, HashKeys, ListKeys, SetKeys, ZSetKeys)
             All == {tk \in {Promise!TypeOrder[i] : i \in 1 .. 5} \X Keys :
                       tk[1] \in Promise!Types(tk[2])}
  <1>1. /\ IsFiniteSet(strings) /\ IsFiniteSet(HashKeys) /\ IsFiniteSet(ListKeys)
        /\ IsFiniteSet(SetKeys) /\ IsFiniteSet(ZSetKeys)
    BY FS_Subset DEF TypeInv, AllKeys
  <1>2. DbEntries = Cardinality(Some)
    BY <1>1, TypesAddUp DEF DbEntries
  <1>3. All = Some
    <2>1. {Promise!TypeOrder[i] : i \in 1 .. 5} = {"string", "hash", "list", "set", "zset"}
      <3>1. 1 .. 5 = {1, 2, 3, 4, 5}
        OBVIOUS
      <3> QED  BY <3>1 DEF Promise!TypeOrder
    <2>2. All = {tk \in {"string", "hash", "list", "set", "zset"} \X Keys :
                   tk[1] \in Promise!Types(tk[2])}
      BY <2>1
    <2>3. /\ strings \subseteq Keys /\ HashKeys \subseteq Keys /\ ListKeys \subseteq Keys
          /\ SetKeys \subseteq Keys /\ ZSetKeys \subseteq Keys
      BY DEF TypeInv, HashKeys, ListKeys, SetKeys, ZSetKeys
    <2> HIDE DEF All
    <2> QED  BY <2>2, <2>3, TypesAre DEF OfTypes
  <1> HIDE DEF Some, All
  <1>4. DbEntries = Cardinality(All)
    BY <1>2, <1>3
  <1> QED  BY <1>4 DEF All

LEMMA DeletedIsForgotten ==
  ASSUME TypeInv, NEW K, K \subseteq Keys, DeleteKeys(K)
  PROVE  Promise!Forget(K)
  <1>1. HashesSeen' = [k \in Keys |-> IF k \in K THEN <<>> ELSE HashesSeen[k]]
    BY DEF HashesSeen, Seen, DeleteKeys, Drop, Empty
  <1>2. ListsSeen' = [k \in Keys |-> IF k \in K THEN <<>> ELSE ListsSeen[k]]
    BY DEF ListsSeen, Seen, DeleteKeys, Drop, Empty
  <1>3. SetsSeen' = [k \in Keys |-> IF k \in K THEN {} ELSE SetsSeen[k]]
    BY DEF SetsSeen, Seen, DeleteKeys, Drop
  <1>4. ZSetsSeen' = [k \in Keys |-> IF k \in K THEN <<>> ELSE ZSetsSeen[k]]
    BY DEF ZSetsSeen, Seen, DeleteKeys, Drop, Empty
  <1>5. Husks' = {h \in Husks : h[2] \notin K}
    <2>1. /\ {x \in Keys : lists'[x] = Empty} = {x \in Keys : lists[x] = Empty} \ K
          /\ {x \in Keys : sets'[x] = {}} = {x \in Keys : sets[x] = {}} \ K
          /\ {x \in Keys : zsets'[x] = Empty} = {x \in Keys : zsets[x] = Empty} \ K
      BY NoEntryIsNotEmpty DEF DeleteKeys, Drop
    <2> DEFINE L == {x \in Keys : lists[x] = Empty}
               S == {x \in Keys : sets[x] = {}}
               Z == {x \in Keys : zsets[x] = Empty}
    <2>2. /\ Husks = {<<"list", k>> : k \in L} \cup {<<"set", k>> : k \in S} \cup {<<"zset", k>> : k \in Z}
          /\ Husks' = {<<"list", k>> : k \in L \ K} \cup {<<"set", k>> : k \in S \ K}
                        \cup {<<"zset", k>> : k \in Z \ K}
      BY <2>1 DEF Husks, HusksOf, Empty
    <2> HIDE DEF L, S, Z
    <2> QED  BY <2>2
  <1>6. strings' = strings \ K
    BY DEF DeleteKeys
  <1> QED  BY <1>1, <1>2, <1>3, <1>4, <1>5, <1>6
       DEF Promise!Forget, HashesSeen, ListsSeen, SetsSeen, ZSetsSeen, Husks

LEMMA KeyspaceRefines ==
  ASSUME TypeInv, HashesHold, KeyspaceCommand
  PROVE  Promise!Next
  <1> USE SameOperators
  <1>1. CASE Promise!KeyspaceWrite
    BY <1>1 DEF Promise!Next, Promise!Write
  <1>2. CASE UNCHANGED stores /\ Promise!KeyspaceAnswer
    BY <1>2, Answered DEF stores
  <1>3. ASSUME NEW k \in Keys, request' = <<"SET", k>>, SetString(k)
        PROVE  Promise!KeyspaceWrite
    <2>1. UNCHANGED <<HashesSeen, ListsSeen, SetsSeen, ZSetsSeen, Husks>>
      BY <1>3, UnchangedMaps DEF SetString
    <2> QED  BY <1>3, <2>1
         DEF SetString, Promise!KeyspaceWrite, HashesSeen, ListsSeen, SetsSeen, ZSetsSeen, Husks
  <1>4. ASSUME NEW k \in Keys, request' = <<"TYPE", k>>, Type(k)
        PROVE  UNCHANGED stores /\ Promise!KeyspaceAnswer
    BY <1>4, FirstTypeIs DEF Type, Promise!KeyspaceAnswer
  <1>5. ASSUME NEW ks \in ListsOf(Keys), request' = <<"DEL", ks>>, Del(ks)
        PROVE  Promise!KeyspaceWrite
    <2>1. ks \in Seq(Keys) /\ Elements(ks) \subseteq Keys
      BY ListsAreSequences
    <2>2. Promise!Forget(Elements(ks))
      BY <1>5, <2>1, DeletedIsForgotten DEF Del
    <2>3. reply' = Integer(Cardinality(Elements(ks) \cap Promise!Present))
      <3>1. Elements(ks) \cap Promise!Present = AllKeys \cap Elements(ks)
        BY PresentIsAllKeys
      <3>2. Removed(ks, AllKeys) = Cardinality(AllKeys \cap Elements(ks))
        BY <2>1, AddedCounts
      <3> QED  BY <1>5, <3>1, <3>2 DEF Del
    <2> QED  BY <1>5, <2>2, <2>3 DEF Promise!KeyspaceWrite
  <1>6. ASSUME NEW ks \in ListsOf(Keys), request' = <<"EXISTS", ks>>, Exists(ks)
        PROVE  UNCHANGED stores /\ Promise!KeyspaceAnswer
    <2>1. /\ {} \in SUBSET (Promise!Present \ strings)
          /\ {i \in DOMAIN ks : ks[i] \in strings \cup {}} = {i \in DOMAIN ks : ks[i] \in strings}
      OBVIOUS
    <2>2. reply' = Integer(Cardinality({i \in DOMAIN ks : ks[i] \in strings \cup {}}))
      BY <1>6, <2>1 DEF Exists
    <2> QED  BY <1>6, <2>1, <2>2, SameOperators DEF Exists, Promise!KeyspaceAnswer
  <1>7. ASSUME NEW P \in SUBSET Keys, request' = <<"KEYS", P>>, KeysByPattern(P)
        PROVE  UNCHANGED stores /\ Promise!KeyspaceAnswer
    BY <1>7, PresentIsAllKeys DEF KeysByPattern, Promise!KeyspaceAnswer
  <1>8. ASSUME request' = <<"FLUSHDB">>, FlushDb
        PROVE  Promise!KeyspaceWrite
    <2>1. Promise!Forget(Keys)
      BY <1>8, DeletedIsForgotten DEF FlushDb
    <2> QED  BY <1>8, <2>1 DEF FlushDb, Promise!KeyspaceWrite
  <1>9. ASSUME request' = <<"DBSIZE">>, DbSize
        PROVE  UNCHANGED stores /\ Promise!KeyspaceAnswer
    <2> DEFINE T == {tk \in {Promise!TypeOrder[i] : i \in 1 .. 5} \X Keys :
                       tk[1] \in Promise!Types(tk[2])}
    <2>1. DbEntries = Cardinality(T)
      BY DbSizeCounts
    <2> HIDE DEF T
    <2>2. reply' = Promise!Integer(Promise!Cardinality(T))
      BY <1>9, <2>1 DEF DbSize
    <2> QED  BY <1>9, <2>2 DEF DbSize, T, Promise!KeyspaceAnswer
  <1>10. ASSUME request' = <<"RANDOMKEY">>, RandomKey
         PROVE  UNCHANGED stores /\ Promise!KeyspaceAnswer
    BY <1>10, PresentIsAllKeys DEF RandomKey, Promise!KeyspaceAnswer
  <1> QED  BY <1>1, <1>2, <1>3, <1>4, <1>5, <1>6, <1>7, <1>8, <1>9, <1>10 DEF KeyspaceCommand
----------------------------------------------------------------------------
(* The list commands keep the promise *)

LEMMA EnumerationType ==
  ASSUME NEW P, P \subseteq Nat, NEW e, Enumerates(e, P)
  PROVE  /\ Len(e) \in Nat /\ DOMAIN e = 1 .. Len(e)
         /\ \A j \in 1 .. Len(e) : e[j] \in P /\ e[j] \in Nat
         /\ \A p \in P : \E j \in 1 .. Len(e) : p = e[j]
  <1>1. e \in Seq(P) /\ Elements(e) = P
    BY DEF Enumerates
  <1>2. Len(e) \in Nat /\ DOMAIN e = 1 .. Len(e)
    BY <1>1
  <1>3. Elements(e) = {e[j] : j \in 1 .. Len(e)}
    BY <1>2 DEF Elements
  <1>4. P = {e[j] : j \in 1 .. Len(e)}
    BY <1>1, <1>3
  <1>5. \A j \in 1 .. Len(e) : e[j] \in P
    BY <1>4
  <1>6. \A p \in P : p \in Nat
    OBVIOUS
  <1>7. \A p \in P : \E j \in 1 .. Len(e) : p = e[j]
    BY <1>4
  <1> QED  BY <1>2, <1>5, <1>6, <1>7

(* What e lists up to its i-th element.                                    *)
UpTo(e, i) == {e[j] : j \in 1 .. i}

(* A sequence without repetitions counts what it lists.                    *)
LEMMA DistinctCount ==
  ASSUME NEW S, NEW s \in Seq(S), \A a, b \in 1 .. Len(s) : a # b => s[a] # s[b],
         NEW i \in 0 .. Len(s)
  PROVE  IsFiniteSet(UpTo(s, i)) /\ Cardinality(UpTo(s, i)) = i
  <1> DEFINE Q == UpTo(s, i)
             f == [j \in 1 .. i |-> s[j]]
  <1>1. Len(s) \in Nat /\ i \in Nat /\ \A j \in 1 .. i : j \in 1 .. Len(s)
    OBVIOUS
  <1>2. f \in Bijection(1 .. i, Q)
    <2>1. f \in [1 .. i -> Q] /\ \A j \in 1 .. i : f[j] = s[j]
      BY DEF UpTo
    <2>2. \A q \in Q : \E j \in 1 .. i : f[j] = q
      BY DEF UpTo
    <2> HIDE DEF f, Q
    <2> QED  BY <1>1, <2>1, <2>2 DEF Bijection, Injection, Surjection, IsInjective
  <1>3. IsFiniteSet(1 .. i) /\ Cardinality(1 .. i) = i
    BY <1>1, FS_Interval
  <1> HIDE DEF f, Q
  <1>4. ExistsBijection(1 .. i, Q)
    BY <1>2 DEF ExistsBijection
  <1>5. Cardinality(Q) = i /\ IsFiniteSet(Q)
    BY <1>3, <1>4, FS_Bijection
  <1> QED  BY <1>5 DEF Q

(* Of an enumeration of P, those are the i least numbers of P.             *)
LEMMA EnumerationCounts ==
  ASSUME NEW n \in Nat, NEW P, P \subseteq 1 .. n, NEW e, Enumerates(e, P), NEW i \in 0 .. Len(e)
  PROVE  Cardinality(UpTo(e, i)) = i
  <1>1. P \subseteq Nat
    OBVIOUS
  <1>2. /\ Len(e) \in Nat /\ DOMAIN e = 1 .. Len(e) /\ e \in Seq(P)
        /\ \A j \in 1 .. Len(e) : e[j] \in Nat
    BY <1>1, EnumerationType DEF Enumerates
  <1>3. \A a, b \in 1 .. Len(e) : a # b => e[a] # e[b]
    <2>1. \A a, b \in 1 .. Len(e) : a < b => e[a] < e[b]
      BY <1>2 DEF Enumerates
    <2> QED  BY <1>2, <2>1
  <1> QED  BY <1>2, <1>3, DistinctCount

(* The elements at the positions P are those at the positions e lists.     *)
LEMMA AtIsChosen ==
  ASSUME NEW n \in Nat, NEW P, P \subseteq 1 .. n, NEW e, Enumerates(e, P), NEW s
  PROVE  Promise!At(s, P) = Chosen(s, e) /\ Cardinality(P) = Len(e)
  <1> DEFINE Rank(p) == Promise!Cardinality({q \in P : q <= p})
  <1>0. /\ Len(e) \in Nat /\ DOMAIN e = 1 .. Len(e)
        /\ \A j \in 1 .. Len(e) : e[j] \in P /\ e[j] \in Nat
        /\ \A p \in P : \E j \in 1 .. Len(e) : p = e[j]
    <2>1. P \subseteq Nat
      OBVIOUS
    <2> QED  BY <2>1, EnumerationType
  <1>1. /\ Len(e) \in Nat /\ DOMAIN e = 1 .. Len(e)
        /\ \A j \in 1 .. Len(e) : e[j] \in P /\ e[j] \in Nat
        /\ \A p \in P : \E j \in 1 .. Len(e) : p = e[j]
        /\ \A a, b \in 1 .. Len(e) : a < b => e[a] < e[b]
    BY <1>0 DEF Enumerates
  <1>2. Cardinality(P) = Len(e)
    <2>1. Len(e) \in 0 .. Len(e)
      BY <1>1
    <2>2. Cardinality(UpTo(e, Len(e))) = Len(e)
      BY <2>1, EnumerationCounts
    <2>3. P = UpTo(e, Len(e))
      BY <1>1 DEF UpTo
    <2> QED  BY <2>2, <2>3
  <1>3. ASSUME NEW i \in 1 .. Len(e)
        PROVE  Rank(e[i]) = i
    <2>1. {q \in P : q <= e[i]} = UpTo(e, i)
      <3>1. \A j \in 1 .. Len(e) : e[j] <= e[i] <=> j <= i
        BY <1>1
      <3>2. 1 .. i = {j \in 1 .. Len(e) : j <= i}
        BY <1>1
      <3> HIDE DEF Rank
      <3>3. ASSUME NEW q \in P, q <= e[i]
            PROVE  \E j \in 1 .. i : q = e[j]
        <4>1. PICK j \in 1 .. Len(e) : q = e[j]
          BY <1>1
        <4>2. j \in 1 .. i
          BY <3>1, <3>2, <3>3, <4>1
        <4> QED  BY <4>1, <4>2
      <3>4. ASSUME NEW j \in 1 .. i
            PROVE  e[j] \in P /\ e[j] <= e[i]
        <4>1. j \in 1 .. Len(e) /\ j <= i
          BY <3>2
        <4> QED  BY <1>1, <3>1, <4>1
      <3> QED  BY <3>3, <3>4 DEF UpTo
    <2>2. i \in 0 .. Len(e)
      BY <1>1
    <2>3. Cardinality(UpTo(e, i)) = i
      BY <2>2, EnumerationCounts
    <2> QED  BY <2>1, <2>3, SameOperators
  <1>4. Promise!At(s, P) = [i \in 1 .. Len(e) |-> s[CHOOSE p \in P : Rank(p) = i]]
    <2>1. Promise!Cardinality(P) = Len(e)
      BY <1>2, SameOperators
    <2> QED  BY <2>1 DEF Promise!At
  <1> HIDE DEF Rank
  <1>5. ASSUME NEW i \in 1 .. Len(e)
        PROVE  (CHOOSE p \in P : Rank(p) = i) = e[i]
    <2>1. \A p \in P : Rank(p) = i => p = e[i]
      BY <1>1, <1>3
    <2> QED  BY <1>1, <1>3, <2>1
  <1> QED  BY <1>2, <1>4, <1>5 DEF Chosen

(* The elements at an interval of positions are a subsequence.             *)
LEMMA AtInterval ==
  ASSUME NEW S, NEW s \in Seq(S), NEW a \in Nat, NEW b \in Nat, 1 <= a, b <= Len(s), a <= b + 1
  PROVE  Promise!At(s, a .. b) = SubSeq(s, a, b)
  <1> DEFINE e == [i \in 1 .. (b - a) + 1 |-> (a - 1) + i]
             P == a .. b
  <1>1. /\ Len(s) \in Nat /\ (b - a) + 1 \in Nat /\ P \subseteq 1 .. Len(s)
        /\ \A i \in 1 .. (b - a) + 1 : (a - 1) + i \in P
        /\ \A p \in P : (p - a) + 1 \in 1 .. (b - a) + 1 /\ p = (a - 1) + ((p - a) + 1)
    OBVIOUS
  <1>2. e \in Seq(P) /\ Len(e) = (b - a) + 1 /\ DOMAIN e = 1 .. (b - a) + 1
    BY <1>1
  <1>3. Elements(e) = P
    BY <1>1 DEF Elements
  <1>4. Enumerates(e, P)
    BY <1>2, <1>3 DEF Enumerates
  <1>5. Promise!At(s, P) = Chosen(s, e)
    <2> HIDE DEF e, P
    <2> QED  BY <1>1, <1>4, AtIsChosen
  <1>6. Chosen(s, e) = [i \in 1 .. (b - a) + 1 |-> s[(a - 1) + i]]
    BY <1>2 DEF Chosen
  <1>7. SubSeq(s, a, b) = [i \in 1 .. (b - a) + 1 |-> s[(a - 1) + i]]
    OBVIOUS
  <1> QED  BY <1>5, <1>6, <1>7

LEMMA AtNothing ==
  ASSUME NEW s
  PROVE  Promise!At(s, {}) = <<>>
  <1>1. Enumerates(<<>>, {})
    BY DEF Enumerates, Elements
  <1>2. Promise!At(s, {}) = Chosen(s, <<>>)
    BY <1>1, AtIsChosen
  <1> QED  BY <1>2 DEF Chosen

(* A list that is written, or left as it is.                               *)
LEMMA ListWritten ==
  ASSUME TypeInv, NEW k \in Keys, NEW s \in Seq(Values), lists' = [lists EXCEPT ![k] = s],
         s = <<>> => lists[k] # NoEntry, UNCHANGED <<strings, hashes, sets, zsets>>
  PROVE  Promise!SetList(k, s)
  <1>1. s # NoEntry /\ DOMAIN lists = Keys
    BY CollectionsAssumption DEF TypeInv, ListsOK
  <1>2. ListsSeen' = [ListsSeen EXCEPT ![k] = s]
    BY <1>1 DEF ListsSeen, Seen
  <1>3. UNCHANGED <<strings, HashesSeen, SetsSeen, ZSetsSeen>>
    BY UnchangedMaps
  <1>4. CASE s # <<>>
    <2>1. {x \in Keys : lists'[x] = Empty} = {x \in Keys : lists[x] = Empty} \ {k}
      BY <1>1, <1>4 DEF Empty
    <2>2. Husks' = Husks \ {<<"list", k>>}
      <3> DEFINE L == {x \in Keys : lists[x] = Empty}
                 R == {<<"set", q>> : q \in {x \in Keys : sets[x] = {}}}
                        \cup {<<"zset", q>> : q \in {x \in Keys : zsets[x] = Empty}}
      <3>1. Husks = {<<"list", q>> : q \in L} \cup R /\ Husks' = {<<"list", q>> : q \in L \ {k}} \cup R
        BY <2>1 DEF Husks, HusksOf, Empty
      <3>2. <<"list", k>> \notin R
        OBVIOUS
      <3> HIDE DEF L, R
      <3> QED  BY <3>1, <3>2
    <2> QED  BY <1>2, <1>3, <2>2
         DEF Promise!SetList, HashesSeen, ListsSeen, SetsSeen, ZSetsSeen, Husks
  <1>5. CASE s = <<>>
    <2>1. {x \in Keys : lists'[x] = Empty} = {x \in Keys : lists[x] = Empty} \cup {k}
      BY <1>1, <1>5 DEF Empty
    <2>2. Husks' = Husks \cup {<<"list", k>>}
      <3> DEFINE L == {x \in Keys : lists[x] = Empty}
                 R == {<<"set", q>> : q \in {x \in Keys : sets[x] = {}}}
                        \cup {<<"zset", q>> : q \in {x \in Keys : zsets[x] = Empty}}
      <3>1. Husks = {<<"list", q>> : q \in L} \cup R /\ Husks' = {<<"list", q>> : q \in L \cup {k}} \cup R
        BY <2>1 DEF Husks, HusksOf, Empty
      <3> HIDE DEF L, R
      <3> QED  BY <3>1
    <2>3. ListsSeen[k] # <<>> \/ <<"list", k>> \in Husks
      <3>1. ListsSeen[k] = lists[k]
        BY <1>5, SeenIsFound DEF List
      <3> QED  BY <3>1, HusksAre DEF Empty
    <2> QED  BY <1>2, <1>3, <1>5, <2>2, <2>3
         DEF Promise!SetList, HashesSeen, ListsSeen, SetsSeen, ZSetsSeen, Husks
  <1> QED  BY <1>4, <1>5

LEMMA ListKept ==
  ASSUME TypeInv, NEW k \in Keys, UNCHANGED <<strings, hashes, lists, sets, zsets>>
  PROVE  Promise!SetList(k, List(k))
  <1>1. ListsSeen' = [ListsSeen EXCEPT ![k] = List(k)]
    <2>1. ListsSeen' = ListsSeen /\ ListsSeen[k] = List(k) /\ DOMAIN ListsSeen = Keys
      BY UnchangedMaps, SeenIsFound
    <2>2. ListsSeen = [x \in Keys |-> ListsSeen[x]]
      BY DEF ListsSeen, Seen
    <2> QED  BY <2>1, <2>2
  <1>2. UNCHANGED <<strings, HashesSeen, SetsSeen, ZSetsSeen, Husks>>
    BY UnchangedMaps
  <1>3. Husks' = Husks \ {<<"list", k>>} \/ Husks' = Husks \cup {<<"list", k>>}
    BY <1>2
  <1>4. <<"list", k>> \in Husks => List(k) = <<>>
    BY HusksAre DEF List, Empty
  <1>5. \/ Husks' = Husks \ {<<"list", k>>}
        \/ List(k) = <<>> /\ <<"list", k>> \in Husks /\ Husks' = Husks \cup {<<"list", k>>}
    BY <1>2, <1>4
  <1> QED  BY <1>1, <1>2, <1>5
       DEF Promise!SetList, HashesSeen, ListsSeen, SetsSeen, ZSetsSeen, Husks

LEMMA LPushRefines ==
  ASSUME TypeInv, NEW k \in Keys, NEW vs \in ListsOf(Values),
         UNCHANGED <<strings, hashes, sets, zsets>>,
         \/ request' = <<"LPUSH", k, vs>> /\ LPush(k, vs)
         \/ request' = <<"RPUSH", k, vs>> /\ RPush(k, vs)
  PROVE  Promise!ListWrite
  <1> DEFINE s == List(k)
             left == Reverse(vs) \o s
             right == s \o vs
  <1>1. s \in Seq(Values) /\ vs \in Seq(Values) /\ Len(vs) >= 1 /\ Len(s) \in Nat /\ Len(vs) \in Nat
    BY Found, ListsAreSequences
  <1>2. Promise!Backwards(vs) = Reverse(vs) /\ Reverse(vs) \in Seq(Values) /\ Len(Reverse(vs)) = Len(vs)
    <2>1. /\ Reverse(vs) \in Seq(Values) /\ Len(Reverse(vs)) = Len(vs)
          /\ \A i \in 1 .. Len(vs) : Reverse(vs)[i] = vs[Len(vs) + 1 - i]
      BY <1>1, ReverseIsSeq
    <2>2. Promise!Backwards(vs) = [p \in 1 .. Len(vs) |-> vs[Len(vs) + 1 - p]]
      BY <1>1 DEF Promise!Backwards
    <2>3. Reverse(vs) = [p \in 1 .. Len(vs) |-> Reverse(vs)[p]]
      BY <1>1, <2>1
    <2> QED  BY <2>1, <2>2, <2>3
  <1>3. left \in Seq(Values) /\ left # <<>> /\ right \in Seq(Values) /\ right # <<>>
    <2> DEFINE r == Reverse(vs)
    <2> HIDE DEF r, s
    <2>1. Len(left) = Len(vs) + Len(s) /\ left \in Seq(Values)
      BY <1>1, <1>2 DEF r
    <2>2. Len(right) = Len(s) + Len(vs) /\ right \in Seq(Values)
      BY <1>1
    <2> HIDE DEF left, right
    <2> QED  BY <1>1, <2>1, <2>2
  <1>4. reply' = Integer(Len(s) + Len(vs))
    BY <1>1 DEF LPush, RPush
  <1> HIDE DEF left, right
  <1>5. CASE request' = <<"LPUSH", k, vs>> /\ LPush(k, vs)
    <2>1. Promise!SetList(k, left)
      BY <1>3, <1>5, ListWritten DEF LPush, SetList, left
    <2> QED  BY <1>2, <1>4, <1>5, <2>1, SameOperators, SeenIsFound
         DEF Promise!ListWrite, ListsSeen, left
  <1>6. CASE request' = <<"RPUSH", k, vs>> /\ RPush(k, vs)
    <2>1. Promise!SetList(k, right)
      BY <1>3, <1>6, ListWritten DEF RPush, SetList, right
    <2> QED  BY <1>4, <1>6, <2>1, SameOperators, SeenIsFound
         DEF Promise!ListWrite, ListsSeen, right
  <1> QED  BY <1>5, <1>6

(* The positions that a pop takes are at one end of the list.              *)
LEMMA PopsAtFront ==
  ASSUME TypeInv, NEW k \in Keys, NEW count \in Counts
  PROVE  /\ Promise!At(List(k), Promise!Popped(List(k), count, TRUE))
              = SubSeq(List(k), 1, Popped(k, count))
         /\ Promise!At(List(k), DOMAIN List(k) \ Promise!Popped(List(k), count, TRUE))
              = SubSeq(List(k), Popped(k, count) + 1, Len(List(k)))
  <1> DEFINE s == List(k)
             n == Popped(k, count)
  <1>1. s \in Seq(Values) /\ Len(s) \in Nat /\ DOMAIN s = 1 .. Len(s)
    BY Found
  <1>2. n \in 0 .. Len(s) /\ Promise!Popped(s, count, TRUE) = 1 .. n
    <2>1. count \in Int \cup {NaN} /\ NaN \notin Int /\ n \in 0 .. Len(s)
      BY ListsAssumption, CollectionsAssumption, PoppedInRange
    <2>2. n = IF count = NaN \/ count <= 0 THEN 0 ELSE IF count <= Len(s) THEN count ELSE Len(s)
      BY <2>1 DEF Popped
    <2>3. Promise!Popped(s, count, TRUE) = IF count = NaN THEN {} ELSE {p \in 1 .. Len(s) : p <= count}
      BY <1>1 DEF Promise!Popped
    <2> HIDE DEF s, n
    <2>4. CASE count = NaN
      BY <2>1, <2>2, <2>3, <2>4
    <2>5. CASE count # NaN
      <3>1. count \in Int /\ Len(s) \in Nat /\ n \in Nat
        BY <1>1, <2>1, <2>5
      <3>2. \A p \in 1 .. Len(s) : p <= count <=> p <= n
        <4>1. CASE count <= 0
          BY <2>2, <3>1, <4>1
        <4>2. CASE ~ (count <= 0)
          BY <2>2, <2>5, <3>1, <4>2
        <4> QED  BY <4>1, <4>2
      <3>3. 1 .. n = {p \in 1 .. Len(s) : p <= n}
        BY <1>1, <2>1, <3>1
      <3> QED  BY <2>1, <2>3, <2>5, <3>2, <3>3
    <2> QED  BY <2>4, <2>5
  <1> HIDE DEF s, n
  <1>3. DOMAIN s \ (1 .. n) = n + 1 .. Len(s)
    BY <1>1, <1>2
  <1>4. Promise!At(s, 1 .. n) = SubSeq(s, 1, n)
    <2>1. 1 \in Nat /\ n \in Nat /\ 1 <= 1 /\ n <= Len(s) /\ 1 <= n + 1
      BY <1>1, <1>2
    <2> QED  BY <1>1, <2>1, AtInterval
  <1>5. Promise!At(s, n + 1 .. Len(s)) = SubSeq(s, n + 1, Len(s))
    <2>1. n + 1 \in Nat /\ 1 <= n + 1 /\ Len(s) <= Len(s) /\ n + 1 <= Len(s) + 1
      BY <1>1, <1>2
    <2> QED  BY <1>1, <2>1, AtInterval
  <1> QED  BY <1>2, <1>3, <1>4, <1>5 DEF s, n

LEMMA PopsAtBack ==
  ASSUME TypeInv, NEW k \in Keys, NEW count \in Counts
  PROVE  /\ Promise!Backwards(Promise!At(List(k), Promise!Popped(List(k), count, FALSE)))
              = SubSeq(Reverse(List(k)), 1, Popped(k, count))
         /\ Promise!At(List(k), DOMAIN List(k) \ Promise!Popped(List(k), count, FALSE))
              = SubSeq(List(k), 1, Len(List(k)) - Popped(k, count))
  <1> DEFINE s == List(k)
             n == Popped(k, count)
             l == Len(s)
  <1>1. s \in Seq(Values) /\ l \in Nat /\ DOMAIN s = 1 .. l
    BY Found
  <1>2. n \in 0 .. l /\ Promise!Popped(s, count, FALSE) = (l - n) + 1 .. l
    <2>1. count \in Int \cup {NaN} /\ NaN \notin Int /\ n \in 0 .. l
      BY ListsAssumption, CollectionsAssumption, PoppedInRange
    <2>2. n = IF count = NaN \/ count <= 0 THEN 0 ELSE IF count <= l THEN count ELSE l
      BY <2>1 DEF Popped
    <2>3. Promise!Popped(s, count, FALSE) = IF count = NaN THEN {} ELSE {p \in 1 .. l : p > l - count}
      BY <1>1 DEF Promise!Popped
    <2> HIDE DEF s, n, l
    <2>4. CASE count = NaN
      BY <1>1, <2>1, <2>2, <2>3, <2>4
    <2>5. CASE count # NaN
      <3>1. count \in Int /\ l \in Nat /\ n \in Nat
        BY <1>1, <2>1, <2>5
      <3>2. \A p \in 1 .. l : p > l - count <=> p > l - n
        <4>1. CASE count <= 0
          BY <2>2, <3>1, <4>1
        <4>2. CASE ~ (count <= 0)
          BY <2>2, <2>5, <3>1, <4>2
        <4> QED  BY <4>1, <4>2
      <3>3. (l - n) + 1 .. l = {p \in 1 .. l : p > l - n}
        BY <1>1, <2>1, <3>1
      <3> QED  BY <2>1, <2>3, <2>5, <3>2, <3>3
    <2> QED  BY <2>4, <2>5
  <1> HIDE DEF n
  <1>3. DOMAIN s \ ((l - n) + 1 .. l) = 1 .. l - n
    BY <1>1, <1>2
  <1>4. Promise!At(s, (l - n) + 1 .. l) = SubSeq(s, (l - n) + 1, l)
    <2>1. (l - n) + 1 \in Nat /\ 1 <= (l - n) + 1 /\ l <= Len(s) /\ (l - n) + 1 <= l + 1
      BY <1>1, <1>2
    <2> QED  BY <1>1, <2>1, AtInterval
  <1>5. Promise!At(s, 1 .. l - n) = SubSeq(s, 1, l - n)
    <2>1. 1 \in Nat /\ l - n \in Nat /\ 1 <= 1 /\ l - n <= Len(s) /\ 1 <= (l - n) + 1
      BY <1>1, <1>2
    <2> QED  BY <1>1, <2>1, AtInterval
  <1>6. Promise!Backwards(SubSeq(s, (l - n) + 1, l)) = SubSeq(Reverse(s), 1, n)
    <2> DEFINE t == SubSeq(s, (l - n) + 1, l)
               r == Reverse(s)
    <2> HIDE DEF s, l
    <2>0. l = Len(s)
      BY DEF l
    <2>1. t \in Seq(Values) /\ Len(t) = n /\ DOMAIN t = 1 .. n
          /\ \A i \in 1 .. n : t[i] = s[(l - n) + i]
      BY <1>1, <1>2, <2>0
    <2>2. r \in Seq(Values) /\ Len(r) = l /\ \A i \in 1 .. l : r[i] = s[(l + 1) - i]
      BY <1>1, <2>0, ReverseIsSeq
    <2>3. Promise!Backwards(t) = [p \in 1 .. n |-> t[(n + 1) - p]]
      <3> HIDE DEF t
      <3> QED  BY <2>1 DEF Promise!Backwards
    <2>4. SubSeq(r, 1, n) = [p \in 1 .. n |-> r[p]]
      <3> HIDE DEF r
      <3> QED  BY <1>2, <2>2
    <2> HIDE DEF t, r
    <2>5. \A p \in 1 .. n : t[(n + 1) - p] = r[p]
      BY <1>1, <1>2, <2>1, <2>2
    <2> QED  BY <2>3, <2>4, <2>5 DEF t, r
  <1> QED  BY <1>2, <1>3, <1>4, <1>5, <1>6 DEF n

LEMMA PopRefines ==
  ASSUME TypeInv, NEW k \in Keys, NEW count \in Counts,
         UNCHANGED <<strings, hashes, sets, zsets>>,
         \/ request' = <<"LPOP", k, count>> /\ LPop(k, count)
         \/ request' = <<"RPOP", k, count>> /\ RPop(k, count)
  PROVE  Promise!ListWrite
  <1> DEFINE s == List(k)
             n == Popped(k, count)
  <1>1. s \in Seq(Values) /\ Len(s) \in Nat /\ n \in 0 .. Len(s)
    BY Found, PoppedInRange
  <1>2. ASSUME NEW values \in Seq(Values), NEW rest \in Seq(Values),
               s = <<>> => rest = <<>>, Pop(k, count, values, rest)
        PROVE  /\ Promise!SetList(k, rest)
               /\ reply' = IF count = 1 THEN Promise!BulkOrNull(Promise!Lookup(values, 1))
                                        ELSE Promise!Array(values)
    <2>1. Promise!SetList(k, rest)
      <3>1. CASE lists[k] = NoEntry
        <4>1. s = rest /\ UNCHANGED lists
          BY <1>2, <3>1 DEF List, Empty, Pop
        <4> QED  BY <4>1, ListKept
      <3>2. CASE lists[k] # NoEntry
        BY <1>2, <3>2, ListWritten DEF Pop, SetList
      <3> QED  BY <3>1, <3>2
    <2>2. (IF values = <<>> THEN Nil ELSE values[1]) = Promise!Lookup(values, 1)
      BY DEF Promise!Lookup
    <2> QED  BY <1>2, <2>1, <2>2, SameOperators DEF Pop
  <1>3. CASE request' = <<"LPOP", k, count>> /\ LPop(k, count)
    <2> DEFINE values == SubSeq(s, 1, n)
               rest == SubSeq(s, n + 1, Len(s))
               taken == Promise!Popped(s, count, TRUE)
    <2>1. values \in Seq(Values) /\ rest \in Seq(Values) /\ (s = <<>> => rest = <<>>)
      BY <1>1
    <2>2. values = Promise!At(s, taken) /\ rest = Promise!At(s, DOMAIN s \ taken)
      BY PopsAtFront
    <2>3. Pop(k, count, values, rest)
      BY <1>3 DEF LPop
    <2>4. TRUE \in BOOLEAN /\ request' = <<IF TRUE THEN "LPOP" ELSE "RPOP", k, count>>
      BY <1>3
    <2> HIDE DEF values, rest
    <2>5. /\ Promise!SetList(k, rest)
          /\ reply' = IF count = 1 THEN Promise!BulkOrNull(Promise!Lookup(values, 1))
                                   ELSE Promise!Array(values)
      BY <1>2, <2>1, <2>3
    <2>6. s = ListsSeen[k]
      BY SeenIsFound
    <2> HIDE DEF s
    <2> QED  BY <2>2, <2>4, <2>5, <2>6 DEF Promise!ListWrite, ListsSeen
  <1>4. CASE request' = <<"RPOP", k, count>> /\ RPop(k, count)
    <2> DEFINE values == SubSeq(Reverse(s), 1, n)
               rest == SubSeq(s, 1, Len(s) - n)
               taken == Promise!Popped(s, count, FALSE)
    <2>1. values \in Seq(Values) /\ rest \in Seq(Values) /\ (s = <<>> => rest = <<>>)
      <3>1. Reverse(s) \in Seq(Values) /\ Len(Reverse(s)) = Len(s)
        BY <1>1, ReverseIsSeq
      <3> DEFINE r == Reverse(s)
      <3> HIDE DEF r, s, n
      <3> QED  BY <1>1, <3>1 DEF r
    <2>2. values = Promise!Backwards(Promise!At(s, taken)) /\ rest = Promise!At(s, DOMAIN s \ taken)
      BY PopsAtBack
    <2>3. Pop(k, count, values, rest)
      BY <1>4 DEF RPop
    <2>4. FALSE \in BOOLEAN /\ request' = <<IF FALSE THEN "LPOP" ELSE "RPOP", k, count>>
      BY <1>4
    <2> HIDE DEF values, rest
    <2>5. /\ Promise!SetList(k, rest)
          /\ reply' = IF count = 1 THEN Promise!BulkOrNull(Promise!Lookup(values, 1))
                                   ELSE Promise!Array(values)
      BY <1>2, <2>1, <2>3
    <2>6. s = ListsSeen[k]
      BY SeenIsFound
    <2> HIDE DEF s
    <2> QED  BY <2>2, <2>4, <2>5, <2>6 DEF Promise!ListWrite, ListsSeen
  <1> QED  BY <1>3, <1>4

LEMMA LSetRefines ==
  ASSUME TypeInv, NEW k \in Keys, NEW i \in Indexes, NEW v \in Values,
         UNCHANGED <<strings, hashes, sets, zsets>>,
         request' = <<"LSET", k, i, v>>, LSet(k, i, v)
  PROVE  Promise!ListWrite
  <1> DEFINE s == List(k)
             t == [p \in DOMAIN s |-> IF p = i + 1 THEN v ELSE s[p]]
  <1>1. s \in Seq(Values) /\ Len(s) \in Nat /\ DOMAIN s = 1 .. Len(s) /\ i \in Int
    BY Found, CollectionsAssumption
  <1>2. i + 1 \in DOMAIN s <=> i \in 0 .. Len(s) - 1
    BY <1>1
  <1>3. reply' = (IF i + 1 \in DOMAIN s THEN OK ELSE Error) /\ Promise!SetList(k, t)
    <2>1. CASE i \in 0 .. Len(s) - 1
      <3>1. SetList(k, [s EXCEPT ![i + 1] = v]) /\ reply' = OK
        BY <2>1 DEF LSet
      <3>2. t = [s EXCEPT ![i + 1] = v] /\ t \in Seq(Values)
        <4> HIDE DEF s
        <4>1. s = [p \in 1 .. Len(s) |-> s[p]]
          BY <1>1
        <4>2. t = [s EXCEPT ![i + 1] = v]
          BY <1>1, <4>1
        <4>3. [s EXCEPT ![i + 1] = v] \in Seq(Values)
          BY <1>1, <1>2, <2>1, ExceptSeq
        <4> QED  BY <4>2, <4>3
      <3>3. lists[k] # NoEntry
        BY <2>1 DEF List, Empty
      <3> HIDE DEF t
      <3>4. Promise!SetList(k, t)
        BY <3>1, <3>2, <3>3, ListWritten DEF SetList
      <3> QED  BY <1>2, <2>1, <3>1, <3>4
    <2>2. CASE i \notin 0 .. Len(s) - 1
      <3>1. UNCHANGED lists /\ reply' = Error
        BY <2>2 DEF LSet
      <3>2. t = s
        <4> HIDE DEF s
        <4> QED  BY <1>1, <1>2, <2>2
      <3>3. Promise!SetList(k, s)
        BY <3>1, ListKept
      <3> HIDE DEF s, t
      <3> QED  BY <1>2, <2>2, <3>1, <3>2, <3>3
    <2> QED  BY <2>1, <2>2
  <1>4. s = ListsSeen[k]
    BY SeenIsFound
  <1> HIDE DEF s
  <1> QED  BY <1>3, <1>4, SameOperators DEF Promise!ListWrite, ListsSeen

(* What LREM may take: as many values as it was asked for, from the right  *)
(* end.                                                                    *)
Takes(s, v, count, T) ==
  /\ T \in SUBSET Promise!Holding(s, v)
  /\ count = NaN => T = {}
  /\ count = 0 => T = Promise!Holding(s, v)
  /\ count # NaN /\ count # 0 =>
       LET most == IF count > 0 THEN count ELSE -count
       IN  /\ Promise!Cardinality(T) <= most
           /\ Promise!Cardinality(T) = most \/ T = Promise!Holding(s, v)
           /\ \A p \in T, q \in Promise!Holding(s, v) \ T : IF count > 0 THEN p < q ELSE q < p

LEMMA HoldingIs ==
  ASSUME NEW s \in Seq(Values), NEW v
  PROVE  /\ \A p : p \in Promise!Holding(s, v) <=> p \in 1 .. Len(s) /\ s[p] = v
         /\ IsFiniteSet(Promise!Holding(s, v)) /\ Len(s) \in Nat
  <1> DEFINE H == Promise!Holding(s, v)
  <1>1. H = {p \in 1 .. Len(s) : s[p] = v} /\ Len(s) \in Nat
    BY DEF Promise!Holding
  <1>2. IsFiniteSet(1 .. Len(s))
    BY <1>1, FS_Interval
  <1> HIDE DEF H
  <1>3. H \subseteq 1 .. Len(s)
    BY <1>1
  <1>4. IsFiniteSet(H)
    BY <1>2, <1>3, FS_Subset
  <1> QED  BY <1>1, <1>4 DEF H

(* There is one such set of positions.                                     *)
LEMMA OneTaken ==
  ASSUME NEW s \in Seq(Values), NEW v, NEW count \in Int \cup {NaN},
         NEW T, Takes(s, v, count, T), NEW U, Takes(s, v, count, U)
  PROVE  T = U
  <1> DEFINE H == Promise!Holding(s, v)
             most == IF count > 0 THEN count ELSE -count
  <1>1. NaN \notin Int
    BY CollectionsAssumption
  <1>2. CASE count = NaN \/ count = 0
    BY <1>2 DEF Takes
  <1>3. CASE count # NaN /\ count # 0
    <2>1. /\ IsFiniteSet(H) /\ H \subseteq Nat /\ T \subseteq H /\ U \subseteq H
      BY HoldingIs DEF Takes
    <2>2. /\ IsFiniteSet(T) /\ IsFiniteSet(U)
          /\ Cardinality(T) \in Nat /\ Cardinality(U) \in Nat
      BY <2>1, FS_Subset, FS_CardinalityType
    <2>3. /\ Cardinality(T) <= most /\ (Cardinality(T) = most \/ T = H)
          /\ Cardinality(U) <= most /\ (Cardinality(U) = most \/ U = H)
          /\ \A p \in T, q \in H \ T : IF count > 0 THEN p < q ELSE q < p
          /\ \A p \in U, q \in H \ U : IF count > 0 THEN p < q ELSE q < p
      BY <1>3, SameOperators DEF Takes
    <2>4. count \in Int /\ most \in Nat
      BY <1>1, <1>3
    <2> HIDE DEF H, most
    <2>5. T \subseteq U \/ U \subseteq T
      <3>1. SUFFICES ASSUME NEW p \in T \ U, NEW q \in U \ T
                     PROVE  FALSE
        OBVIOUS
      <3>2. p \in Nat /\ q \in Nat /\ p \in H /\ q \in H
        BY <2>1
      <3> QED  BY <2>3, <2>4, <3>2
    <2>6. CASE T \subseteq U
      <3>1. T # U => Cardinality(T) < Cardinality(U)
        BY <2>2, <2>6, FS_Subset
      <3>2. T # U => Cardinality(T) # most
        BY <2>2, <2>3, <2>4, <3>1
      <3>3. T = H => T = U
        BY <2>1, <2>6
      <3> QED  BY <2>3, <3>2, <3>3
    <2>7. CASE U \subseteq T
      <3>1. T # U => Cardinality(U) < Cardinality(T)
        BY <2>2, <2>7, FS_Subset
      <3>2. T # U => Cardinality(U) # most
        BY <2>2, <2>3, <2>4, <3>1
      <3>3. U = H => T = U
        BY <2>1, <2>7
      <3> QED  BY <2>3, <3>2, <3>3
    <2> QED  BY <2>5, <2>6, <2>7
  <1> QED  BY <1>2, <1>3

LEMMA TakenIs ==
  ASSUME NEW s \in Seq(Values), NEW v, NEW count \in Int \cup {NaN},
         NEW T, Takes(s, v, count, T)
  PROVE  Promise!Taken(s, v, count) = T
  <1>1. Promise!Taken(s, v, count) =
          CHOOSE X \in SUBSET Promise!Holding(s, v) : Takes(s, v, count, X)
    BY DEF Promise!Taken, Takes
  <1>2. T \in SUBSET Promise!Holding(s, v)
    BY DEF Takes
  <1> DEFINE C == CHOOSE X \in SUBSET Promise!Holding(s, v) : Takes(s, v, count, X)
  <1>3. Takes(s, v, count, C)
    BY <1>2
  <1> HIDE DEF C
  <1>4. C = T
    BY <1>3, OneTaken
  <1> QED  BY <1>1, <1>4 DEF C

(* The first positions that hold v.                                        *)
LEMMA FirstHoldingTakes ==
  ASSUME NEW s \in Seq(Values), NEW v, NEW limit \in Nat, NEW T,
         FirstHolding(s, v, limit, Len(s), T)
  PROVE  /\ T \subseteq Promise!Holding(s, v) /\ Cardinality(T) \in Nat /\ Cardinality(T) <= limit
         /\ Cardinality(T) = limit \/ T = Promise!Holding(s, v)
         /\ \A p \in T, q \in Promise!Holding(s, v) \ T : p < q
         /\ limit = 0 => T = {}
         /\ limit = Len(s) => T = Promise!Holding(s, v)
  <1> DEFINE H == Promise!Holding(s, v)
             I == 1 .. Len(s)
  <1>1. /\ T \subseteq I /\ IsFiniteSet(T) /\ Cardinality(T) <= limit
        /\ \A p \in T : s[p] = v
        /\ Cardinality(T) < limit => \A p \in I : s[p] = v => p \in T
        /\ \A p \in T, q \in I \ T : s[q] = v => p < q
    BY DEF FirstHolding
  <1>2. \A p : p \in H <=> p \in I /\ s[p] = v
    BY HoldingIs
  <1>3. Len(s) \in Nat /\ IsFiniteSet(I) /\ Cardinality(I) = Len(s)
    <2> DEFINE l == Len(s)
    <2>1. l \in Nat
      OBVIOUS
    <2> HIDE DEF l
    <2>2. IsFiniteSet(1 .. l) /\ Cardinality(1 .. l) = l
      BY <2>1, FS_Interval
    <2> QED  BY <2>1, <2>2 DEF l
  <1>4. Cardinality(T) \in Nat
    BY <1>1, FS_CardinalityType
  <1> HIDE DEF H, I
  <1>5. Cardinality(T) < limit => T = H
    BY <1>1, <1>2
  <1>6. Cardinality(T) = Len(s) => T = I
    BY <1>1, <1>3, FS_Subset
  <1>7. T \subseteq H
    BY <1>1, <1>2
  <1>8. limit = 0 => T = {}
    BY <1>1, <1>4, FS_EmptySet
  <1>9. T = I => T = H
    BY <1>2, <1>7
  <1>10. \A p \in T, q \in H \ T : p < q
    BY <1>1, <1>2
  <1> QED  BY <1>1, <1>3, <1>4, <1>5, <1>6, <1>7, <1>8, <1>9, <1>10 DEF H

(* The positions P counted from the other end of a list of length l.       *)
Mirror(l, P) == {(l + 1) - p : p \in P}

LEMMA MirrorIs ==
  ASSUME NEW l \in Nat, NEW P, P \subseteq 1 .. l
  PROVE  /\ \A p \in 1 .. l : (l + 1) - p \in 1 .. l /\ (p \in Mirror(l, P) <=> (l + 1) - p \in P)
         /\ \A p \in Mirror(l, P) : p \in 1 .. l
         /\ Cardinality(Mirror(l, P)) = Cardinality(P)
  <1>1. \A p \in 1 .. l : (l + 1) - p \in 1 .. l /\ (l + 1) - ((l + 1) - p) = p
    OBVIOUS
  <1>2. \A p \in 1 .. l : p \in Mirror(l, P) <=> (l + 1) - p \in P
    <2>1. ASSUME NEW p \in 1 .. l, p \in Mirror(l, P)
          PROVE  (l + 1) - p \in P
      <3>1. PICK q \in P : p = (l + 1) - q
        BY <2>1 DEF Mirror
      <3>2. (l + 1) - p = q
        BY <3>1
      <3> QED  BY <3>2
    <2>2. ASSUME NEW p \in 1 .. l, (l + 1) - p \in P
          PROVE  p \in Mirror(l, P)
      <3>1. p = (l + 1) - ((l + 1) - p)
        BY <1>1
      <3> QED  BY <2>2, <3>1 DEF Mirror
    <2> QED  BY <2>1, <2>2
  <1>3. \A p \in Mirror(l, P) : p \in 1 .. l
    BY DEF Mirror
  <1>4. Cardinality(Mirror(l, P)) = Cardinality(P)
    <2> DEFINE f == [p \in P |-> (l + 1) - p]
    <2>1. f \in Bijection(P, Mirror(l, P))
      <3>1. f \in [P -> Mirror(l, P)] /\ \A p \in P : f[p] = (l + 1) - p
        BY DEF Mirror
      <3>2. \A q \in Mirror(l, P) : \E p \in P : f[p] = q
        BY DEF Mirror
      <3>3. \A p, q \in P : (l + 1) - p = (l + 1) - q => p = q
        OBVIOUS
      <3> HIDE DEF f
      <3> QED  BY <3>1, <3>2, <3>3 DEF Bijection, Injection, Surjection, IsInjective
    <2>2. IsFiniteSet(P)
      <3>1. IsFiniteSet(1 .. l)
        BY FS_Interval
      <3> QED  BY <3>1, FS_Subset
    <2>3. ExistsBijection(P, Mirror(l, P))
      BY <2>1 DEF ExistsBijection
    <2> QED  BY <2>2, <2>3, FS_Bijection
  <1> QED  BY <1>1, <1>2, <1>3, <1>4

(* e read backwards, its numbers counted from the other end.               *)
Mirrored(l, e) == [i \in 1 .. Len(e) |-> (l + 1) - e[(Len(e) + 1) - i]]

LEMMA MirroredEnumerates ==
  ASSUME NEW l \in Nat, NEW P, P \subseteq 1 .. l, NEW e, Enumerates(e, P),
         NEW Q, Q \subseteq 1 .. l, \A p \in 1 .. l : p \in Q <=> (l + 1) - p \in P
  PROVE  Enumerates(Mirrored(l, e), Q) /\ Len(Mirrored(l, e)) = Len(e)
  <1> DEFINE m == Mirrored(l, e)
             n == Len(e)
  <1>0. P \subseteq Nat
    OBVIOUS
  <1>1. /\ n \in Nat /\ DOMAIN e = 1 .. n
        /\ \A j \in 1 .. n : e[j] \in P /\ e[j] \in Nat
        /\ \A p \in P : \E j \in 1 .. n : p = e[j]
    BY <1>0, EnumerationType
  <1>2. \A i, j \in 1 .. n : i < j => e[i] < e[j]
    BY <1>1 DEF Enumerates
  <1>3. m = [i \in 1 .. n |-> (l + 1) - e[(n + 1) - i]]
    BY DEF Mirrored
  <1> HIDE DEF m, n
  <1>4. \A i \in 1 .. n : /\ (n + 1) - i \in 1 .. n /\ e[(n + 1) - i] \in 1 .. l
                          /\ m[i] = (l + 1) - e[(n + 1) - i] /\ m[i] \in 1 .. l /\ m[i] \in Q
    <2>1. ASSUME NEW i \in 1 .. n
          PROVE  /\ (n + 1) - i \in 1 .. n /\ e[(n + 1) - i] \in 1 .. l
                 /\ m[i] = (l + 1) - e[(n + 1) - i] /\ m[i] \in 1 .. l /\ m[i] \in Q
      <3>1. (n + 1) - i \in 1 .. n
        BY <1>1
      <3>2. e[(n + 1) - i] \in P /\ e[(n + 1) - i] \in 1 .. l
        BY <1>1, <3>1
      <3>3. m[i] = (l + 1) - e[(n + 1) - i]
        BY <1>3
      <3>4. m[i] \in 1 .. l /\ (l + 1) - m[i] = e[(n + 1) - i]
        BY <3>2, <3>3
      <3> QED  BY <3>1, <3>2, <3>3, <3>4
    <2> QED  BY <2>1
  <1>5. m \in Seq(Q) /\ Len(m) = n /\ DOMAIN m = 1 .. n
    BY <1>1, <1>3, <1>4
  <1>6. Elements(m) = Q
    <2>1. ASSUME NEW q \in Q
          PROVE  \E i \in 1 .. n : m[i] = q
      <3>1. q \in 1 .. l /\ (l + 1) - q \in P
        OBVIOUS
      <3>2. PICK j \in 1 .. n : (l + 1) - q = e[j]
        BY <1>1, <3>1
      <3>3. (n + 1) - j \in 1 .. n /\ (n + 1) - ((n + 1) - j) = j
        BY <1>1
      <3>4. m[(n + 1) - j] = (l + 1) - e[j]
        BY <1>3, <3>3
      <3>5. m[(n + 1) - j] = q
        BY <3>1, <3>2, <3>4
      <3> QED  BY <3>3, <3>5
    <2>2. Elements(m) = {m[i] : i \in 1 .. n}
      BY <1>5 DEF Elements
    <2>3. \A q : q \in {m[i] : i \in 1 .. n} <=> q \in Q
      BY <1>4, <2>1
    <2> QED  BY <2>2, <2>3
  <1>7. ASSUME NEW i \in 1 .. n, NEW j \in 1 .. n, i < j
        PROVE  m[i] < m[j]
    <2>1. (n + 1) - j < (n + 1) - i
      BY <1>1, <1>7
    <2>2. e[(n + 1) - j] < e[(n + 1) - i]
      BY <1>2, <1>4, <2>1
    <2>3. e[(n + 1) - j] \in Nat /\ e[(n + 1) - i] \in Nat
      BY <1>4
    <2>4. (l + 1) - e[(n + 1) - i] < (l + 1) - e[(n + 1) - j]
      BY <2>2, <2>3
    <2> QED  BY <1>4, <2>4
  <1> QED  BY <1>5, <1>6, <1>7 DEF Enumerates, m, n

LEMMA MirroredChosen ==
  ASSUME NEW S, NEW s \in Seq(S), NEW P, P \subseteq 1 .. Len(s), NEW e, Enumerates(e, P)
  PROVE  Reverse(Chosen(Reverse(s), e)) = Chosen(s, Mirrored(Len(s), e))
  <1> DEFINE n == Len(e)
             l == Len(s)
             r == Reverse(s)
             c == Chosen(r, e)
             m == Mirrored(l, e)
  <1>0. P \subseteq Nat /\ l \in Nat
    OBVIOUS
  <1>1. n \in Nat /\ \A j \in 1 .. n : e[j] \in 1 .. l
    <2>1. n \in Nat /\ \A j \in 1 .. n : e[j] \in P
      BY <1>0, EnumerationType
    <2> QED  BY <2>1
  <1>2. r \in Seq(S) /\ Len(r) = l /\ \A i \in 1 .. l : r[i] = s[(l + 1) - i]
    BY ReverseIsSeq
  <1>3. c \in Seq(S) /\ Len(c) = n /\ \A i \in 1 .. n : c[i] = r[e[i]]
    <2>1. P \subseteq 1 .. Len(r)
      BY <1>2
    <2> HIDE DEF r
    <2>2. c \in Seq(S) /\ Len(c) = n
      BY <1>2, <2>1, ChosenIsSeq
    <2> QED  BY <2>2 DEF Chosen
  <1> HIDE DEF c
  <1>4. Reverse(c) \in Seq(S) /\ Len(Reverse(c)) = n /\ \A i \in 1 .. n : Reverse(c)[i] = c[(n + 1) - i]
    BY <1>3, ReverseIsSeq
  <1>5. Reverse(c) = [i \in 1 .. n |-> Reverse(c)[i]]
    BY <1>4
  <1>6. Len(m) = n /\ \A i \in 1 .. n : m[i] = (l + 1) - e[(n + 1) - i]
    BY <1>1 DEF Mirrored
  <1>7. Chosen(s, m) = [i \in 1 .. n |-> s[m[i]]]
    <2> HIDE DEF m, n
    <2> QED  BY <1>6 DEF Chosen
  <1> HIDE DEF m, n, r, l
  <1>8. ASSUME NEW i \in 1 .. n
        PROVE  Reverse(c)[i] = s[m[i]]
    <2>1. (n + 1) - i \in 1 .. n
      BY <1>1
    <2>2. Reverse(c)[i] = r[e[(n + 1) - i]]
      BY <1>3, <1>4, <2>1
    <2>3. e[(n + 1) - i] \in 1 .. l
      BY <1>1, <2>1
    <2>4. r[e[(n + 1) - i]] = s[(l + 1) - e[(n + 1) - i]]
      BY <1>2, <2>3
    <2> QED  BY <1>6, <2>2, <2>4
  <1>9. Reverse(c) = Chosen(s, m)
    BY <1>5, <1>7, <1>8
  <1> QED  BY <1>9 DEF c, m, r, l

(* The loop of LREM takes what it promises, and keeps the rest in order.   *)
LEMMA RemoveCountTakes ==
  ASSUME NEW s \in Seq(Values), NEW v, NEW count \in Int \cup {NaN}
  PROVE  \E T, e : /\ Takes(s, v, count, T) /\ T \subseteq 1 .. Len(s)
                   /\ Enumerates(e, (1 .. Len(s)) \ T)
                   /\ RemoveCount(s, v, count) = [kept |-> Chosen(s, e), removed |-> Cardinality(T)]
  <1> DEFINE H == Promise!Holding(s, v)
             l == Len(s)
  <1>1. NaN \notin Int /\ l \in Nat
    BY CollectionsAssumption
  <1>2. ASSUME NEW limit \in Nat, RemoveCount(s, v, count) = Taking(s, v, limit),
               \/ count = NaN /\ limit = 0
               \/ count = 0 /\ limit = l
               \/ count # NaN /\ count > 0 /\ limit = count
        PROVE  \E T, e : /\ Takes(s, v, count, T) /\ T \subseteq 1 .. l
                         /\ Enumerates(e, (1 .. l) \ T)
                         /\ RemoveCount(s, v, count) = [kept |-> Chosen(s, e), removed |-> Cardinality(T)]
    <2>1. PICK T, e : /\ FirstHolding(s, v, limit, l, T)
                      /\ Enumerates(e, Others(l, T))
                      /\ Taking(s, v, limit) = [kept |-> Chosen(s, e), removed |-> Cardinality(T)]
      BY TakingTakes
    <2>2. /\ T \subseteq H /\ Cardinality(T) \in Nat /\ Cardinality(T) <= limit
          /\ Cardinality(T) = limit \/ T = H
          /\ \A p \in T, q \in H \ T : p < q
          /\ limit = 0 => T = {}
          /\ limit = l => T = H
      BY <2>1, FirstHoldingTakes
    <2>3. Takes(s, v, count, T)
      <3>1. count = NaN => T = {}
        BY <1>1, <1>2, <2>2
      <3>2. count = 0 => T = H
        BY <1>1, <1>2, <2>2
      <3>3. count # NaN /\ count # 0 => count > 0 /\ limit = count
        BY <1>1, <1>2
      <3> HIDE DEF H
      <3>4. count # NaN /\ count # 0 =>
              /\ Promise!Cardinality(T) <= IF count > 0 THEN count ELSE -count
              /\ Promise!Cardinality(T) = (IF count > 0 THEN count ELSE -count) \/ T = H
              /\ \A p \in T, q \in H \ T : IF count > 0 THEN p < q ELSE q < p
        BY <2>2, <3>3, SameOperators
      <3> QED  BY <2>2, <3>1, <3>2, <3>4 DEF Takes, H
    <2>4. T \subseteq 1 .. l
      BY <2>1 DEF FirstHolding
    <2> QED  BY <1>2, <2>1, <2>3, <2>4 DEF Others
  <1>3. CASE count = NaN
    <2>1. RemoveCount(s, v, count) = Taking(s, v, 0)
      BY <1>1, <1>3 DEF RemoveCount
    <2> QED  BY <1>2, <1>3, <2>1
  <1>4. CASE count = 0
    <2>1. RemoveCount(s, v, count) = Taking(s, v, l)
      BY <1>1, <1>4 DEF RemoveCount
    <2> QED  BY <1>1, <1>2, <1>4, <2>1
  <1>5. CASE count # NaN /\ count > 0
    <2>1. count \in Nat
      BY <1>1, <1>5
    <2>2. RemoveCount(s, v, count) = Taking(s, v, count)
      BY <1>5, <2>1 DEF RemoveCount
    <2> QED  BY <1>2, <1>5, <2>1, <2>2
  <1>6. CASE count # NaN /\ count < 0
    <2> DEFINE r == Reverse(s)
               I == 1 .. l
    <2>1. -count \in Nat /\ r \in Seq(Values) /\ Len(r) = l /\ \A i \in 1 .. l : r[i] = s[(l + 1) - i]
      BY <1>1, <1>6, ReverseIsSeq
    <2>2. RemoveCount(s, v, count) = Backwards(Taking(r, v, -count))
      BY <1>1, <1>6, <2>1 DEF RemoveCount
    <2> HIDE DEF r
    <2>3. PICK T, e : /\ FirstHolding(r, v, -count, l, T)
                      /\ Enumerates(e, Others(l, T))
                      /\ Taking(r, v, -count) = [kept |-> Chosen(r, e), removed |-> Cardinality(T)]
      <3>1. \E T, e : /\ FirstHolding(r, v, -count, Len(r), T)
                      /\ Enumerates(e, Others(Len(r), T))
                      /\ Taking(r, v, -count) = [kept |-> Chosen(r, e), removed |-> Cardinality(T)]
        BY <2>1, TakingTakes
      <3> QED  BY <2>1, <3>1
    <2> DEFINE U == Mirror(l, T)
               G == Promise!Holding(r, v)
    <2>4. /\ T \subseteq G /\ Cardinality(T) \in Nat /\ Cardinality(T) <= -count
          /\ Cardinality(T) = -count \/ T = G
          /\ \A p \in T, q \in G \ T : p < q
      BY <2>1, <2>3, FirstHoldingTakes
    <2>5. T \subseteq I
      BY <2>3 DEF FirstHolding
    <2>6. /\ \A p \in I : (l + 1) - p \in I /\ (p \in U <=> (l + 1) - p \in T)
          /\ \A p \in U : p \in I
          /\ Cardinality(U) = Cardinality(T)
      BY <1>1, <2>5, MirrorIs
    <2>7. \A p : /\ p \in H <=> p \in I /\ s[p] = v
                 /\ p \in G <=> p \in I /\ r[p] = v
      BY <2>1, HoldingIs
    <2> HIDE DEF U, H, G
    <2>8. \A p \in I : p \in H <=> (l + 1) - p \in G
      <3>1. ASSUME NEW p \in I
            PROVE  p \in H <=> (l + 1) - p \in G
        <4>1. (l + 1) - p \in I /\ (l + 1) - ((l + 1) - p) = p
          BY <1>1, <2>6
        <4>2. r[(l + 1) - p] = s[p]
          BY <2>1, <4>1
        <4> QED  BY <2>7, <4>1, <4>2
      <3> QED  BY <3>1
    <2>9. U \subseteq H
      BY <2>4, <2>6, <2>8
    <2>10. T = G => U = H
      <3> HIDE DEF I
      <3> QED  BY <2>6, <2>7, <2>8, <2>9
    <2>11. ASSUME NEW p \in U, NEW q \in H \ U
           PROVE  q < p
      <3>1. p \in I /\ q \in I /\ (l + 1) - p \in T /\ (l + 1) - q \in G \ T
        BY <2>6, <2>7, <2>8
      <3>2. (l + 1) - p < (l + 1) - q
        BY <2>4, <3>1
      <3>3. p \in Nat /\ q \in Nat
        BY <3>1
      <3> QED  BY <1>1, <3>2, <3>3
    <2>12. Takes(s, v, count, U)
      <3>1. count # 0 /\ ~ (count > 0)
        BY <1>1, <1>6
      <3>2. /\ Promise!Cardinality(U) <= IF count > 0 THEN count ELSE -count
            /\ Promise!Cardinality(U) = (IF count > 0 THEN count ELSE -count) \/ U = H
            /\ \A p \in U, q \in H \ U : IF count > 0 THEN p < q ELSE q < p
        BY <2>4, <2>6, <2>10, <2>11, <3>1, SameOperators
      <3> QED  BY <1>6, <2>9, <3>1, <3>2 DEF Takes, H
    <2> DEFINE P == Others(l, T)
               Q == I \ U
               m == Mirrored(l, e)
    <2>13. P \subseteq 1 .. l /\ Q \subseteq 1 .. l /\ \A p \in 1 .. l : p \in Q <=> (l + 1) - p \in P
      BY <2>6 DEF Others
    <2> HIDE DEF P, Q, I
    <2>14. Enumerates(m, Q)
      BY <1>1, <2>3, <2>13, MirroredEnumerates DEF P
    <2>15. RemoveCount(s, v, count) = [kept |-> Chosen(s, m), removed |-> Cardinality(U)]
      <3>1. Reverse(Chosen(r, e)) = Chosen(s, m)
        BY <2>3, <2>13, MirroredChosen DEF P, r
      <3>2. RemoveCount(s, v, count) = [kept |-> Reverse(Chosen(r, e)), removed |-> Cardinality(T)]
        BY <2>2, <2>3 DEF Backwards
      <3> QED  BY <2>6, <3>1, <3>2
    <2> QED  BY <2>6, <2>12, <2>14, <2>15 DEF Q, I
  <1>7. count = NaN \/ count = 0 \/ (count # NaN /\ count > 0) \/ (count # NaN /\ count < 0)
    BY <1>1
  <1> QED  BY <1>3, <1>4, <1>5, <1>6, <1>7

LEMMA LRemRefines ==
  ASSUME TypeInv, NEW k \in Keys, NEW count \in Counts, NEW v \in Values,
         UNCHANGED <<strings, hashes, sets, zsets>>,
         request' = <<"LREM", k, count, v>>, LRem(k, count, v)
  PROVE  Promise!ListWrite
  <1> DEFINE s == List(k)
             T == Promise!Taken(s, v, count)
             rest == Promise!At(s, DOMAIN s \ T)
  <1>1. s \in Seq(Values) /\ Len(s) \in Nat /\ DOMAIN s = 1 .. Len(s) /\ count \in Int \cup {NaN}
    BY Found, ListsAssumption
  <1>2. s = ListsSeen[k]
    BY SeenIsFound
  <1>3. /\ RemoveCount(s, v, count) = [kept |-> rest, removed |-> Cardinality(T)]
        /\ rest \in Seq(Values) /\ (s = <<>> => rest = <<>>)
    <2> HIDE DEF s
    <2>1. PICK U, e : /\ Takes(s, v, count, U) /\ U \subseteq 1 .. Len(s)
                      /\ Enumerates(e, (1 .. Len(s)) \ U)
                      /\ RemoveCount(s, v, count) = [kept |-> Chosen(s, e), removed |-> Cardinality(U)]
      BY <1>1, RemoveCountTakes
    <2>2. T = U
      BY <1>1, <2>1, TakenIs
    <2> DEFINE P == (1 .. Len(s)) \ U
               n == Len(s)
    <2>3. P \subseteq 1 .. n
      OBVIOUS
    <2> HIDE DEF P, T
    <2>4. rest = Promise!At(s, P)
      BY <1>1, <2>2 DEF P
    <2>5. Promise!At(s, P) = Chosen(s, e) /\ Cardinality(P) = Len(e)
      <3> HIDE DEF n
      <3> QED  BY <1>1, <2>1, <2>3, AtIsChosen DEF P, n
    <2>6. Chosen(s, e) \in Seq(Values) /\ Len(Chosen(s, e)) = Len(e)
      BY <1>1, <2>1, <2>3, ChosenIsSeq DEF P
    <2>7. ASSUME s = <<>>
          PROVE  Chosen(s, e) = <<>>
      <3>1. P = {}
        BY <2>7 DEF P
      <3>2. Len(e) = 0
        BY <2>5, <3>1, FS_EmptySet
      <3> QED  BY <2>6, <3>2 DEF Chosen
    <2> HIDE DEF rest
    <2> QED  BY <2>1, <2>2, <2>4, <2>5, <2>6, <2>7
  <1> HIDE DEF rest, T
  <1>4. reply' = Integer(Cardinality(T))
    BY <1>3 DEF LRem
  <1>5. Promise!SetList(k, rest)
    <2>1. CASE lists[k] = NoEntry
      <3>1. UNCHANGED lists /\ s = rest
        BY <1>3, <2>1 DEF LRem, List, Empty
      <3> QED  BY <3>1, ListKept
    <2>2. CASE lists[k] # NoEntry
      <3>1. lists' = [lists EXCEPT ![k] = rest]
        BY <1>3, <2>2 DEF LRem, SetList
      <3> QED  BY <1>3, <2>2, <3>1, ListWritten
    <2> QED  BY <2>1, <2>2
  <1> HIDE DEF s
  <1> QED  BY <1>2, <1>4, <1>5, SameOperators DEF Promise!ListWrite, ListsSeen, T, rest

(* Array.slice takes the positions between two indexes.                    *)
LEMMA SliceIs ==
  ASSUME NEW S, NEW s \in Seq(S), NEW i \in Int, NEW j \in Int
  PROVE  Slice(s, i, j) = Promise!At(s, Promise!Positions(Len(s), i, j))
  <1> DEFINE l == Len(s)
             a == From(i, l) + 1
             b == To(j, l) + 1
             P == Promise!Positions(l, i, j)
             first == Promise!FromEnd(i, l)
             last == Promise!FromEnd(j, l)
  <1>1. l \in Nat
    OBVIOUS
  <1>2. P = {p \in 1 .. l : first <= p - 1 /\ p - 1 <= last}
    BY DEF Promise!Positions
  <1> HIDE DEF l
  <1>3. /\ first \in Int /\ last \in Int /\ a \in Nat /\ b \in Int /\ 1 <= a /\ b <= l
        /\ \A p \in 1 .. l : (first <= p - 1 <=> a <= p) /\ (p - 1 <= last <=> p <= b)
    BY <1>1 DEF From, To, Promise!FromEnd
  <1>4. Slice(s, i, j) = SubSeq(s, a, b)
    BY DEF Slice, l
  <1> HIDE DEF a, b, P, first, last
  <1>5. CASE a <= b
    <2>1. P = a .. b
      <3>1. a .. b = {p \in 1 .. l : a <= p /\ p <= b}
        BY <1>1, <1>3
      <3> QED  BY <1>2, <1>3, <3>1
    <2>2. b \in Nat /\ a <= b + 1 /\ b <= Len(s)
      BY <1>3, <1>5 DEF l
    <2>3. Promise!At(s, a .. b) = SubSeq(s, a, b)
      BY <1>3, <2>2, AtInterval
    <2> QED  BY <1>4, <2>1, <2>3 DEF P, l
  <1>6. CASE ~ (a <= b)
    <2>1. P = {}
      <3>1. ASSUME NEW p \in 1 .. l, a <= p, p <= b
            PROVE  FALSE
        BY <1>1, <1>3, <1>6, <3>1
      <3> QED  BY <1>2, <1>3, <3>1
    <2>2. SubSeq(s, a, b) = <<>>
      BY <1>3, <1>6
    <2> QED  BY <1>4, <2>1, <2>2, AtNothing DEF P, l
  <1> QED  BY <1>5, <1>6

LEMMA ListAnswers ==
  ASSUME TypeInv, NEW k \in Keys,
         \/ request' = <<"LLEN", k>> /\ LLen(k)
         \/ \E i \in Indexes, j \in Indexes : request' = <<"LRANGE", k, i, j>> /\ LRange(k, i, j)
         \/ \E i \in Indexes : request' = <<"LINDEX", k, i>> /\ LIndex(k, i)
  PROVE  UNCHANGED lists /\ Promise!ListAnswer(k)
  <1> DEFINE s == List(k)
  <1>1. s \in Seq(Values) /\ Len(s) \in Nat /\ DOMAIN s = 1 .. Len(s)
    BY Found
  <1>2. s = ListsSeen[k]
    BY SeenIsFound
  <1> HIDE DEF s
  <1>3. CASE request' = <<"LLEN", k>> /\ LLen(k)
    BY <1>2, <1>3, SameOperators DEF LLen, Promise!ListAnswer, ListsSeen, s
  <1>4. ASSUME NEW i \in Indexes, NEW j \in Indexes,
               request' = <<"LRANGE", k, i, j>>, LRange(k, i, j)
        PROVE  UNCHANGED lists /\ Promise!ListAnswer(k)
    <2>1. i \in Int /\ j \in Int
      BY CollectionsAssumption
    <2>2. Slice(s, i, j) = Promise!At(s, Promise!Positions(Len(s), i, j))
      BY <1>1, <2>1, SliceIs
    <2>3. UNCHANGED lists /\ reply' = Promise!Array(Slice(s, i, j))
      BY <1>4, SameOperators DEF LRange, s
    <2> QED  BY <1>2, <1>4, <2>2, <2>3 DEF Promise!ListAnswer, ListsSeen
  <1>5. ASSUME NEW i \in Indexes, request' = <<"LINDEX", k, i>>, LIndex(k, i)
        PROVE  UNCHANGED lists /\ Promise!ListAnswer(k)
    <2> DEFINE found == Slice(s, i, i)
               a == Promise!FromEnd(i, Len(s)) + 1
    <2>1. i \in Int
      BY CollectionsAssumption
    <2>2. (IF found = <<>> THEN Nil ELSE found[1]) = Promise!Lookup(s, a)
      <3>1. From(i, Len(s)) \in Nat /\ To(i, Len(s)) \in Int /\ a \in Int
        BY <1>1, <2>1 DEF From, To, Promise!FromEnd
      <3>2. CASE a \in 1 .. Len(s)
        <4>1. From(i, Len(s)) = a - 1 /\ To(i, Len(s)) = a - 1
          BY <1>1, <2>1, <3>2 DEF From, To, Promise!FromEnd
        <4>2. found = SubSeq(s, a, a)
          <5>1. From(i, Len(s)) + 1 = a /\ To(i, Len(s)) + 1 = a
            <6> HIDE DEF a
            <6> QED  BY <3>1, <4>1
          <5> HIDE DEF a
          <5> QED  BY <5>1 DEF Slice
        <4>3. found # <<>> /\ found[1] = s[a]
          <5> HIDE DEF a
          <5> QED  BY <1>1, <3>2, <4>2
        <4> HIDE DEF found, a
        <4> QED  BY <1>1, <3>2, <4>3 DEF Promise!Lookup
      <3>3. CASE a \notin 1 .. Len(s)
        <4>1. To(i, Len(s)) < From(i, Len(s))
          <5> DEFINE l == Len(s)
          <5> HIDE DEF l
          <5>1. l \in Nat
            BY <1>1 DEF l
          <5>2. CASE i >= 0
            <6>1. a = i + 1 /\ i >= l
              BY <2>1, <3>3, <5>1, <5>2 DEF Promise!FromEnd, l
            <6> QED  BY <2>1, <5>1, <5>2, <6>1 DEF From, To, l
          <5>3. CASE i < 0
            <6>1. a = (l + i) + 1 /\ l + i < 0
              BY <2>1, <3>3, <5>1, <5>3 DEF Promise!FromEnd, l
            <6> QED  BY <2>1, <5>1, <5>3, <6>1 DEF From, To, l
          <5> QED  BY <2>1, <5>2, <5>3
        <4>2. found = <<>>
          <5> DEFINE f == From(i, Len(s)) + 1
                     t == To(i, Len(s)) + 1
          <5>1. f \in Int /\ t \in Int /\ t < f /\ found = SubSeq(s, f, t)
            BY <3>1, <4>1 DEF Slice
          <5> HIDE DEF f, t, found
          <5> QED  BY <1>1, <5>1
        <4> HIDE DEF found, a
        <4> QED  BY <1>1, <3>3, <4>2 DEF Promise!Lookup
      <3> QED  BY <3>2, <3>3
    <2>3. UNCHANGED lists /\ reply' = Promise!BulkOrNull(IF found = <<>> THEN Nil ELSE found[1])
      BY <1>5, SameOperators DEF LIndex, s
    <2> HIDE DEF found
    <2> QED  BY <1>2, <1>5, <2>2, <2>3 DEF Promise!ListAnswer, ListsSeen
  <1> QED  BY <1>3, <1>4, <1>5

LEMMA ListsRefine ==
  ASSUME TypeInv, ListCommand, UNCHANGED <<strings, hashes, sets, zsets>>
  PROVE  Promise!Next
  <1>1. CASE Promise!ListWrite
    BY <1>1 DEF Promise!Next, Promise!Write
  <1>2. CASE UNCHANGED lists /\ \E k \in Keys : Promise!ListAnswer(k)
    BY <1>2, Answered
  <1> QED  BY <1>1, <1>2, LPushRefines, PopRefines, LSetRefines, LRemRefines, ListAnswers
           DEF ListCommand
----------------------------------------------------------------------------
(* The sorted set commands keep the promise *)

LEMMA ZSetWritten ==
  ASSUME TypeInv, NEW k \in Keys, NEW e, zsets' = [zsets EXCEPT ![k] = e],
         UNCHANGED <<strings, hashes, lists, sets>>, NEW mayHusk, e = Empty => mayHusk
  PROVE  Promise!SetZSet(k, OrNone(e, Empty), mayHusk)
  <1>1. ZSetsSeen' = [ZSetsSeen EXCEPT ![k] = OrNone(e, Empty)]
    BY DEF TypeInv, ZSetsOK, ZSetsSeen, Seen, OrNone
  <1>2. UNCHANGED <<strings, HashesSeen, ListsSeen, SetsSeen>>
    BY UnchangedMaps
  <1> DEFINE Z == {x \in Keys : zsets[x] = Empty}
             R == {<<"list", q>> : q \in {x \in Keys : lists[x] = Empty}}
                    \cup {<<"set", q>> : q \in {x \in Keys : sets[x] = {}}}
  <1>3. Husks = R \cup {<<"zset", q>> : q \in Z} /\ <<"zset", k>> \notin R
    BY DEF Husks, HusksOf
  <1>4. CASE e # Empty
    <2>1. {x \in Keys : zsets'[x] = Empty} = Z \ {k}
      BY <1>4 DEF TypeInv, ZSetsOK
    <2>2. Husks' = R \cup {<<"zset", q>> : q \in Z \ {k}}
      BY <2>1 DEF Husks, HusksOf
    <2> HIDE DEF Z, R
    <2>3. Husks' = Husks \ {<<"zset", k>>}
      BY <1>3, <2>2
    <2> QED  BY <1>1, <1>2, <2>3
         DEF Promise!SetZSet, HashesSeen, ListsSeen, SetsSeen, ZSetsSeen, Husks
  <1>5. CASE e = Empty
    <2>1. {x \in Keys : zsets'[x] = Empty} = Z \cup {k}
      BY <1>5 DEF TypeInv, ZSetsOK
    <2>2. Husks' = R \cup {<<"zset", q>> : q \in Z \cup {k}}
      BY <2>1 DEF Husks, HusksOf
    <2> HIDE DEF Z, R
    <2>3. Husks' = Husks \cup {<<"zset", k>>}
      BY <1>3, <2>2
    <2>4. DOMAIN OrNone(e, Empty) = {}
      BY <1>5, EmptyDomain DEF OrNone
    <2> QED  BY <1>1, <1>2, <1>5, <2>3, <2>4
         DEF Promise!SetZSet, HashesSeen, ListsSeen, SetsSeen, ZSetsSeen, Husks
  <1> QED  BY <1>4, <1>5

LEMMA ZSetKept ==
  ASSUME TypeInv, NEW k \in Keys, UNCHANGED <<strings, hashes, lists, sets, zsets>>,
         NEW mayHusk
  PROVE  Promise!SetZSet(k, ZSet(k), mayHusk)
  <1>1. ZSetsSeen' = [ZSetsSeen EXCEPT ![k] = ZSet(k)]
    <2>1. ZSetsSeen' = ZSetsSeen /\ ZSetsSeen[k] = ZSet(k) /\ DOMAIN ZSetsSeen = Keys
      BY UnchangedMaps, SeenIsFound
    <2>2. ZSetsSeen = [x \in Keys |-> ZSetsSeen[x]]
      BY DEF ZSetsSeen, Seen
    <2> QED  BY <2>1, <2>2
  <1>2. UNCHANGED <<strings, HashesSeen, ListsSeen, SetsSeen, Husks>>
    BY UnchangedMaps
  <1>3. <<"zset", k>> \in Husks => DOMAIN ZSet(k) = {}
    BY HusksAre, NoEntryIsNotEmpty, EmptyDomain DEF ZSet
  <1>4. \/ Husks' = Husks \ {<<"zset", k>>}
        \/ DOMAIN ZSet(k) = {} /\ <<"zset", k>> \in Husks /\ Husks' = Husks \cup {<<"zset", k>>}
    BY <1>2, <1>3
  <1> QED  BY <1>1, <1>2, <1>4
       DEF Promise!SetZSet, HashesSeen, ListsSeen, SetsSeen, ZSetsSeen, Husks

LEMMA ZSetValues ==
  ASSUME TypeInv, NEW k \in Keys
  PROVE  /\ \A m \in DOMAIN ZSet(k) : m \in Values /\ ZSet(k)[m] \in Numbers /\ ZSet(k)[m] # Nil
         /\ IsFiniteSet(DOMAIN ZSet(k))
         /\ NaN \notin Int
  <1>1. PICK F \in SUBSET Values : ZSet(k) \in [F -> Numbers]
    BY Found DEF IsMap
  <1>2. Nil \notin Numbers /\ NaN \notin Int
    BY SortedSetsAssumption, CollectionsAssumption DEF Numbers
  <1> QED  BY <1>1, <1>2, Found

(* zsetAdd lays the pairs over the sorted set, and makes a husk of one     *)
(* that gets none.                                                         *)
LEMMA ZSetAdded ==
  ASSUME TypeInv, NEW k \in Keys, NEW ps \in Seq(Values \X Numbers), NEW S,
         \A i \in DOMAIN ps : ps[i][2] \in S,
         ZSetAdd(k, ps), UNCHANGED <<strings, hashes, lists, sets>>,
         NEW mayHusk, ps = <<>> => mayHusk
  PROVE  \E z \in Promise!Overlays(ZSet(k), ps, Promise!AnyScore(k) \cup S) :
           Promise!SetZSet(k, z, mayHusk)
  <1> DEFINE z == PutAll(ZSet(k), ps)
             T == S \cap Numbers
  <1>1. z # NoEntry
    <2>1. IsMap(z, Numbers)
      BY Found, PutAllIsMap
    <2> QED  BY <2>1, MapsAreEntries
  <1>2. z = Empty => mayHusk
    <2>1. ps # <<>> => DOMAIN ps # {}
      OBVIOUS
    <2> QED  BY <2>1, PutAllIsNotEmpty
  <1>3. z \in Promise!Overlays(ZSet(k), ps, Promise!AnyScore(k) \cup S)
    <2>1. Promise!AnyScore(k) = {ZSet(k)[m] : m \in DOMAIN ZSet(k)}
      BY SeenIsFound DEF Promise!AnyScore, ZSetsSeen
    <2>2. ps \in Seq(Values \X T)
      <3>1. DOMAIN ps = 1 .. Len(ps) /\ Len(ps) \in Nat
            /\ \A i \in DOMAIN ps : ps[i] \in Values \X Numbers
        OBVIOUS
      <3>2. \A i \in 1 .. Len(ps) : ps[i] \in Values \X T
        BY <3>1
      <3> HIDE DEF T
      <3> QED  BY <3>1, <3>2
    <2>3. T \subseteq Promise!AnyScore(k) \cup S
      OBVIOUS
    <2>4. \A m \in DOMAIN ZSet(k) : ZSet(k)[m] \in Promise!AnyScore(k) \cup S
      BY <2>1
    <2> HIDE DEF T
    <2> QED  BY <2>2, <2>3, <2>4, PutAllOverlays
  <1> HIDE DEF z
  <1>4. Promise!SetZSet(k, OrNone(z, Empty), mayHusk)
    BY <1>2, ZSetWritten DEF ZSetAdd, z
  <1> QED  BY <1>1, <1>3, <1>4 DEF OrNone

LEMMA ZAddRefines ==
  ASSUME TypeInv, NEW k \in Keys, NEW ps \in ListsOf(Values \X Scores) \cup {<<>>},
         UNCHANGED <<strings, hashes, lists, sets>>,
         request' = <<"ZADD", k, ps>>, ZAdd(k, ps)
  PROVE  Promise!ZSetWrite
  <1>1. ps \in Seq(Values \X Scores)
    <2>1. CASE ps \in ListsOf(Values \X Scores)
      BY <2>1, ListsAreSequences
    <2>2. CASE ps = <<>>
      BY <2>2
    <2> QED  BY <2>1, <2>2
  <1>2. ps \in Seq(Values \X Numbers) /\ \A i \in DOMAIN ps : ps[i][2] \in Scores
    <2>1. Values \X Scores \subseteq Values \X Numbers
      BY SortedSetsAssumption DEF Numbers
    <2>2. \A i \in DOMAIN ps : ps[i] \in Values \X Scores
      BY <1>1
    <2> QED  BY <1>1, <2>1, <2>2
  <1>3. ZSet(k) = ZSetsSeen[k]
    BY SeenIsFound
  <1>4. CASE \E i \in DOMAIN ps : ps[i][2] = NaN
    <2>1. reply' = Promise!Error /\ UNCHANGED zsets
      BY <1>4, SameOperators DEF ZAdd
    <2>2. Promise!SetZSet(k, ZSet(k), FALSE)
      BY <2>1, ZSetKept
    <2> QED  BY <1>3, <1>4, <2>1, <2>2, SameOperators DEF Promise!ZSetWrite, ZSetsSeen
  <1>5. CASE ~ \E i \in DOMAIN ps : ps[i][2] = NaN
    <2>1. ZSetAdd(k, ps) /\ reply' = Integer(Added(Names(ps), DOMAIN ZSet(k)))
      BY <1>5 DEF ZAdd
    <2>2. \E z \in Promise!Overlays(ZSet(k), ps, Promise!AnyScore(k) \cup Scores) :
            Promise!SetZSet(k, z, TRUE)
      BY <1>2, <2>1, ZSetAdded
    <2>3. Names(ps) \in Seq(Values)
      BY <1>1, NamesAreSequences
    <2>4. reply' = Promise!Integer(Promise!Cardinality(Promise!Names(ps) \ DOMAIN ZSet(k)))
      <3>1. Added(Names(ps), DOMAIN ZSet(k)) = Cardinality(Elements(Names(ps)) \ DOMAIN ZSet(k))
        BY <2>3, AddedCounts
      <3> QED  BY <2>1, <3>1, SameOperators
    <2> QED  BY <1>3, <1>5, <2>2, <2>4, SameOperators DEF Promise!ZSetWrite, ZSetsSeen
  <1> QED  BY <1>4, <1>5

LEMMA ZAddIncrRefines ==
  ASSUME TypeInv, NEW k \in Keys, NEW m \in Values, NEW s \in Scores,
         NEW nx \in BOOLEAN, NEW xx \in BOOLEAN,
         UNCHANGED <<strings, hashes, lists, sets>>,
         request' = <<"ZADD_INCR", k, m, s, nx, xx>>, ZAddIncr(k, m, s, nx, xx)
  PROVE  Promise!ZSetWrite
  <1> DEFINE there == m \in DOMAIN ZSet(k)
             refused == IF there THEN nx ELSE xx
             old == IF there THEN ZSet(k)[m] ELSE 0
             new == IF NaN \in {old, s} THEN NaN ELSE old + s
             ps == <<<<m, new>>>>
  <1>1. ZSet(k) = ZSetsSeen[k]
    BY SeenIsFound
  <1>2. (ZSetScore(k, m) = Nil <=> ~ there) /\ (there => ZSetScore(k, m) = ZSet(k)[m])
    BY ZSetValues DEF ZSetScore
  <1>3. s \in Numbers /\ NaN \notin Int
    BY SortedSetsAssumption, CollectionsAssumption DEF Numbers
  <1>4. old \in Numbers /\ new \in Numbers
    <2>1. old \in Numbers
      <3>1. 0 \in Numbers
        BY DEF Numbers
      <3>2. there => ZSet(k)[m] \in Numbers
        BY ZSetValues
      <3> QED  BY <3>1, <3>2
    <2> HIDE DEF old
    <2>2. CASE NaN \in {old, s}
      BY <2>1, <2>2 DEF Numbers
    <2>3. CASE NaN \notin {old, s}
      <3>1. old \in Int /\ s \in Int /\ new = old + s
        BY <1>3, <2>1, <2>3 DEF Numbers
      <3> HIDE DEF new
      <3> QED  BY <2>1, <3>1 DEF Numbers
    <2> QED  BY <2>1, <2>2, <2>3
  <1>5. new = IF ZSetScore(k, m) = Nil THEN s ELSE Plus(ZSetScore(k, m), s)
    <2>1. CASE there
      BY <1>2, <2>1 DEF Plus
    <2>2. CASE ~ there
      <3>1. old = 0
        BY <2>2
      <3> HIDE DEF old, there
      <3>2. new = s
        <4>1. CASE s = NaN
          BY <4>1
        <4>2. CASE s # NaN
          <5>1. s \in Int /\ 0 # NaN
            BY <1>3, <4>2 DEF Numbers
          <5>2. NaN \notin {old, s}
            BY <3>1, <4>2, <5>1
          <5> QED  BY <3>1, <5>1, <5>2
        <4> QED  BY <4>1, <4>2
      <3> QED  BY <1>2, <2>2, <3>2
    <2> QED  BY <2>1, <2>2
  <1>6. refused <=> (nx /\ ZSetScore(k, m) # Nil) \/ (xx /\ ZSetScore(k, m) = Nil)
    BY <1>2
  <1> HIDE DEF new
  <1>7. CASE refused
    <2>1. reply' = Promise!NullReply /\ UNCHANGED zsets
      BY <1>6, <1>7, SameOperators DEF ZAddIncr
    <2>2. Promise!SetZSet(k, ZSet(k), FALSE)
      BY <2>1, ZSetKept
    <2> QED  BY <1>1, <1>7, <2>1, <2>2, SameOperators DEF Promise!ZSetWrite, ZSetsSeen
  <1>8. CASE ~ refused
    <2>1. ZSetAdd(k, ps) /\ reply' = Bulk(new)
      BY <1>5, <1>6, <1>8 DEF ZAddIncr
    <2>2. ps \in Seq(Values \X Numbers) /\ ps # <<>> /\ \A i \in DOMAIN ps : ps[i][2] \in {new}
      <3>1. <<m, new>> \in Values \X Numbers
        BY <1>4
      <3>2. DOMAIN ps = {1} /\ ps[1] = <<m, new>>
        OBVIOUS
      <3>3. ps \in Seq(Values \X Numbers) /\ ps # <<>>
        BY <3>1
      <3> HIDE DEF ps
      <3> QED  BY <3>2, <3>3
    <2> HIDE DEF ps
    <2>3. \E z \in Promise!Overlays(ZSet(k), ps, Promise!AnyScore(k) \cup {new}) :
            Promise!SetZSet(k, z, FALSE)
      BY <2>1, <2>2, ZSetAdded
    <2>4. reply' = Promise!Bulk(new)
      BY <2>1, SameOperators
    <2> QED  BY <1>1, <1>8, <2>3, <2>4 DEF Promise!ZSetWrite, ZSetsSeen, ps, new
  <1> QED  BY <1>7, <1>8

LEMMA ZRemRefines ==
  ASSUME TypeInv, NEW k \in Keys, NEW ms \in ListsOf(Values),
         UNCHANGED <<strings, hashes, lists, sets>>,
         request' = <<"ZREM", k, ms>>, ZRem(k, ms)
  PROVE  Promise!ZSetWrite
  <1> DEFINE left == Without(ZSet(k), ms)
             e == IF DOMAIN ZSet(k) \subseteq Elements(ms) THEN NoEntry ELSE left
  <1>1. left # NoEntry
    <2>1. IsMap(left, Numbers)
      BY Found, WithoutIsMap
    <2> QED  BY <2>1, MapsAreEntries
  <1>2. e # Empty
    <2>1. DOMAIN left = DOMAIN ZSet(k) \ Elements(ms)
      BY DEF Without
    <2>2. ~ (DOMAIN ZSet(k) \subseteq Elements(ms)) => DOMAIN left # {}
      BY <2>1
    <2> HIDE DEF left
    <2> QED  BY <2>2, EmptyDomain, NoEntryIsNotEmpty
  <1>3. Promise!SetZSet(k, OrNone(e, Empty), FALSE)
    <2>1. zsets' = [zsets EXCEPT ![k] = e]
      BY DEF ZRem
    <2> HIDE DEF e
    <2> QED  BY <1>2, <2>1, ZSetWritten
  <1>4. OrNone(e, Empty) = left
    <2>1. DOMAIN ZSet(k) \subseteq Elements(ms) => left = Empty
      BY DEF Without, Empty
    <2> QED  BY <1>1, <2>1 DEF OrNone
  <1>5. left = Promise!Restricted(ZSet(k), DOMAIN ZSet(k) \ Elements(ms))
    BY DEF Without, Promise!Restricted
  <1>6. reply' = Integer(Cardinality(DOMAIN ZSet(k) \cap Elements(ms)))
    <2>1. ms \in Seq(Values)
      BY ListsAreSequences
    <2> QED  BY <2>1, AddedCounts DEF ZRem
  <1> HIDE DEF left, e
  <1>7. /\ ms \in Promise!ListsOf(Values)
        /\ reply' = Promise!Integer(Promise!Cardinality(DOMAIN ZSet(k) \cap Promise!Elements(ms)))
        /\ Promise!SetZSet(k, Promise!Restricted(ZSet(k), DOMAIN ZSet(k) \ Promise!Elements(ms)), FALSE)
    BY <1>3, <1>4, <1>5, <1>6, SameOperators
  <1>8. ZSet(k) = ZSetsSeen[k]
    BY SeenIsFound
  <1> QED  BY <1>7, <1>8 DEF Promise!ZSetWrite, ZSetsSeen

(* An ordering of a set lists all of it.                                   *)
LEMMA OrderingsListAll ==
  ASSUME NEW M, IsFiniteSet(M), NEW s \in SetToSeqs(M)
  PROVE  /\ s \in Seq(M) /\ Len(s) = Cardinality(M) /\ Len(s) \in Nat
         /\ s \in [1 .. Cardinality(M) -> M] /\ DOMAIN s = 1 .. Len(s)
         /\ \A a, b \in 1 .. Len(s) : a # b => s[a] # s[b]
         /\ \A m \in M : \E i \in 1 .. Len(s) : s[i] = m
         /\ Elements(s) = M
  <1> DEFINE n == Cardinality(M)
  <1>1. n \in Nat
    BY FS_CardinalityType
  <1>2. s \in [1 .. n -> M] /\ \A a, b \in 1 .. n : a # b => s[a] # s[b]
    BY DEF SetToSeqs
  <1> HIDE DEF n
  <1>3. s \in Seq(M) /\ Len(s) = n /\ DOMAIN s = 1 .. n
    BY <1>1, <1>2
  <1>4. UpTo(s, n) \subseteq M /\ Elements(s) = UpTo(s, n)
    BY <1>2, <1>3 DEF UpTo, Elements
  <1>5. Cardinality(UpTo(s, n)) = n
    <2>1. n \in 0 .. Len(s)
      BY <1>1, <1>3
    <2> QED  BY <1>2, <1>3, <2>1, DistinctCount
  <1>6. UpTo(s, n) = M
    <2> DEFINE U == UpTo(s, n)
    <2> HIDE DEF U
    <2>1. U \in SUBSET M /\ Cardinality(U) = Cardinality(M)
      BY <1>4, <1>5 DEF U, n
    <2>2. U = M
      BY <2>1, FS_Subset
    <2> QED  BY <2>2 DEF U
  <1>7. \A m \in M : \E i \in 1 .. n : s[i] = m
    BY <1>6 DEF UpTo
  <1> QED  BY <1>1, <1>2, <1>3, <1>4, <1>6, <1>7 DEF n

(* There is one order by score and name: each member is listed after as    *)
(* many others as come before it.                                          *)
LEMMA OrderIsUnique ==
  ASSUME TypeInv, NEW k \in Keys, NEW D, D \subseteq DOMAIN ZSet(k),
         \A m \in D : ZSet(k)[m] # NaN, NEW s \in Sorted(D, ZSet(k))
  PROVE  Promise!InOrder(ZSet(k), D) = s
  <1> DEFINE z == ZSet(k)
             n == Len(s)
             Lt(x, m) == z[x] < z[m] \/ (z[x] = z[m] /\ Before(x, m))
             Rank(m) == Promise!Rank(z, D, m)
  <1>1. IsFiniteSet(D)
    BY ZSetValues, FS_Subset
  <1>2. s \in SetToSeqs(D)
    BY DEF Sorted
  <1>3. /\ s \in Seq(D) /\ n = Cardinality(D) /\ n \in Nat
        /\ s \in [1 .. n -> D] /\ DOMAIN s = 1 .. n
        /\ \A a, b \in 1 .. n : a # b => s[a] # s[b]
        /\ \A m \in D : \E i \in 1 .. n : s[i] = m
    BY <1>1, <1>2, OrderingsListAll
  <1>4. \A m \in D : m \in Values /\ z[m] \in Int
    BY ZSetValues DEF Numbers
  <1>5. \A i, j \in 1 .. n : i < j => Lt(s[i], s[j])
    BY <1>3 DEF Sorted
  <1>6. \A x, m \in D : Lt(x, m) => ~ Lt(m, x)
    BY <1>4, SortedSetsAssumption
  <1>7. \A m \in D : Rank(m) = Cardinality({x \in D : Lt(x, m)})
    BY SameOperators DEF Promise!Rank
  <1> HIDE DEF Lt, n, z
  <1>8. ASSUME NEW i \in 1 .. n
        PROVE  Rank(s[i]) = i - 1
    <2>1. s[i] \in D
      BY <1>3
    <2>2. {x \in D : Lt(x, s[i])} = UpTo(s, i - 1)
      <3>1. 1 .. i - 1 = {j \in 1 .. n : j < i}
        BY <1>3
      <3>2. ASSUME NEW x \in D, Lt(x, s[i])
            PROVE  \E j \in 1 .. i - 1 : x = s[j]
        <4>1. PICK j \in 1 .. n : s[j] = x
          BY <1>3
        <4>2. ~ (i < j)
          BY <1>3, <1>5, <1>6, <2>1, <3>2, <4>1
        <4>3. i # j
          BY <1>6, <2>1, <3>2, <4>1
        <4>4. j < i
          BY <1>3, <4>2, <4>3
        <4> QED  BY <3>1, <4>1, <4>4
      <3>3. ASSUME NEW j \in 1 .. i - 1
            PROVE  s[j] \in D /\ Lt(s[j], s[i])
        <4>1. j \in 1 .. n /\ j < i
          BY <3>1
        <4> QED  BY <1>3, <1>5, <4>1
      <3> QED  BY <3>2, <3>3 DEF UpTo
    <2>3. Cardinality(UpTo(s, i - 1)) = i - 1
      <3>1. i - 1 \in 0 .. Len(s)
        BY <1>3 DEF n
      <3> QED  BY <1>3, <3>1, DistinctCount DEF n
    <2> QED  BY <1>7, <2>1, <2>2, <2>3
  <1>9. Promise!InOrder(z, D) = [p \in 1 .. n |-> CHOOSE m \in D : Rank(m) = p - 1]
    BY <1>3, SameOperators DEF Promise!InOrder
  <1> HIDE DEF Rank
  <1>10. ASSUME NEW p \in 1 .. n
         PROVE  (CHOOSE m \in D : Rank(m) = p - 1) = s[p]
    <2>1. \A m \in D : Rank(m) = p - 1 => m = s[p]
      <3>1. ASSUME NEW m \in D, Rank(m) = p - 1
            PROVE  m = s[p]
        <4>1. PICK i \in 1 .. n : s[i] = m
          BY <1>3
        <4>2. i - 1 = p - 1
          BY <1>8, <3>1, <4>1
        <4>3. i = p
          BY <1>3, <4>2
        <4> QED  BY <4>1, <4>3
      <3> QED  BY <3>1
    <2>2. s[p] \in D /\ Rank(s[p]) = p - 1
      BY <1>3, <1>8
    <2> QED  BY <2>1, <2>2
  <1>11. s = [p \in 1 .. n |-> s[p]]
    BY <1>3
  <1> QED  BY <1>9, <1>10, <1>11 DEF z

LEMMA SortedListings ==
  ASSUME TypeInv, NEW k \in Keys, NEW s \in Sorted(DOMAIN ZSet(k), ZSet(k))
  PROVE  s \in Promise!Listings(ZSet(k), DOMAIN ZSet(k)) /\ s \in Seq(DOMAIN ZSet(k))
  <1> DEFINE z == ZSet(k)
             D == DOMAIN z
  <1>1. IsFiniteSet(D) /\ s \in SetToSeqs(D)
    BY ZSetValues DEF Sorted
  <1>2. s \in Seq(D) /\ s \in [1 .. Cardinality(D) -> D] /\ Elements(s) = D
    <2> HIDE DEF D
    <2> QED  BY <1>1, OrderingsListAll
  <1>3. CASE \E m \in D : z[m] = NaN
    <2>1. Promise!Listings(z, D) = {t \in [1 .. Cardinality(D) -> D] : Promise!Elements(t) = D}
      BY <1>3, SameOperators DEF Promise!Listings
    <2>2. Promise!Elements(s) = D
      BY <1>2, SameOperators
    <2> HIDE DEF D, z
    <2> QED  BY <1>2, <2>1, <2>2 DEF D, z
  <1>4. CASE ~ \E m \in D : z[m] = NaN
    <2>1. Promise!InOrder(z, D) = s
      BY <1>4, OrderIsUnique
    <2>2. Promise!Listings(z, D) = {Promise!InOrder(z, D)}
      BY <1>4 DEF Promise!Listings
    <2> QED  BY <1>2, <2>1, <2>2
  <1> QED  BY <1>3, <1>4

LEMMA ShownIs ==
  ASSUME NEW s, NEW z, NEW w
  PROVE  WithScores(s, z, w) = Promise!Shown(s, z, w)
  BY SameOperators DEF WithScores, Promise!Shown

(* A score that a comparison finds within the bounds is within them.       *)
LEMMA BoundsAre ==
  ASSUME NEW score \in Numbers, NEW b \in Bounds
  PROVE  /\ LessEq(LowerBound(b), score)
              <=> score # NaN /\ b.at # NaN /\ score >= b.at + (IF b.open THEN Epsilon ELSE 0)
         /\ LessEq(score, UpperBound(b))
              <=> score # NaN /\ b.at # NaN /\ score <= b.at - (IF b.open THEN Epsilon ELSE 0)
  <1>1. /\ b \in [inf : BOOLEAN, open : BOOLEAN, at : Int \cup {NaN}]
        /\ NaN \notin Int /\ Epsilon \in Int
    BY SortedSetsAssumption, CollectionsAssumption
  <1> DEFINE at == b.at
             open == b.open
  <1>2. at \in Int \cup {NaN} /\ open \in BOOLEAN
    BY <1>1
  <1>3. /\ LowerBound(b) = IF open THEN Plus(at, Epsilon) ELSE at
        /\ UpperBound(b) = IF open THEN Plus(at, -Epsilon) ELSE at
    BY DEF LowerBound, UpperBound
  <1> HIDE DEF at, open
  <1>4. -Epsilon \in Int /\ NaN # Epsilon /\ NaN # -Epsilon
    BY <1>1
  <1>5. CASE at = NaN
    <2>1. LowerBound(b) = NaN /\ UpperBound(b) = NaN
      BY <1>3, <1>5 DEF Plus
    <2> QED  BY <1>5, <2>1 DEF LessEq, at
  <1>6. CASE at # NaN
    <2>1. at \in Int
      BY <1>2, <1>6
    <2>2. /\ LowerBound(b) = at + (IF open THEN Epsilon ELSE 0)
          /\ UpperBound(b) = at - (IF open THEN Epsilon ELSE 0)
          /\ LowerBound(b) \in Int /\ UpperBound(b) \in Int
      <3>1. CASE open
        BY <1>1, <1>3, <1>4, <1>6, <2>1, <3>1 DEF Plus
      <3>2. CASE ~ open
        BY <1>3, <2>1, <3>2
      <3> QED  BY <3>1, <3>2
    <2>3. CASE score = NaN
      BY <2>3 DEF LessEq
    <2>4. CASE score # NaN
      <3>1. score \in Int
        BY <2>4 DEF Numbers
      <3> DEFINE d == IF open THEN Epsilon ELSE 0
      <3>2. d \in Int
        BY <1>1
      <3> HIDE DEF d
      <3>3. LowerBound(b) # NaN /\ UpperBound(b) # NaN
        BY <1>1, <2>2
      <3>4. LessEq(LowerBound(b), score) <=> score >= at + d
        BY <2>1, <2>2, <2>4, <3>1, <3>2, <3>3 DEF LessEq, d
      <3>5. LessEq(score, UpperBound(b)) <=> score <= at - d
        BY <2>1, <2>2, <2>4, <3>1, <3>2, <3>3 DEF LessEq, d
      <3> QED  BY <1>6, <2>4, <3>4, <3>5 DEF at, open, d
    <2> QED  BY <2>3, <2>4
  <1> QED  BY <1>5, <1>6

LEMMA WithinIs ==
  ASSUME TypeInv, NEW k \in Keys, NEW min \in Bounds, NEW max \in Bounds
  PROVE  /\ {m \in DOMAIN ZSet(k) : Counted(ZSet(k)[m], min, max)} = Promise!Within(ZSet(k), min, max)
         /\ Between(k, min, max) =
              IF min.inf /\ max.inf THEN {} ELSE Promise!Within(ZSet(k), min, max)
         /\ \A m \in Between(k, min, max) : ZSet(k)[m] # NaN
  <1> DEFINE z == ZSet(k)
             D == DOMAIN z
             below(x) == LessEq(x, UpperBound(max))
             above(x) == LessEq(LowerBound(min), x)
             W(x) == /\ x # NaN /\ (min.inf \/ above(x))
                     /\ x # NaN /\ (max.inf \/ below(x))
  <1>1. \A m \in D : z[m] \in Numbers
    BY ZSetValues
  <1>2. min.inf \in BOOLEAN /\ max.inf \in BOOLEAN
    BY SortedSetsAssumption
  <1>3. \A x : (below(x) => x # NaN) /\ (above(x) => x # NaN)
    BY DEF LessEq
  <1>4. \A m \in D : Promise!Above(z[m], min) /\ Promise!Below(z[m], max) <=> W(z[m])
    <2>1. ASSUME NEW x \in Numbers
          PROVE  Promise!Above(x, min) /\ Promise!Below(x, max) <=> W(x)
      BY BoundsAre DEF Promise!Above, Promise!Below
    <2> HIDE DEF z, D, W
    <2> QED  BY <1>1, <2>1
  <1>5. Promise!Within(z, min, max) = {m \in D : W(z[m])}
    <2>1. Promise!Within(z, min, max) = {m \in D : Promise!Above(z[m], min) /\ Promise!Below(z[m], max)}
      BY DEF Promise!Within
    <2> HIDE DEF z, D, W
    <2> QED  BY <1>4, <2>1
  <1> HIDE DEF z, D, below, above
  <1>6. \A x : Counted(x, min, max) <=> W(x)
    BY <1>2, <1>3 DEF Counted, below, above
  <1>7. \A x : InRange(x, min, max) <=> ~ (min.inf /\ max.inf) /\ W(x)
    <2>1. CASE min.inf
      BY <1>2, <1>3, <2>1 DEF InRange, below
    <2>2. CASE ~ min.inf /\ max.inf
      BY <1>2, <1>3, <2>2 DEF InRange, above
    <2>3. CASE ~ min.inf /\ ~ max.inf
      BY <1>2, <1>3, <2>3 DEF InRange, below, above
    <2> QED  BY <1>2, <2>1, <2>2, <2>3
  <1>8. Between(k, min, max) = {m \in D : ~ (min.inf /\ max.inf) /\ W(z[m])}
    BY <1>7 DEF Between, z, D
  <1>9. \A m \in Between(k, min, max) : z[m] # NaN
    BY <1>8
  <1>10. {m \in D : Counted(z[m], min, max)} = {m \in D : W(z[m])}
    BY <1>6
  <1> HIDE DEF W
  <1>11. Between(k, min, max) = IF min.inf /\ max.inf THEN {} ELSE {m \in D : W(z[m])}
    BY <1>8
  <1> QED  BY <1>5, <1>9, <1>10, <1>11 DEF z, D

(* LIMIT takes a page of a listing.                                        *)
LEMMA LimitedIs ==
  ASSUME NEW S, NEW s \in Seq(S), NEW l \in Limits
  PROVE  Limited(s, l) = Promise!Page(s, l[1], l[2])
  <1> DEFINE n == Len(s)
             off == l[1]
             count == l[2]
             skip == IF off > 0 THEN off ELSE 0
             skipped == IF off > 0 THEN SubSeq(s, off + 1, n) ELSE s
             P == {p \in 1 .. n : p > skip /\ (count > 0 => p <= skip + count)}
  <1>1. n \in Nat /\ off \in Int /\ count \in Int /\ DOMAIN s = 1 .. n
    BY SortedSetsAssumption
  <1>2. Promise!Page(s, off, count) = Promise!At(s, P)
    BY <1>1 DEF Promise!Page
  <1>3. Limited(s, l) = IF count > 0 /\ count < Len(skipped) THEN SubSeq(skipped, 1, count) ELSE skipped
    BY DEF Limited
  <1> HIDE DEF off, count, n
  <1>4. skip \in Nat
    BY <1>1
  <1>5. skipped = SubSeq(s, skip + 1, n)
    BY <1>1 DEF n
  <1> HIDE DEF skip, skipped, P
  <1>6. CASE skip >= n
    <2>1. P = {}
      <3>1. \A p \in 1 .. n : ~ (p > skip)
        BY <1>1, <1>4, <1>6
      <3> QED  BY <3>1 DEF P
    <2>2. skipped = <<>>
      BY <1>1, <1>4, <1>5, <1>6 DEF n
    <2>3. Limited(s, l) = <<>>
      BY <1>1, <1>3, <2>2
    <2> QED  BY <1>2, <2>1, <2>3, AtNothing DEF off, count
  <1>7. CASE skip < n
    <2>1. Len(skipped) = n - skip /\ skipped \in Seq(S) /\ n - skip \in Nat
          /\ \A i \in 1 .. n - skip : skipped[i] = s[skip + i]
      <3>1. n - skip \in Nat /\ (n - (skip + 1)) + 1 = n - skip
            /\ \A i \in 1 .. n - skip : ((skip + 1) + i) - 1 = skip + i /\ skip + i \in 1 .. n
        BY <1>1, <1>4, <1>7
      <3>2. SubSeq(s, skip + 1, n) = [i \in 1 .. (n - (skip + 1)) + 1 |-> s[((skip + 1) + i) - 1]]
        BY <1>1, <1>4
      <3>3. skipped = [i \in 1 .. n - skip |-> s[skip + i]]
        BY <1>5, <3>1, <3>2
      <3>4. \A i \in 1 .. n - skip : s[skip + i] \in S
        BY <1>1, <3>1 DEF n
      <3>5. skipped \in [1 .. n - skip -> S]
        BY <3>3, <3>4
      <3>6. skipped \in Seq(S)
        BY <3>1, <3>5
      <3> QED  BY <3>1, <3>3, <3>6
    <2>2. CASE count > 0 /\ count < n - skip
      <3> DEFINE b == skip + count
      <3>1. b \in Nat /\ b <= n /\ skip + 1 <= b + 1 /\ skip + 1 \in Nat /\ 1 <= skip + 1
        BY <1>1, <1>4, <2>2
      <3>2. P = skip + 1 .. b
        <4>1. skip + 1 .. b = {p \in 1 .. n : p > skip /\ p <= b}
          BY <1>1, <1>4, <3>1
        <4> QED  BY <2>2, <4>1 DEF P
      <3> HIDE DEF b
      <3>3. Promise!At(s, skip + 1 .. b) = SubSeq(s, skip + 1, b)
        BY <3>1, AtInterval DEF n
      <3>4. SubSeq(skipped, 1, count) = SubSeq(s, skip + 1, b)
        <4>1. SubSeq(skipped, 1, count) = [i \in 1 .. count |-> skipped[i]]
          BY <1>1, <2>1, <2>2
        <4>2. SubSeq(s, skip + 1, b) = [i \in 1 .. (b - (skip + 1)) + 1 |-> s[((skip + 1) + i) - 1]]
          BY <1>1, <1>4, <3>1
        <4>3. (b - (skip + 1)) + 1 = count /\ \A i \in 1 .. count : ((skip + 1) + i) - 1 = skip + i
          BY <1>1, <1>4 DEF b
        <4>4. \A i \in 1 .. count : i \in 1 .. n - skip
          BY <1>1, <1>4, <2>2
        <4>5. \A i \in 1 .. count : skipped[i] = s[((skip + 1) + i) - 1]
          BY <2>1, <4>3, <4>4
        <4> QED  BY <4>1, <4>2, <4>3, <4>5
      <3> QED  BY <1>2, <1>3, <2>1, <2>2, <3>2, <3>3, <3>4 DEF off, count
    <2>3. CASE ~ (count > 0 /\ count < n - skip)
      <3>1. skip + 1 \in Nat /\ 1 <= skip + 1 /\ n <= n /\ skip + 1 <= n + 1
        BY <1>1, <1>4, <1>7
      <3>2. P = skip + 1 .. n
        <4>1. skip + 1 .. n = {p \in 1 .. n : p > skip}
          BY <1>1, <1>4
        <4>2. \A p \in 1 .. n : count > 0 => p <= skip + count
          BY <1>1, <1>4, <2>3
        <4> QED  BY <4>1, <4>2 DEF P
      <3>3. Promise!At(s, skip + 1 .. n) = SubSeq(s, skip + 1, n)
        BY <1>1, <3>1, AtInterval DEF n
      <3> QED  BY <1>2, <1>3, <1>5, <2>1, <2>3, <3>2, <3>3 DEF off, count
    <2> QED  BY <2>2, <2>3
  <1> QED  BY <1>1, <1>4, <1>6, <1>7

LEMMA ZRangeAnswers ==
  ASSUME TypeInv, NEW k \in Keys, NEW i \in Indexes, NEW j \in Indexes, NEW w \in BOOLEAN,
         request' = <<"ZRANGE", k, i, j, w>>, ZRange(k, i, j, w)
  PROVE  UNCHANGED zsets /\ Promise!ZSetAnswer(k)
  <1> DEFINE z == ZSet(k)
             D == DOMAIN z
  <1>1. i \in Int /\ j \in Int
    BY CollectionsAssumption
  <1>2. PICK s \in Sorted(D, z) : reply' = WithScores(Slice(s, i, j), z, w)
    BY DEF ZRange
  <1>3. UNCHANGED zsets
    BY DEF ZRange
  <1>4. s \in Promise!Listings(z, D) /\ s \in Seq(D)
    BY SortedListings
  <1>5. z = ZSetsSeen[k]
    BY SeenIsFound
  <1> HIDE DEF z, D
  <1>6. Slice(s, i, j) = Promise!At(s, Promise!Positions(Len(s), i, j))
    BY <1>1, <1>4, SliceIs
  <1>7. reply' = Promise!Shown(Promise!At(s, Promise!Positions(Len(s), i, j)), z, w)
    BY <1>2, <1>6, ShownIs
  <1> QED  BY <1>3, <1>4, <1>5, <1>7 DEF Promise!ZSetAnswer, ZSetsSeen, D

LEMMA ZRangeByScoreAnswers ==
  ASSUME TypeInv, NEW k \in Keys, NEW min \in Bounds, NEW max \in Bounds, NEW l \in Limits,
         NEW w \in BOOLEAN,
         request' = <<"ZRANGEBYSCORE", k, min, max, l, w>>, ZRangeByScore(k, min, max, l, w)
  PROVE  UNCHANGED zsets /\ Promise!ZSetAnswer(k)
  <1> DEFINE z == ZSet(k)
             D == Between(k, min, max)
             page == Promise!Page(Promise!InOrder(z, D), l[1], l[2])
  <1>1. PICK s \in Sorted(D, z) : reply' = WithScores(Limited(s, l), z, w)
    BY DEF ZRangeByScore
  <1>2. UNCHANGED zsets
    BY DEF ZRangeByScore
  <1>3. /\ D = IF min.inf /\ max.inf THEN {} ELSE Promise!Within(z, min, max)
        /\ \A m \in D : z[m] # NaN
    BY WithinIs
  <1>4. D \subseteq DOMAIN z
    BY DEF Between
  <1>5. Promise!InOrder(z, D) = s
    <2> HIDE DEF D
    <2> QED  BY <1>3, <1>4, OrderIsUnique
  <1>6. s \in Seq(D)
    <2>1. IsFiniteSet(D)
      BY <1>4, ZSetValues, FS_Subset
    <2> HIDE DEF D
    <2>2. s \in SetToSeqs(D)
      BY DEF Sorted
    <2> QED  BY <2>1, <2>2, OrderingsListAll
  <1>7. z = ZSetsSeen[k]
    BY SeenIsFound
  <1> HIDE DEF z, D
  <1>8. D \in IF min.inf /\ max.inf THEN SUBSET Promise!Within(z, min, max)
                                   ELSE {Promise!Within(z, min, max)}
    BY <1>3
  <1>9. reply' = Promise!Shown(page, z, w)
    <2>1. Limited(s, l) = page
      BY <1>5, <1>6, LimitedIs
    <2> HIDE DEF page
    <2> QED  BY <1>1, <2>1, ShownIs
  <1> QED  BY <1>2, <1>7, <1>8, <1>9 DEF Promise!ZSetAnswer, ZSetsSeen

LEMMA ZSetAnswers ==
  ASSUME TypeInv, NEW k \in Keys,
         \/ \E m \in Values : request' = <<"ZSCORE", k, m>> /\ ZScore(k, m)
         \/ request' = <<"ZCARD", k>> /\ ZCard(k)
         \/ \E min \in Bounds, max \in Bounds :
              request' = <<"ZCOUNT", k, min, max>> /\ ZCount(k, min, max)
  PROVE  UNCHANGED zsets /\ Promise!ZSetAnswer(k)
  <1>1. CASE \E m \in Values : request' = <<"ZSCORE", k, m>> /\ ZScore(k, m)
    <2>1. PICK m \in Values : request' = <<"ZSCORE", k, m>> /\ ZScore(k, m)
      BY <1>1
    <2>2. ZSetScore(k, m) = Promise!Lookup(ZSet(k), m)
      BY DEF ZSetScore, Promise!Lookup
    <2>3. UNCHANGED zsets /\ reply' = Promise!BulkOrNull(Promise!Lookup(ZSet(k), m))
      BY <2>1, <2>2, SameOperators DEF ZScore
    <2> QED  BY <2>1, <2>3, SeenIsFound DEF Promise!ZSetAnswer, ZSetsSeen
  <1>2. CASE request' = <<"ZCARD", k>> /\ ZCard(k)
    BY <1>2, SameOperators, SeenIsFound DEF ZCard, Promise!ZSetAnswer, ZSetsSeen
  <1>3. ASSUME NEW min \in Bounds, NEW max \in Bounds,
               request' = <<"ZCOUNT", k, min, max>>, ZCount(k, min, max)
        PROVE  UNCHANGED zsets /\ Promise!ZSetAnswer(k)
    <2>1. CountBetween(k, min, max) = Cardinality(Promise!Within(ZSet(k), min, max))
      BY WithinIs DEF CountBetween
    <2>2. UNCHANGED zsets
          /\ reply' = Promise!Integer(Promise!Cardinality(Promise!Within(ZSet(k), min, max)))
      BY <1>3, <2>1, SameOperators DEF ZCount
    <2> QED  BY <1>3, <2>2, SeenIsFound DEF Promise!ZSetAnswer, ZSetsSeen
  <1> QED  BY <1>1, <1>2, <1>3

LEMMA ZSetsRefine ==
  ASSUME TypeInv, ZSetCommand, UNCHANGED <<strings, hashes, lists, sets>>
  PROVE  Promise!Next
  <1>1. CASE Promise!ZSetWrite
    BY <1>1 DEF Promise!Next, Promise!Write
  <1>2. CASE UNCHANGED zsets /\ \E k \in Keys : Promise!ZSetAnswer(k)
    BY <1>2, Answered
  <1> QED  BY <1>1, <1>2, ZAddRefines, ZAddIncrRefines, ZRemRefines,
              ZRangeAnswers, ZRangeByScoreAnswers, ZSetAnswers DEF ZSetCommand
----------------------------------------------------------------------------
LEMMA InitRefines == Init => Promise!Init
  <1> SUFFICES ASSUME Init
               PROVE  Promise!Init
    OBVIOUS
  <1>1. Husks = {}
    BY NoEntryIsNotEmpty DEF Husks, HusksOf, Init
  <1>2. /\ HashesSeen = [k \in Keys |-> <<>>] /\ ListsSeen = [k \in Keys |-> <<>>]
        /\ SetsSeen = [k \in Keys |-> {}] /\ ZSetsSeen = [k \in Keys |-> <<>>]
    BY DEF Init, HashesSeen, ListsSeen, SetsSeen, ZSetsSeen, Seen, Empty
  <1> QED  BY <1>1, <1>2, SameOperators
           DEF Init, Promise!Init, HashesSeen, ListsSeen, SetsSeen, ZSetsSeen, Husks

LEMMA StepRefines ==
  TypeInv /\ Inv /\ [Next]_vars => [Promise!Next]_Promise!vars
  <1> SUFFICES ASSUME TypeInv, Inv, [Next]_vars
               PROVE  [Promise!Next]_Promise!vars
    OBVIOUS
  <1>1. HashesHold
    BY DEF Inv
  <1>2. CASE UNCHANGED vars
    <2>1. UNCHANGED <<strings, HashesSeen, ListsSeen, SetsSeen, ZSetsSeen, Husks, request, reply>>
      BY <1>2, UnchangedMaps DEF vars, stores
    <2> QED  BY <2>1 DEF Promise!vars, HashesSeen, ListsSeen, SetsSeen, ZSetsSeen, Husks
  <1>3. CASE HashCommand /\ UNCHANGED <<strings, lists, sets, zsets>>
    BY <1>3, HashRefines
  <1>4. CASE ListCommand /\ UNCHANGED <<strings, hashes, sets, zsets>>
    BY <1>4, ListsRefine
  <1>5. CASE SetCommand /\ UNCHANGED <<strings, hashes, lists, zsets>>
    BY <1>5, SetsRefine
  <1>6. CASE ZSetCommand /\ UNCHANGED <<strings, hashes, lists, sets>>
    BY <1>6, ZSetsRefine
  <1>7. CASE KeyspaceCommand
    BY <1>1, <1>7, KeyspaceRefines
  <1> QED  BY <1>2, <1>3, <1>4, <1>5, <1>6, <1>7 DEF Next

(* Whatever the commands are and in whatever order they come, each one     *)
(* answers, and changes the database, as over collections that exist       *)
(* without being created and are never discarded, but for the husks        *)
(* (commands/hash.js, list.js, set.js, zset.js; database.js, its maps and  *)
(* deleteKeys, keyType, keysByPattern, dbsize, randomKey).                 *)
THEOREM DatabaseKeepsContents == Spec => KeepsContents
  BY InitTyped, NextTyped, InitInv, NextInv, InitRefines, StepRefines, PTL
     DEF Spec, KeepsContents, Promise!Spec
=============================================================================
