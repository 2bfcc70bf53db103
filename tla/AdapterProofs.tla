---------------------------- MODULE AdapterProofs ----------------------------
(***************************************************************************)
(* Adapter implements AdapterContents: every method of the adapter on      *)
(* collections, keys and databases is a step of the abstract one, for any  *)
(* keys, values, databases and arguments, and with any number of calls of  *)
(* sInterStore under way.                                                  *)
(*                                                                         *)
(* Adapter and AdapterContents see the maps of Keyspace as Promise sees    *)
(* them, so that the lemmas of KeyspaceProofs apply to the methods that do *)
(* what a command does; the other methods are proved here.  The invariant  *)
(* is that of KeyspaceProofs, but that a set may be empty, for the current *)
(* database and for those on the shelf, and the types of what the calls of *)
(* sInterStore have left to do.                                            *)
(***************************************************************************)
EXTENDS Adapter, KeyspaceProofs

(* The promises of a command in both abstract specifications are the same. *)
LEMMA SameHashWrites == Promise!HashWrite <=> AdapterPromise!HashWrite
  BY DEF
     Promise!HashWrite, AdapterPromise!HashWrite, Promise!ListsOf, AdapterPromise!ListsOf,
     Promise!OK, AdapterPromise!OK, Promise!Simple, AdapterPromise!Simple,
     Promise!Integer, AdapterPromise!Integer, Promise!Cardinality, AdapterPromise!Cardinality,
     Promise!Names, AdapterPromise!Names, Promise!Overlays, AdapterPromise!Overlays,
     Promise!SetHash, AdapterPromise!SetHash, Promise!Bit, AdapterPromise!Bit,
     Promise!Elements, AdapterPromise!Elements, Promise!Restricted, AdapterPromise!Restricted

LEMMA SameListWrites == Promise!ListWrite <=> AdapterPromise!ListWrite
  BY DEF
     Promise!ListWrite, AdapterPromise!ListWrite, Promise!ListsOf, AdapterPromise!ListsOf,
     Promise!SetList, AdapterPromise!SetList, Promise!Backwards, AdapterPromise!Backwards,
     Promise!Integer, AdapterPromise!Integer, Promise!Popped, AdapterPromise!Popped,
     Promise!At, AdapterPromise!At, Promise!Cardinality, AdapterPromise!Cardinality,
     Promise!BulkOrNull, AdapterPromise!BulkOrNull, Promise!NullReply, AdapterPromise!NullReply,
     Promise!Bulk, AdapterPromise!Bulk, Promise!Lookup, AdapterPromise!Lookup,
     Promise!Array, AdapterPromise!Array, Promise!OK, AdapterPromise!OK,
     Promise!Simple, AdapterPromise!Simple, Promise!Error, AdapterPromise!Error,
     Promise!Taken, AdapterPromise!Taken, Promise!Holding, AdapterPromise!Holding

LEMMA SameSetWrites == Promise!SetWrite <=> AdapterPromise!SetWrite
  BY DEF
     Promise!SetWrite, AdapterPromise!SetWrite, Promise!ListsOf, AdapterPromise!ListsOf,
     Promise!Integer, AdapterPromise!Integer, Promise!Cardinality, AdapterPromise!Cardinality,
     Promise!Elements, AdapterPromise!Elements, Promise!SetSet, AdapterPromise!SetSet,
     Promise!Bulk, AdapterPromise!Bulk

LEMMA SameZSetWrites == Promise!ZSetWrite <=> AdapterPromise!ZSetWrite
  BY DEF
     Promise!ZSetWrite, AdapterPromise!ZSetWrite, Promise!ListsOf, AdapterPromise!ListsOf,
     Promise!Error, AdapterPromise!Error, Promise!SetZSet, AdapterPromise!SetZSet,
     Promise!Integer, AdapterPromise!Integer, Promise!Cardinality, AdapterPromise!Cardinality,
     Promise!Names, AdapterPromise!Names, Promise!Overlays, AdapterPromise!Overlays,
     Promise!AnyScore, AdapterPromise!AnyScore, Promise!NullReply, AdapterPromise!NullReply,
     Promise!Bulk, AdapterPromise!Bulk, Promise!Elements, AdapterPromise!Elements,
     Promise!Restricted, AdapterPromise!Restricted

LEMMA SameKeyspaceWrites == Promise!KeyspaceWrite <=> AdapterPromise!KeyspaceWrite
  BY DEF
     Promise!KeyspaceWrite, AdapterPromise!KeyspaceWrite, Promise!OK, AdapterPromise!OK,
     Promise!Simple, AdapterPromise!Simple, Promise!ListsOf, AdapterPromise!ListsOf,
     Promise!Integer, AdapterPromise!Integer, Promise!Cardinality, AdapterPromise!Cardinality,
     Promise!Elements, AdapterPromise!Elements, Promise!Present, AdapterPromise!Present,
     Promise!Types, AdapterPromise!Types, Promise!Forget, AdapterPromise!Forget

LEMMA SameHashAnswers ==
  ASSUME NEW k
  PROVE  Promise!HashAnswer(k) <=> AdapterPromise!HashAnswer(k)
  BY DEF
     Promise!HashAnswer, AdapterPromise!HashAnswer,
     Promise!BulkOrNull, AdapterPromise!BulkOrNull, Promise!NullReply, AdapterPromise!NullReply,
     Promise!Bulk, AdapterPromise!Bulk, Promise!Lookup, AdapterPromise!Lookup,
     Promise!Bit, AdapterPromise!Bit, Promise!Integer, AdapterPromise!Integer,
     Promise!ListsOf, AdapterPromise!ListsOf, Promise!Array, AdapterPromise!Array,
     Promise!Cardinality, AdapterPromise!Cardinality, Promise!Unordered, AdapterPromise!Unordered

LEMMA SameListAnswers ==
  ASSUME NEW k
  PROVE  Promise!ListAnswer(k) <=> AdapterPromise!ListAnswer(k)
  BY DEF
     Promise!ListAnswer, AdapterPromise!ListAnswer, Promise!Integer, AdapterPromise!Integer,
     Promise!Array, AdapterPromise!Array, Promise!At, AdapterPromise!At,
     Promise!Cardinality, AdapterPromise!Cardinality,
     Promise!Positions, AdapterPromise!Positions, Promise!FromEnd, AdapterPromise!FromEnd,
     Promise!BulkOrNull, AdapterPromise!BulkOrNull, Promise!NullReply, AdapterPromise!NullReply,
     Promise!Bulk, AdapterPromise!Bulk, Promise!Lookup, AdapterPromise!Lookup

LEMMA SameSetAnswers ==
  ASSUME NEW k
  PROVE  Promise!SetAnswer(k) <=> AdapterPromise!SetAnswer(k)
  BY DEF
     Promise!SetAnswer, AdapterPromise!SetAnswer, Promise!NullReply, AdapterPromise!NullReply,
     Promise!Bulk, AdapterPromise!Bulk, Promise!Bit, AdapterPromise!Bit,
     Promise!Integer, AdapterPromise!Integer, Promise!Unordered, AdapterPromise!Unordered,
     Promise!Cardinality, AdapterPromise!Cardinality

LEMMA SameZSetAnswers ==
  ASSUME NEW k
  PROVE  Promise!ZSetAnswer(k) <=> AdapterPromise!ZSetAnswer(k)
  BY DEF
     Promise!ZSetAnswer, AdapterPromise!ZSetAnswer,
     Promise!BulkOrNull, AdapterPromise!BulkOrNull, Promise!NullReply, AdapterPromise!NullReply,
     Promise!Bulk, AdapterPromise!Bulk, Promise!Lookup, AdapterPromise!Lookup,
     Promise!Integer, AdapterPromise!Integer, Promise!Cardinality, AdapterPromise!Cardinality,
     Promise!Listings, AdapterPromise!Listings, Promise!Elements, AdapterPromise!Elements,
     Promise!InOrder, AdapterPromise!InOrder, Promise!Rank, AdapterPromise!Rank,
     Promise!Shown, AdapterPromise!Shown, Promise!Array, AdapterPromise!Array,
     Promise!At, AdapterPromise!At, Promise!Positions, AdapterPromise!Positions,
     Promise!FromEnd, AdapterPromise!FromEnd, Promise!Within, AdapterPromise!Within,
     Promise!Above, AdapterPromise!Above, Promise!Below, AdapterPromise!Below,
     Promise!Page, AdapterPromise!Page

LEMMA SameKeyspaceAnswers == Promise!KeyspaceAnswer <=> AdapterPromise!KeyspaceAnswer
  BY DEF
     Promise!KeyspaceAnswer, AdapterPromise!KeyspaceAnswer,
     Promise!Simple, AdapterPromise!Simple, Promise!FirstType, AdapterPromise!FirstType,
     Promise!Types, AdapterPromise!Types, Promise!TypeOrder, AdapterPromise!TypeOrder,
     Promise!Unordered, AdapterPromise!Unordered, Promise!Present, AdapterPromise!Present,
     Promise!ListsOf, AdapterPromise!ListsOf, Promise!Integer, AdapterPromise!Integer,
     Promise!Cardinality, AdapterPromise!Cardinality,
     Promise!NullReply, AdapterPromise!NullReply, Promise!Bulk, AdapterPromise!Bulk

LEMMA CommandIsMethod ==
  ASSUME Promise!Next, UNCHANGED others
  PROVE  AdapterPromise!AdapterNext
  <1>1. AdapterPromise!Next
    <2>1. Promise!Write => AdapterPromise!Write
      BY SameHashWrites, SameListWrites, SameSetWrites, SameZSetWrites, SameKeyspaceWrites
         DEF Promise!Write, AdapterPromise!Write
    <2>2. Promise!Answer => AdapterPromise!Answer
      BY SameHashAnswers, SameListAnswers, SameSetAnswers, SameZSetAnswers, SameKeyspaceAnswers
         DEF Promise!Answer, AdapterPromise!Answer
    <2> QED  BY <2>1, <2>2 DEF Promise!Next, AdapterPromise!Next
  <1>2. UNCHANGED <<dbIndex, [i \in Dbs |-> Contained(shelf[i])], continuations>>
    BY DEF others
  <1> QED  BY <1>1, <1>2 DEF AdapterPromise!AdapterNext
----------------------------------------------------------------------------
(* So are the notions they are stated with, which are those of the code    *)
(* where they have the same name.                                          *)
LEMMA SameReplies ==
  /\ \A x : /\ AdapterPromise!Integer(x) = Integer(x) /\ AdapterPromise!Array(x) = Array(x)
            /\ AdapterPromise!Unordered(x) = Unordered(x)
  /\ AdapterPromise!NullReply = NullReply /\ AdapterPromise!Error = Error
  /\ AdapterPromise!OK = OK /\ \A b : AdapterPromise!Bit(b) = Integer(IF b THEN 1 ELSE 0)
  BY DEF AdapterPromise!Integer, Integer, AdapterPromise!Array, Array, AdapterPromise!Unordered,
     Unordered, AdapterPromise!NullReply, NullReply, AdapterPromise!Error, Error,
     AdapterPromise!OK, OK, AdapterPromise!Simple, Simple, AdapterPromise!Bit

LEMMA SameSequences ==
  /\ \A S : AdapterPromise!Cardinality(S) = Cardinality(S) /\ AdapterPromise!ListsOf(S) = ListsOf(S)
  /\ \A xs : AdapterPromise!Elements(xs) = Elements(xs)
  /\ \A ps : AdapterPromise!Names(ps) = Elements(Names(ps))
  /\ \A s, P : AdapterPromise!At(s, P) = Promise!At(s, P)
  /\ \A n, i, j : AdapterPromise!Positions(n, i, j) = Promise!Positions(n, i, j)
  /\ \A s, v : AdapterPromise!Holding(s, v) = Promise!Holding(s, v)
  <1>1. ASSUME NEW S
        PROVE  /\ AdapterPromise!Cardinality(S) = Cardinality(S)
               /\ AdapterPromise!ListsOf(S) = ListsOf(S)
               /\ AdapterPromise!Elements(S) = Elements(S)
               /\ AdapterPromise!Names(S) = Elements(Names(S))
    BY DEF AdapterPromise!Cardinality, Cardinality, AdapterPromise!ListsOf, ListsOf,
       AdapterPromise!Elements, Elements, AdapterPromise!Names, Names
  <1>2. ASSUME NEW s, NEW P
        PROVE  AdapterPromise!At(s, P) = Promise!At(s, P)
    BY DEF AdapterPromise!At, Promise!At, AdapterPromise!Cardinality, Promise!Cardinality
  <1>3. ASSUME NEW n, NEW i, NEW j
        PROVE  AdapterPromise!Positions(n, i, j) = Promise!Positions(n, i, j)
    BY DEF AdapterPromise!Positions, Promise!Positions, AdapterPromise!FromEnd, Promise!FromEnd
  <1>4. ASSUME NEW s, NEW v
        PROVE  AdapterPromise!Holding(s, v) = Promise!Holding(s, v)
    BY DEF AdapterPromise!Holding, Promise!Holding
  <1> QED  BY <1>1, <1>2, <1>3, <1>4

LEMMA SameSortedSets ==
  /\ \A m, ps, S : AdapterPromise!Overlays(m, ps, S) = Promise!Overlays(m, ps, S)
  /\ \A k : AdapterPromise!AnyScore(k) = Promise!AnyScore(k)
  /\ \A z, D : AdapterPromise!Listings(z, D) = Promise!Listings(z, D)
  <1>1. ASSUME NEW m, NEW ps, NEW S
        PROVE  AdapterPromise!Overlays(m, ps, S) = Promise!Overlays(m, ps, S)
    BY DEF AdapterPromise!Overlays, Promise!Overlays, AdapterPromise!Names, Promise!Names
  <1>2. ASSUME NEW k
        PROVE  AdapterPromise!AnyScore(k) = Promise!AnyScore(k)
    BY DEF AdapterPromise!AnyScore, Promise!AnyScore
  <1>3. ASSUME NEW z, NEW D
        PROVE  AdapterPromise!Listings(z, D) = Promise!Listings(z, D)
    BY DEF AdapterPromise!Listings, Promise!Listings, AdapterPromise!InOrder, Promise!InOrder,
       AdapterPromise!Rank, Promise!Rank, AdapterPromise!Cardinality, Promise!Cardinality,
       AdapterPromise!Elements, Promise!Elements
  <1> QED  BY <1>1, <1>2, <1>3

LEMMA SameChanges ==
  /\ \A k, s : AdapterPromise!SetList(k, s) <=> Promise!SetList(k, s)
  /\ \A k, S : AdapterPromise!SetSet(k, S) <=> Promise!SetSet(k, S)
  /\ \A k, z, b : AdapterPromise!SetZSet(k, z, b) <=> Promise!SetZSet(k, z, b)
  /\ \A K : AdapterPromise!Forget(K) <=> Promise!Forget(K)
  BY DEF AdapterPromise!SetList, Promise!SetList, AdapterPromise!SetSet, Promise!SetSet,
     AdapterPromise!SetZSet, Promise!SetZSet, AdapterPromise!Forget, Promise!Forget

LEMMA SameKeyTypes ==
  /\ \A k : AdapterPromise!Types(k) = Promise!Types(k)
  /\ \A k : AdapterPromise!FirstType(k) = Promise!FirstType(k)
  /\ AdapterPromise!Present = Promise!Present
  BY DEF AdapterPromise!Types, Promise!Types, AdapterPromise!FirstType, Promise!FirstType,
     AdapterPromise!TypeOrder, Promise!TypeOrder, AdapterPromise!Present, Promise!Present
----------------------------------------------------------------------------
(* The invariant.  A database on the shelf has the types and the finite    *)
(* parts that the current one has.                                         *)
DatabaseOK(db) ==
  /\ db.strings \subseteq Keys
  /\ IsFiniteSet(db.strings \cup Entries(db.hashes) \cup Entries(db.lists)
                 \cup Entries(db.sets) \cup Entries(db.zsets))
  /\ DOMAIN db.hashes = Keys /\ DOMAIN db.lists = Keys
  /\ DOMAIN db.sets = Keys /\ DOMAIN db.zsets = Keys
  /\ \A k \in Keys :
       /\ db.hashes[k] # NoEntry => db.hashes[k] # Empty /\ IsMap(db.hashes[k], Values)
       /\ db.lists[k] # NoEntry => db.lists[k] \in Seq(Values)
       /\ db.sets[k] # NoEntry => db.sets[k] \in SUBSET Values /\ IsFiniteSet(db.sets[k])
       /\ db.zsets[k] # NoEntry => IsMap(db.zsets[k], Numbers) /\ IsFiniteSet(DOMAIN db.zsets[k])

ShelfOK ==
  /\ dbIndex \in Dbs /\ DOMAIN shelf = Dbs /\ shelf[dbIndex] = NewDb
  /\ \A i \in Dbs : DatabaseOK(shelf[i])
CallsOK == continuations \in Seq([dest : Keys, members : {S \in SUBSET Values : IsFiniteSet(S)}])
AdapterInv == DatabaseOK(Current) /\ ReplyOK /\ ShelfOK /\ CallsOK

LEMMA DatabaseIsTyped == DatabaseOK(Current) /\ ReplyOK <=> TypeInv /\ HashesHold
  <1>1. /\ Current.strings = strings /\ Current.hashes = hashes /\ Current.lists = lists
        /\ Current.sets = sets /\ Current.zsets = zsets
    BY DEF Current
  <1>2. Current.strings \cup Entries(Current.hashes) \cup Entries(Current.lists)
          \cup Entries(Current.sets) \cup Entries(Current.zsets) = AllKeys
    BY <1>1 DEF Entries, AllKeys, HashKeys, ListKeys, SetKeys, ZSetKeys
  <1>3. DatabaseOK(Current) <=> /\ strings \subseteq Keys /\ IsFiniteSet(AllKeys)
                                /\ HashesOK /\ ListsOK /\ SetsOK /\ ZSetsOK /\ HashesHold
    BY <1>1, <1>2, NoEntryIsNotEmpty DEF DatabaseOK, HashesOK, ListsOK, SetsOK, ZSetsOK, HashesHold
  <1> QED  BY <1>3 DEF TypeInv

LEMMA NewDbIsOK == DatabaseOK(NewDb)
  <1>1. Entries(NoMap) = {} /\ DOMAIN NoMap = Keys /\ \A k \in Keys : NoMap[k] = NoEntry
    BY DEF Entries, NoMap
  <1>2. /\ NewDb.strings = {} /\ NewDb.hashes = NoMap /\ NewDb.lists = NoMap
        /\ NewDb.sets = NoMap /\ NewDb.zsets = NoMap
    BY DEF NewDb
  <1> QED  BY <1>1, <1>2, FS_EmptySet DEF DatabaseOK

LEMMA AdapterInitOK == AdapterInit => AdapterInv
  <1> SUFFICES ASSUME AdapterInit
               PROVE  AdapterInv
    OBVIOUS
  <1>1. TypeInv /\ HashesHold
    BY InitTyped, InitInv DEF AdapterInit, Inv
  <1>2. ShelfOK
    BY NewDbIsOK DEF AdapterInit, ShelfOK
  <1>3. CallsOK
    BY DEF AdapterInit, CallsOK
  <1> QED  BY <1>1, <1>2, <1>3, DatabaseIsTyped DEF AdapterInv
----------------------------------------------------------------------------
(* The methods on lists that differ from a command *)

(* A method that changes one entry leaves the types as they were.          *)
LEMMA OneEntryTyped ==
  ASSUME TypeInv, UNCHANGED strings, HashesOK', ListsOK', SetsOK', ZSetsOK', ReplyOK', NEW k \in Keys,
         \A q \in Keys \ {k} : /\ hashes'[q] = hashes[q] /\ lists'[q] = lists[q]
                               /\ sets'[q] = sets[q] /\ zsets'[q] = zsets[q]
  PROVE  TypeInv'
  <1>1. AllKeys' \subseteq AllKeys \cup {k}
    BY DEF AllKeys, HashKeys, ListKeys, SetKeys, ZSetKeys
  <1>2. IsFiniteSet(AllKeys')
    BY <1>1, OneKeyMore
  <1> QED  BY <1>2 DEF TypeInv

LEMMA ListChangedTyped ==
  ASSUME TypeInv, NEW k \in Keys, NEW s \in Seq(Values), UNCHANGED <<strings, hashes, sets, zsets>>,
         ReplyOK', UNCHANGED lists \/ SetList(k, s)
  PROVE  TypeInv'
  <1>1. ListsOK' /\ \A q \in Keys \ {k} : lists'[q] = lists[q]
    <2>1. ListsOK
      BY DEF TypeInv
    <2>2. CASE UNCHANGED lists
      BY <2>1, <2>2 DEF ListsOK
    <2>3. CASE SetList(k, s)
      BY <2>1, <2>3, SetListTyped
    <2> QED  BY <2>2, <2>3
  <1>2. HashesOK' /\ SetsOK' /\ ZSetsOK'
    BY DEF TypeInv, HashesOK, SetsOK, ZSetsOK
  <1> QED  BY <1>1, <1>2, OneEntryTyped

LEMMA SliceOfNothing ==
  ASSUME NEW s, s = <<>>, NEW i \in Int, NEW j \in Int
  PROVE  Slice(s, i, j) = s
  <1>1. s \in Seq(Values) /\ Len(s) = 0
    OBVIOUS
  <1>2. Promise!Positions(Len(s), i, j) = {}
    BY <1>1 DEF Promise!Positions
  <1>3. Slice(s, i, j) = Promise!At(s, Promise!Positions(Len(s), i, j))
    BY <1>1, SliceIs
  <1> QED  BY <1>2, <1>3, AtNothing

LEMMA SliceTyped ==
  ASSUME NEW S, NEW s \in Seq(S), NEW i \in Int, NEW j \in Int
  PROVE  Slice(s, i, j) \in Seq(S)
  <1> DEFINE a == From(i, Len(s)) + 1
             b == To(j, Len(s)) + 1
  <1>1. a \in Int /\ b \in Int /\ a >= 1 /\ b <= Len(s)
    BY DEF From, To
  <1> HIDE DEF a, b
  <1>2. SubSeq(s, a, b) \in Seq(S)
    BY <1>1
  <1> QED  BY <1>2 DEF Slice, a, b

LEMMA LTrimRefines ==
  ASSUME TypeInv, NEW k \in Keys, NEW i \in Indexes, NEW j \in Indexes,
         UNCHANGED <<strings, hashes, sets, zsets>>, request' = <<"lTrim", k, i, j>>, LTrim(k, i, j)
  PROVE  TypeInv' /\ AdapterPromise!AdapterListWrite
  <1> DEFINE left == Slice(List(k), i, j)
  <1>1. i \in Int /\ j \in Int /\ List(k) \in Seq(Values)
    BY CollectionsAssumption, Found
  <1>2. left = Promise!At(List(k), Promise!Positions(Len(List(k)), i, j))
    BY <1>1, SliceIs
  <1>3. left \in Seq(Values)
    BY <1>1, SliceTyped
  <1>4. lists[k] = NoEntry => left = List(k)
    BY <1>1, SliceOfNothing DEF List, Empty
  <1> HIDE DEF left
  <1>5. reply' = OK /\ IF lists[k] = NoEntry THEN UNCHANGED lists ELSE SetList(k, left)
    BY DEF LTrim, left
  <1>6. Promise!SetList(k, left)
    <2>1. CASE lists[k] = NoEntry
      BY <1>4, <1>5, <2>1, ListKept
    <2>2. CASE lists[k] # NoEntry
      BY <1>3, <1>5, <2>2, ListWritten DEF SetList
    <2> QED  BY <2>1, <2>2
  <1>7. AdapterPromise!AdapterListWrite
    <2>1. ListsSeen[k] = List(k)
      BY SeenIsFound
    <2>2. AdapterPromise!SetList(k, AdapterPromise!At(Seen(lists, Empty)[k],
                                      AdapterPromise!Positions(Len(Seen(lists, Empty)[k]), i, j)))
      BY <1>2, <1>6, <2>1, SameChanges, SameSequences DEF ListsSeen
    <2> QED  BY <1>5, <2>2, SameReplies DEF AdapterPromise!AdapterListWrite
  <1>8. TypeInv'
    BY <1>3, <1>5, ListChangedTyped, ReplyTypes DEF ReplyOK
  <1> QED  BY <1>7, <1>8

(* indexOf finds the first position that holds v.                          *)
IndexOf(s, v) == SelectInSeq(s, LAMBDA x : x = v)
LEMMA IndexOfIs ==
  ASSUME NEW S, NEW s \in Seq(S), NEW v, v \in Elements(s)
  PROVE  /\ IndexOf(s, v) \in 1 .. Len(s) /\ s[IndexOf(s, v)] = v
         /\ \A q \in 1 .. Len(s) : s[q] = v => IndexOf(s, v) <= q
  <1> DEFINE I == {i \in 1 .. Len(s) : s[i] = v}
  <1>1. IndexOf(s, v) = IF I # {} THEN CHOOSE p \in I : \A q \in I : p <= q ELSE 0
    BY DEF IndexOf, SelectInSeq, Min
  <1>2. I # {} /\ I \subseteq Nat
    BY DEF Elements
  <1>3. PICK p \in I : \A q \in I : p <= q
    BY <1>2, Least
  <1>4. IndexOf(s, v) \in I /\ \A q \in I : IndexOf(s, v) <= q
    BY <1>1, <1>2, <1>3
  <1> QED  BY <1>4

LEMMA InsertAtIs ==
  ASSUME NEW S, NEW s \in Seq(S), NEW v \in S, NEW p \in 1 .. Len(s) + 1
  PROVE  /\ InsertAt(s, p, v) = AdapterPromise!InsertAt(s, p, v)
         /\ InsertAt(s, p, v) \in Seq(S)
  <1> DEFINE a == SubSeq(s, 1, p - 1)
             u == <<v>>
             b == SubSeq(s, p, Len(s))
             c == a \o u
             d == c \o b
  <1>1. Len(s) \in Nat /\ p \in Int /\ p >= 1
    OBVIOUS
  <1>2. /\ a \in Seq(S) /\ Len(a) = p - 1 /\ \A q \in 1 .. p - 1 : a[q] = s[q]
        /\ b \in Seq(S) /\ Len(b) = Len(s) - p + 1 /\ \A q \in 1 .. Len(s) - p + 1 : b[q] = s[p + q - 1]
    OBVIOUS
  <1>3. u \in Seq(S) /\ Len(u) = 1 /\ u[1] = v
    OBVIOUS
  <1> HIDE DEF a, u, b
  <1>4. /\ c \in Seq(S) /\ Len(c) = Len(a) + Len(u)
        /\ \A q \in 1 .. Len(a) + Len(u) : c[q] = IF q <= Len(a) THEN a[q] ELSE u[q - Len(a)]
    BY <1>2, <1>3, ConcatProperties, Zenon
  <1> HIDE DEF c
  <1>5. c \in Seq(S) /\ Len(c) = p
    BY <1>4, <1>1, <1>2, <1>3
  <1>6. c[p] = v /\ \A q \in 1 .. p - 1 : c[q] = s[q]
    <2>1. p \in 1 .. Len(a) + Len(u) /\ ~ (p <= Len(a)) /\ p - Len(a) = 1
      BY <1>1, <1>2, <1>3
    <2>2. c[p] = v
      BY <1>4, <1>3, <2>1
    <2>3. ASSUME NEW q \in 1 .. p - 1
          PROVE  c[q] = s[q]
      <3>1. q \in 1 .. Len(a) + Len(u) /\ q <= Len(a)
        BY <1>1, <1>2, <1>3
      <3> QED  BY <1>4, <1>2, <3>1
    <2> QED  BY <2>2, <2>3
  <1>7. /\ d \in Seq(S) /\ Len(d) = Len(c) + Len(b)
         /\ \A q \in 1 .. Len(c) + Len(b) : d[q] = IF q <= Len(c) THEN c[q] ELSE b[q - Len(c)]
    BY <1>2, <1>5, ConcatProperties, Zenon
  <1> HIDE DEF d
  <1>8. d \in Seq(S) /\ Len(d) = Len(s) + 1
    BY <1>1, <1>2, <1>5, <1>7
  <1>9. ASSUME NEW q \in 1 .. Len(s) + 1
        PROVE  d[q] = IF q < p THEN s[q] ELSE IF q = p THEN v ELSE s[q - 1]
    <2>1. CASE q <= p
      <3>1. d[q] = c[q]
        BY <1>1, <1>2, <1>5, <1>7, <2>1
      <3> QED  BY <1>1, <1>6, <2>1, <3>1
    <2>2. CASE q > p
      <3>1. d[q] = b[q - p] /\ q - p \in 1 .. Len(s) - p + 1
        BY <1>1, <1>2, <1>5, <1>7, <2>2
      <3>2. b[q - p] = s[p + (q - p) - 1] /\ p + (q - p) - 1 = q - 1
        BY <1>1, <1>2, <3>1
      <3> QED  BY <1>1, <2>2, <3>1, <3>2
    <2>3. q <= p \/ q > p
      BY <1>1
    <2> QED  BY <2>1, <2>2, <2>3
  <1>10. d = [q \in 1 .. Len(s) + 1 |-> IF q < p THEN s[q] ELSE IF q = p THEN v ELSE s[q - 1]]
    BY <1>8, <1>9
  <1>11. InsertAt(s, p, v) = d
    BY DEF InsertAt, a, u, b, c, d
  <1> QED  BY <1>8, <1>10, <1>11 DEF AdapterPromise!InsertAt

LEMMA LInsertRefines ==
  ASSUME TypeInv, HashesHold, NEW k \in Keys, NEW before \in BOOLEAN, NEW pivot \in Values,
         NEW v \in Values, UNCHANGED <<strings, hashes, sets, zsets>>,
         request' = <<"lInsert", k, before, pivot, v>>, LInsert(k, before, pivot, v)
  PROVE  TypeInv' /\ AdapterPromise!AdapterListWrite
  <1> DEFINE s == List(k)
             P == Promise!Holding(s, pivot)
  <1>1. s \in Seq(Values) /\ DOMAIN s = 1 .. Len(s) /\ Len(s) \in Nat
    BY Found
  <1>2. \A p : p \in P <=> p \in 1 .. Len(s) /\ s[p] = pivot
    BY <1>1, HoldingIs
  <1>3. Seen(lists, Empty)[k] = s /\ AdapterPromise!Holding(s, pivot) = P
    BY SeenIsFound, SameSequences DEF ListsSeen
  <1>4. pivot \in Elements(s) <=> P # {}
    BY <1>1, <1>2 DEF Elements
  <1>5. lists[k] = NoEntry => P = {}
    <2>1. ASSUME lists[k] = NoEntry
          PROVE  Len(s) = 0
      BY <2>1 DEF List, Empty
    <2> QED  BY <1>1, <1>2, <2>1
  <1>6. "list" \in AdapterPromise!Types(k) <=> lists[k] # NoEntry
    BY SameKeyTypes, TypesAre DEF ListKeys
  <1> HIDE DEF s, P
  <1>7. CASE P = {}
    <2>1. UNCHANGED lists /\ reply' = Integer(IF lists[k] = NoEntry THEN 0 ELSE -1)
      BY <1>4, <1>7 DEF LInsert, s
    <2>2. UNCHANGED <<strings, HashesSeen, ListsSeen, SetsSeen, ZSetsSeen, Husks>>
      BY <2>1, UnchangedMaps
    <2>3. AdapterPromise!AdapterListWrite
      BY <1>3, <1>6, <1>7, <2>1, <2>2, SameReplies
         DEF AdapterPromise!AdapterListWrite, HashesSeen, ListsSeen, SetsSeen, ZSetsSeen, Husks
    <2>4. TypeInv'
      BY <1>1, <2>1, ListChangedTyped, ReplyTypes DEF ReplyOK
    <2> QED  BY <2>3, <2>4
  <1>8. CASE P # {}
    <2> DEFINE p == IndexOf(s, pivot)
               at == IF before THEN p ELSE p + 1
               new == InsertAt(s, at, v)
    <2>1. p \in P /\ \A q \in P : p <= q
      BY <1>1, <1>2, <1>4, <1>8, IndexOfIs
    <2>2. p \in 1 .. Len(s)
      BY <1>2, <2>1
    <2>3. SetList(k, new) /\ reply' = Integer(Len(s) + 1)
      BY <1>4, <1>5, <1>8 DEF LInsert, IndexOf, s
    <2> HIDE DEF p
    <2>4. at \in 1 .. Len(s) + 1
      BY <1>1, <2>2
    <2> HIDE DEF at
    <2>5. new = AdapterPromise!InsertAt(s, at, v) /\ new \in Seq(Values)
      BY <1>1, <2>4, InsertAtIs
    <2> HIDE DEF new
    <2>6. Promise!SetList(k, new)
      BY <1>5, <1>8, <2>3, <2>5, ListWritten DEF SetList
    <2>7. AdapterPromise!SetList(k, AdapterPromise!InsertAt(s, IF before THEN p ELSE p + 1, v))
      BY <2>5, <2>6, SameChanges DEF at
    <2>8. AdapterPromise!AdapterListWrite
      BY <1>3, <2>1, <2>3, <2>7, SameReplies DEF AdapterPromise!AdapterListWrite
    <2>9. TypeInv'
      BY <2>3, <2>5, ListChangedTyped, ReplyTypes DEF ReplyOK
    <2> QED  BY <2>8, <2>9
  <1> QED  BY <1>7, <1>8
----------------------------------------------------------------------------
(* The methods on sets that differ from a command *)

LEMMA SetChangedTyped ==
  ASSUME TypeInv, UNCHANGED <<strings, hashes, lists, zsets>>, ReplyOK', NEW k \in Keys, NEW e,
         e # NoEntry => e \in SUBSET Values /\ IsFiniteSet(e),
         UNCHANGED sets \/ sets' = [sets EXCEPT ![k] = e]
  PROVE  TypeInv'
  <1>1. SetsOK' /\ \A q \in Keys \ {k} : sets'[q] = sets[q]
    BY DEF TypeInv, SetsOK
  <1>2. HashesOK' /\ ListsOK' /\ ZSetsOK'
    BY DEF TypeInv, HashesOK, ListsOK, ZSetsOK
  <1> QED  BY <1>1, <1>2, OneEntryTyped

LEMMA FirstKey ==
  ASSUME NEW S, NEW xs \in ListsOf(S)
  PROVE  1 \in DOMAIN xs /\ \A i \in DOMAIN xs : xs[i] \in S
  BY ListsAreSequences

LEMMA IntersectionIs ==
  ASSUME TypeInv, NEW ks \in ListsOf(Keys)
  PROVE  /\ Intersection(ks) = AdapterPromise!Common(ks)
         /\ Intersection(ks) \in SUBSET Values /\ IsFiniteSet(Intersection(ks))
         /\ Intersection(ks) \subseteq Members(ks[1])
  <1>1. ks[1] \in Keys /\ \A i \in DOMAIN ks : Seen(sets, {})[ks[i]] = Members(ks[i])
    BY FirstKey, SeenIsFound DEF SetsSeen
  <1>2. Seen(sets, {})[ks[1]] = Members(ks[1])
    BY <1>1, SeenIsFound DEF SetsSeen
  <1>3. Intersection(ks) = AdapterPromise!Common(ks)
    BY <1>1, <1>2 DEF Intersection, AdapterPromise!Common
  <1>4. Intersection(ks) \subseteq Members(ks[1])
    BY DEF Intersection
  <1>5. Members(ks[1]) \in SUBSET Values /\ IsFiniteSet(Members(ks[1]))
    BY <1>1, Found
  <1> HIDE DEF Intersection
  <1> QED  BY <1>3, <1>4, <1>5, FS_Subset

(* sInter removes from the first set, which may stay as a husk.            *)
LEMMA SInterNarrows ==
  ASSUME TypeInv, HashesHold, NEW ks \in ListsOf(Keys), SInterSets(ks),
         UNCHANGED <<strings, hashes, lists, zsets>>
  PROVE  AdapterPromise!NarrowFirst(ks) /\ (ReplyOK' => TypeInv')
  <1> DEFINE k == ks[1]
             new == Intersection(ks)
  <1>1. k \in Keys
    BY FirstKey
  <1>2. new = AdapterPromise!Common(ks) /\ new \in SUBSET Values /\ IsFiniteSet(new)
        /\ new \subseteq Members(k)
    BY IntersectionIs
  <1>3. new # NoEntry
    BY <1>2, CollectionsAssumption
  <1>4. sets' = IF sets[k] = NoEntry THEN sets ELSE [sets EXCEPT ![k] = new]
    BY DEF SInterSets
  <1> HIDE DEF k, new
  <1>5. SetsSeen' = [SetsSeen EXCEPT ![k] = new]
    <2>1. CASE sets[k] = NoEntry
      <3>1. SetsSeen' = SetsSeen /\ new = {} /\ SetsSeen[k] = {}
        BY <1>1, <1>2, <1>4, <2>1, UnchangedMaps, SeenIsFound DEF Members
      <3>2. SetsSeen = [x \in Keys |-> SetsSeen[x]]
        BY DEF SetsSeen, Seen
      <3> QED  BY <3>1, <3>2
    <2>2. CASE sets[k] # NoEntry
      BY <1>1, <1>3, <1>4, <2>2 DEF TypeInv, SetsOK, SetsSeen, Seen
    <2> QED  BY <2>1, <2>2
  <1>6. Husks' = IF k \in SetKeys /\ new = {} THEN Husks \cup {<<"set", k>>} ELSE Husks \ {<<"set", k>>}
    <2> DEFINE S == {x \in Keys : sets[x] = {}}
               T == {x \in Keys : sets'[x] = {}}
               R == {<<"list", q>> : q \in {x \in Keys : lists[x] = Empty}}
                      \cup {<<"zset", q>> : q \in {x \in Keys : zsets[x] = Empty}}
    <2>1. T = IF k \in SetKeys /\ new = {} THEN S \cup {k} ELSE S \ {k}
      BY <1>1, <1>4, NoEntryIsNotEmpty DEF TypeInv, SetsOK, SetKeys
    <2>2. Husks = {<<"set", q>> : q \in S} \cup R /\ Husks' = {<<"set", q>> : q \in T} \cup R
      BY DEF Husks, HusksOf, Empty
    <2>3. <<"set", k>> \notin R
      OBVIOUS
    <2> HIDE DEF S, T, R
    <2>4. CASE k \in SetKeys /\ new = {}
      BY <2>1, <2>2, <2>4
    <2>5. CASE ~ (k \in SetKeys /\ new = {})
      BY <2>1, <2>2, <2>3, <2>5
    <2> QED  BY <2>4, <2>5
  <1>7. UNCHANGED <<strings, HashesSeen, ListsSeen, ZSetsSeen>>
    BY UnchangedMaps
  <1>8. "set" \in AdapterPromise!Types(k) <=> k \in SetKeys
    BY <1>1, SameKeyTypes, TypesAre
  <1>9. AdapterPromise!NarrowFirst(ks)
    BY <1>2, <1>5, <1>6, <1>7, <1>8
       DEF AdapterPromise!NarrowFirst, k, HashesSeen, ListsSeen, SetsSeen, ZSetsSeen, Husks
  <1>10. ReplyOK' => TypeInv'
    BY <1>1, <1>2, <1>4, SetChangedTyped
  <1> QED  BY <1>9, <1>10

LEMMA SInterRefines ==
  ASSUME TypeInv, HashesHold, NEW ks \in ListsOf(Keys), UNCHANGED <<strings, hashes, lists, zsets>>,
         request' = <<"sInter", ks>>, SInter(ks)
  PROVE  TypeInv' /\ AdapterPromise!AdapterSetWrite
  <1>1. ReplyOK'
    BY ReplyTypes DEF SInter, ReplyOK
  <1>2. reply' = AdapterPromise!Unordered(AdapterPromise!Common(ks))
    BY SameReplies, IntersectionIs DEF SInter
  <1>3. ks \in AdapterPromise!ListsOf(Keys)
    BY SameSequences
  <1> QED  BY <1>1, <1>2, <1>3, SInterNarrows DEF SInter, AdapterPromise!AdapterSetWrite

LEMMA UnchangedTyped ==
  ASSUME TypeInv, UNCHANGED stores, ReplyOK'
  PROVE  TypeInv'
  BY DEF stores, TypeInv, AllKeys, HashKeys, ListKeys, SetKeys, ZSetKeys,
         HashesOK, ListsOK, SetsOK, ZSetsOK

LEMMA SUnionAnswers ==
  ASSUME TypeInv, NEW ks \in ListsOf(Keys),
         \/ request' = <<"sUnion", ks>> /\ SUnion(ks)
         \/ request' = <<"sDiff", ks>> /\ SDiff(ks)
  PROVE  UNCHANGED sets /\ ReplyOK' /\ AdapterPromise!AdapterSetAnswer
  <1>1. ks \in AdapterPromise!ListsOf(Keys) /\ DOMAIN ks = 1 .. Len(ks) /\ ks \in Seq(Keys)
    BY SameSequences, ListsAreSequences
  <1>2. \A i \in DOMAIN ks : ks[i] \in Keys /\ Seen(sets, {})[ks[i]] = Members(ks[i])
                             /\ Members(ks[i]) \in SUBSET Values
    BY FirstKey, SeenIsFound, Found DEF SetsSeen
  <1>3. 1 \in DOMAIN ks
    BY FirstKey
  <1>4. CASE request' = <<"sUnion", ks>> /\ SUnion(ks)
    <2>1. UNION {Members(ks[i]) : i \in DOMAIN ks}
            = {m \in Values : \E i \in DOMAIN ks : m \in Seen(sets, {})[ks[i]]}
      BY <1>2
    <2> QED  BY <1>1, <1>4, <2>1, SameReplies, ReplyTypes
             DEF SUnion, ReplyOK, AdapterPromise!AdapterSetAnswer
  <1>5. CASE request' = <<"sDiff", ks>> /\ SDiff(ks)
    <2>1. \A i \in DOMAIN ks : i \in DOMAIN ks \ {1} <=> i > 1
      BY <1>1
    <2>2. Members(ks[1]) \ UNION {Members(ks[i]) : i \in DOMAIN ks \ {1}}
            = {m \in Seen(sets, {})[ks[1]] : \A i \in DOMAIN ks : i > 1 => m \notin Seen(sets, {})[ks[i]]}
      BY <1>2, <1>3, <2>1
    <2> QED  BY <1>1, <1>5, <2>2, SameReplies, ReplyTypes
             DEF SDiff, ReplyOK, AdapterPromise!AdapterSetAnswer
  <1> QED  BY <1>4, <1>5 DEF SUnion, SDiff

(* Members drawn without putting any back are an arrangement of so many.   *)
LEMMA DistinctElements ==
  ASSUME NEW S, NEW n \in Nat, NEW s \in [1 .. n -> S], \A a, b \in 1 .. n : s[a] = s[b] => a = b
  PROVE  Cardinality(Elements(s)) = n /\ s \in Seq(S)
  <1>1. s \in Seq(S) /\ Len(s) = n /\ DOMAIN s = 1 .. n
    OBVIOUS
  <1>2. Cardinality(UpTo(s, n)) = n
    BY <1>1, DistinctCount
  <1>3. UpTo(s, n) = Elements(s)
    BY <1>1 DEF UpTo, Elements
  <1> QED  BY <1>1, <1>2, <1>3

LEMMA DrawsArrange ==
  ASSUME NEW S, IsFiniteSet(S), NEW count \in Int, NEW s \in Draws(S, count, TRUE)
  PROVE  s \in AdapterPromise!Arrangements(S, AdapterPromise!AtMost(count, S))
  <1> DEFINE c == Cardinality(S)
             n == AdapterPromise!AtMost(count, S)
             most == IF S = {} THEN 0 ELSE IF c < count THEN c ELSE count
  <1>1. c \in Nat /\ (S = {} => c = 0)
    BY FS_CardinalityType, FS_EmptySet
  <1>2. n = IF count < 0 THEN 0 ELSE IF count < c THEN count ELSE c
    BY SameSequences DEF AdapterPromise!AtMost
  <1>3. s \in [1 .. most -> S] /\ \A a, b \in DOMAIN s : s[a] = s[b] => a = b
    BY DEF Draws, IsInjective
  <1> HIDE DEF c, n
  <1>4. n \in Nat /\ 1 .. most = 1 .. n
    <2>1. n \in Nat
      BY <1>1, <1>2
    <2>2. CASE most < 0
      <3>1. n = 0 /\ most \in Int
        BY <1>1, <1>2, <2>2
      <3> QED  BY <2>2, <3>1
    <2>3. CASE ~ (most < 0)
      <3>1. n = most
        BY <1>1, <1>2, <2>3
      <3> QED  BY <2>1, <3>1
    <2> QED  BY <2>1, <2>2, <2>3
  <1> HIDE DEF most
  <1>5. s \in [1 .. n -> S] /\ Cardinality(Elements(s)) = n
    BY <1>3, <1>4, DistinctElements
  <1> QED  BY <1>5, SameSequences DEF AdapterPromise!Arrangements, n

LEMMA SPopCountRefines ==
  ASSUME TypeInv, NEW k \in Keys, NEW count \in PopCounts, UNCHANGED <<strings, hashes, lists, zsets>>,
         request' = <<"sPop", k, count>>, SPopCount(k, count)
  PROVE  TypeInv' /\ AdapterPromise!AdapterSetWrite
  <1> DEFINE S == Members(k)
             n == IF count = 0 THEN 1 ELSE count
  <1>1. n \in Int /\ S \in SUBSET Values /\ IsFiniteSet(S)
    BY AdapterAssumption, Found
  <1>2. Seen(sets, {})[k] = S
    BY SeenIsFound DEF SetsSeen
  <1>3. ReplyOK'
    BY ReplyTypes DEF SPopCount, ReplyOK
  <1> HIDE DEF S, n
  <1>4. CASE S = {} /\ reply' = Array(<<>>) /\ UNCHANGED sets
    <2>1. <<>> \in Draws(S, n, TRUE)
      BY <1>4 DEF Draws, IsInjective
    <2>2. <<>> \in AdapterPromise!Arrangements(S, AdapterPromise!AtMost(n, S))
      BY <1>1, <2>1, DrawsArrange
    <2>3. UNCHANGED <<strings, HashesSeen, ListsSeen, SetsSeen, ZSetsSeen, Husks>>
      BY <1>4, UnchangedMaps
    <2>4. AdapterPromise!AdapterSetWrite
      BY <1>2, <1>4, <2>2, <2>3, SameReplies
         DEF AdapterPromise!AdapterSetWrite, n, HashesSeen, ListsSeen, SetsSeen, ZSetsSeen, Husks
    <2>5. TypeInv'
      BY <1>3, <1>4, UnchangedTyped DEF stores
    <2> QED  BY <2>4, <2>5
  <1>5. CASE S # {} /\ \E s \in Draws(S, n, TRUE) : SetRemove(k, s) /\ reply' = Array(s)
    <2>1. PICK s \in Draws(S, n, TRUE) : SetRemove(k, s) /\ reply' = Array(s)
      BY <1>5
    <2>2. s \in AdapterPromise!Arrangements(S, AdapterPromise!AtMost(n, S))
      BY <1>1, <2>1, DrawsArrange
    <2>3. AdapterPromise!SetSet(k, S \ AdapterPromise!Elements(s))
      BY <2>1, SetRemoved, SameChanges, SameSequences DEF S
    <2>4. ASSUME s = <<>>
          PROVE  \A q \in Keys : sets'[q] = sets[q]
      <3>1. Elements(s) = {}
        BY <2>4 DEF Elements
      <3>2. sets' = [sets EXCEPT ![k] = S] /\ sets[k] = S
        BY <1>5, <2>1, <3>1 DEF SetRemove, S, Members
      <3> QED  BY <3>2 DEF TypeInv, SetsOK
    <2>5. ASSUME s = <<>>
          PROVE  UNCHANGED <<strings, HashesSeen, ListsSeen, SetsSeen, ZSetsSeen, Husks>>
      <3>1. UNCHANGED SetsSeen
        BY <2>4, <2>5 DEF SetsSeen, Seen
      <3>2. {x \in Keys : sets'[x] = {}} = {x \in Keys : sets[x] = {}}
        BY <2>4, <2>5
      <3>3. UNCHANGED Husks
        BY <3>2 DEF Husks, HusksOf
      <3> QED  BY <3>1, <3>3, UnchangedMaps
    <2>6. AdapterPromise!AdapterSetWrite
      BY <1>2, <2>1, <2>2, <2>3, <2>5, SameReplies
         DEF AdapterPromise!AdapterSetWrite, n, HashesSeen, ListsSeen, SetsSeen, ZSetsSeen, Husks
    <2>7. TypeInv'
      <3>1. S \ Elements(s) \in SUBSET Values /\ IsFiniteSet(S \ Elements(s))
        BY <1>1, FS_Difference
      <3> QED  BY <1>3, <2>1, <3>1, SetChangedTyped DEF SetRemove, S
    <2> QED  BY <2>6, <2>7
  <1> QED  BY <1>4, <1>5 DEF SPopCount, S, n

LEMMA SRandMemberCountAnswers ==
  ASSUME TypeInv, NEW k \in Keys, NEW count \in PopCounts,
         request' = <<"sRandMember", k, count>>, SRandMemberCount(k, count)
  PROVE  UNCHANGED sets /\ ReplyOK' /\ AdapterPromise!AdapterSetAnswer
  <1> DEFINE S == Members(k)
  <1>1. count \in Int /\ IsFiniteSet(S) /\ Seen(sets, {})[k] = S
    BY AdapterAssumption, Found, SeenIsFound DEF SetsSeen
  <1>2. PICK s \in Draws(S, IF count < 0 THEN -count ELSE count, count > 0) : reply' = Array(s)
    BY DEF SRandMemberCount
  <1>3. UNCHANGED sets /\ ReplyOK'
    BY ReplyTypes DEF SRandMemberCount, ReplyOK
  <1> HIDE DEF S
  <1>4. s \in IF count < 0 /\ S # {} THEN [1 .. -count -> S]
              ELSE AdapterPromise!Arrangements(S, AdapterPromise!AtMost(count, S))
    <2>1. CASE count > 0
      <3>1. s \in Draws(S, count, TRUE)
        <4>1. (IF count < 0 THEN -count ELSE count) = count /\ (count > 0) = TRUE
          BY <1>1, <2>1
        <4> QED  BY <1>2, <4>1, Zenon
      <3>2. s \in AdapterPromise!Arrangements(S, AdapterPromise!AtMost(count, S))
        BY <1>1, <3>1, DrawsArrange
      <3>3. ~ (count < 0 /\ S # {})
        BY <1>1, <2>1
      <3> QED  BY <3>2, <3>3
    <2>2. CASE count <= 0 /\ (S = {} \/ count = 0)
      <3>1. s \in [1 .. 0 -> S]
        BY <1>1, <1>2, <2>2 DEF Draws
      <3>2. s \in Seq(S) /\ Cardinality(Elements(s)) = 0
        <4>1. 0 \in Nat /\ \A a, b \in 1 .. 0 : s[a] = s[b] => a = b
          OBVIOUS
        <4> QED  BY <3>1, <4>1, DistinctElements
      <3>3. AdapterPromise!AtMost(count, S) = 0
        BY <1>1, <2>2, FS_CardinalityType, FS_EmptySet, SameSequences DEF AdapterPromise!AtMost
      <3>4. s \in AdapterPromise!Arrangements(S, AdapterPromise!AtMost(count, S))
        BY <3>1, <3>2, <3>3, SameSequences DEF AdapterPromise!Arrangements
      <3>5. ~ (count < 0 /\ S # {})
        BY <2>2
      <3> QED  BY <3>4, <3>5
    <2>3. CASE count < 0 /\ S # {}
      <3>1. s \in [1 .. -count -> S]
        BY <1>1, <1>2, <2>3 DEF Draws
      <3> QED  BY <2>3, <3>1
    <2> QED  BY <1>1, <2>1, <2>2, <2>3
  <1> QED  BY <1>1, <1>2, <1>3, <1>4, SameReplies DEF AdapterPromise!AdapterSetAnswer
----------------------------------------------------------------------------
(* The methods on sorted sets that differ from a command *)

LEMMA ZSetChangedTyped ==
  ASSUME TypeInv, UNCHANGED <<strings, hashes, lists, sets>>, ReplyOK', NEW k \in Keys, NEW z,
         IsMap(z, Numbers), IsFiniteSet(DOMAIN z),
         UNCHANGED zsets \/ zsets' = [zsets EXCEPT ![k] = z]
  PROVE  TypeInv'
  <1>1. ZSetsOK' /\ \A q \in Keys \ {k} : zsets'[q] = zsets[q]
    BY DEF TypeInv, ZSetsOK
  <1>2. HashesOK' /\ ListsOK' /\ SetsOK'
    BY DEF TypeInv, HashesOK, ListsOK, SetsOK
  <1> QED  BY <1>1, <1>2, OneEntryTyped

LEMMA ZAddPairsRefines ==
  ASSUME TypeInv, NEW k \in Keys, NEW ps \in ListsOf(Values \X Scores) \cup {<<>>},
         NEW apart \in BOOLEAN, UNCHANGED <<strings, hashes, lists, sets>>,
         request' = <<"zAdd", k, ps, apart>>, ZAddPairs(k, ps, apart)
  PROVE  TypeInv' /\ AdapterPromise!AdapterZSetWrite
  <1> DEFINE heard == IF apart /\ Len(ps) >= 2 THEN <<ps[1]>> ELSE ps
  <1>1. ps \in Seq(Values \X Scores)
    <2>1. CASE ps \in ListsOf(Values \X Scores)
      BY <2>1, ListsAreSequences
    <2>2. CASE ps = <<>>
      BY <2>2
    <2> QED  BY <2>1, <2>2
  <1>2. heard \in Seq(Values \X Scores)
    <2>1. CASE apart /\ Len(ps) >= 2
      <3>1. ps[1] \in Values \X Scores
        BY <1>1, <2>1
      <3> QED  BY <2>1, <3>1
    <2>2. CASE ~ (apart /\ Len(ps) >= 2)
      BY <1>1, <2>2
    <2> QED  BY <2>1, <2>2
  <1>3. heard = IF apart /\ Len(ps) > 1 THEN <<ps[1]>> ELSE ps
    BY <1>1
  <1>4. ZSetAdd(k, heard) /\ reply' = Integer(Added(Names(heard), DOMAIN ZSet(k)))
    BY DEF ZAddPairs
  <1> HIDE DEF heard
  <1>5. heard \in Seq(Values \X Numbers) /\ \A i \in DOMAIN heard : heard[i][2] \in Scores
    <2>1. Values \X Scores \subseteq Values \X Numbers
      BY SortedSetsAssumption DEF Numbers
    <2>2. \A i \in DOMAIN heard : heard[i] \in Values \X Scores
      BY <1>2
    <2> QED  BY <1>2, <2>1, <2>2
  <1>6. \E z \in Promise!Overlays(ZSet(k), heard, Promise!AnyScore(k) \cup Scores) :
          Promise!SetZSet(k, z, TRUE)
    BY <1>4, <1>5, ZSetAdded
  <1>7. reply' = Integer(Cardinality(Elements(Names(heard)) \ DOMAIN ZSet(k)))
    <2>1. Names(heard) \in Seq(Values)
      BY <1>2, NamesAreSequences
    <2> QED  BY <1>4, <2>1, AddedCounts
  <1>8. /\ ps \in AdapterPromise!ListsOf(Values \X Scores) \cup {<<>>} /\ Seen(zsets, Empty)[k] = ZSet(k)
        /\ reply' = AdapterPromise!Integer(
                      AdapterPromise!Cardinality(AdapterPromise!Names(heard) \ DOMAIN ZSet(k)))
        /\ \E z \in AdapterPromise!Overlays(ZSet(k), heard, AdapterPromise!AnyScore(k) \cup Scores) :
             AdapterPromise!SetZSet(k, z, TRUE)
    BY <1>6, <1>7, SeenIsFound, SameSequences, SameReplies, SameSortedSets, SameChanges DEF ZSetsSeen
  <1>9. AdapterPromise!AdapterZSetWrite
    BY <1>3, <1>8 DEF AdapterPromise!AdapterZSetWrite
  <1>10. TypeInv'
    <2>1. IsMap(PutAll(ZSet(k), heard), Numbers) /\ IsFiniteSet(DOMAIN PutAll(ZSet(k), heard))
      BY <1>5, Found, PutAllIsMap
    <2> QED  BY <1>4, <2>1, ZSetChangedTyped, ReplyTypes DEF ZSetAdd, ReplyOK
  <1> QED  BY <1>9, <1>10

LEMMA ZRankAnswers ==
  ASSUME TypeInv, NEW k \in Keys, NEW m \in Values, request' = <<"zRank", k, m>>, ZRank(k, m)
  PROVE  UNCHANGED zsets /\ ReplyOK' /\ AdapterPromise!AdapterZSetAnswer
  <1> DEFINE z == ZSet(k)
             D == DOMAIN z
  <1>1. PICK s \in Sorted(D, z) :
          reply' = IF m \in Elements(s) THEN Integer(IndexOf(s, m) - 1) ELSE NullReply
    BY DEF ZRank, IndexOf
  <1>2. s \in AdapterPromise!Listings(z, D) /\ s \in Seq(D) /\ Elements(s) = D
    <2>1. s \in SetToSeqs(D) /\ IsFiniteSet(D)
      BY ZSetValues DEF Sorted
    <2>2. Elements(s) = D
      <3> HIDE DEF D
      <3> QED  BY <2>1, OrderingsListAll
    <2> QED  BY <2>2, SortedListings, SameSortedSets
  <1>3. Seen(zsets, Empty)[k] = z
    BY SeenIsFound DEF ZSetsSeen
  <1>4. UNCHANGED zsets /\ ReplyOK'
    BY ReplyTypes DEF ZRank, ReplyOK
  <1> HIDE DEF z, D
  <1>5. \/ m \notin D /\ reply' = AdapterPromise!NullReply
        \/ \E p \in DOMAIN s : s[p] = m /\ reply' = AdapterPromise!Integer(p - 1)
    <2>1. CASE m \in D
      <3>1. reply' = Integer(IndexOf(s, m) - 1)
        BY <1>1, <1>2, <2>1
      <3>2. IndexOf(s, m) \in DOMAIN s /\ s[IndexOf(s, m)] = m
        BY <1>2, <2>1, IndexOfIs
      <3> QED  BY <3>1, <3>2, SameReplies
    <2>2. CASE m \notin D
      BY <1>1, <1>2, <2>2, SameReplies
    <2> QED  BY <2>1, <2>2
  <1> QED  BY <1>2, <1>3, <1>4, <1>5 DEF AdapterPromise!AdapterZSetAnswer, D

LEMMA SliceIsDistinct ==
  ASSUME NEW S, NEW s \in Seq(S), \A a, b \in 1 .. Len(s) : a # b => s[a] # s[b],
         NEW i \in Int, NEW j \in Int
  PROVE  Cardinality(Elements(Slice(s, i, j))) = Len(Slice(s, i, j))
  <1> DEFINE a == From(i, Len(s)) + 1
             b == To(j, Len(s)) + 1
             t == SubSeq(s, a, b)
             n == IF a <= b THEN b - a + 1 ELSE 0
  <1>1. a \in Int /\ b \in Int /\ a >= 1 /\ b <= Len(s)
    BY DEF From, To
  <1> HIDE DEF a, b
  <1>2. \A q \in a .. b : s[q] \in S
    BY <1>1
  <1>3. t \in Seq(S) /\ Len(t) = n /\ \A q \in 1 .. b - a + 1 : t[q] = s[a + q - 1]
    <2>1. a \in Int /\ b \in Int
      BY <1>1
    <2> QED  BY <1>2, <2>1, SubSeqProperties
  <1> HIDE DEF t
  <1>4. ASSUME NEW p \in 1 .. n, NEW q \in 1 .. n, t[p] = t[q]
        PROVE  p = q
    <2>1. /\ p \in 1 .. b - a + 1 /\ q \in 1 .. b - a + 1
          /\ a + p - 1 \in 1 .. Len(s) /\ a + q - 1 \in 1 .. Len(s)
      BY <1>1
    <2>2. s[a + p - 1] = s[a + q - 1]
      BY <1>3, <1>4, <2>1
    <2>3. a + p - 1 = a + q - 1
      BY <2>1, <2>2
    <2> QED  BY <1>1, <2>1, <2>3
  <1>5. n \in Nat /\ t \in [1 .. n -> S]
    BY <1>1, <1>3
  <1> HIDE DEF n
  <1>6. Cardinality(Elements(t)) = n
    BY <1>4, <1>5, DistinctElements
  <1> QED  BY <1>3, <1>6 DEF Slice, a, b, t

LEMMA ZRemRangeByRankRefines ==
  ASSUME TypeInv, NEW k \in Keys, NEW i \in Indexes, NEW j \in Indexes,
         UNCHANGED <<strings, hashes, lists, sets>>,
         request' = <<"zRemRangeByRank", k, i, j>>, ZRemRangeByRank(k, i, j)
  PROVE  TypeInv' /\ AdapterPromise!AdapterZSetWrite
  <1> DEFINE z == ZSet(k)
             D == DOMAIN z
  <1>1. PICK s \in Sorted(D, z) :
          LET range == Slice(s, i, j)
          IN  /\ reply' = Integer(Len(range))
              /\ zsets' = IF range = <<>> THEN zsets ELSE [zsets EXCEPT ![k] = Without(z, range)]
    BY DEF ZRemRangeByRank
  <1> DEFINE range == Slice(s, i, j)
             left == Without(z, range)
  <1>2. i \in Int /\ j \in Int
    BY CollectionsAssumption
  <1>3. /\ s \in AdapterPromise!Listings(z, D) /\ s \in Seq(D)
        /\ \A a, b \in 1 .. Len(s) : a # b => s[a] # s[b]
    <2>1. s \in SetToSeqs(D) /\ IsFiniteSet(D)
      BY ZSetValues DEF Sorted
    <2>2. \A a, b \in 1 .. Len(s) : a # b => s[a] # s[b]
      <3> HIDE DEF D
      <3> QED  BY <2>1, OrderingsListAll
    <2> QED  BY <2>2, SortedListings, SameSortedSets
  <1>4. range = AdapterPromise!At(s, AdapterPromise!Positions(Len(s), i, j))
    BY <1>2, <1>3, SliceIs, SameSequences
  <1>5. Cardinality(Elements(range)) = Len(range)
    BY <1>2, <1>3, SliceIsDistinct
  <1>6. /\ IsMap(left, Numbers) /\ IsFiniteSet(DOMAIN left) /\ left # NoEntry
        /\ left = Promise!Restricted(z, D \ Elements(range))
    <2>1. IsMap(left, Numbers) /\ IsFiniteSet(DOMAIN left)
      BY Found, WithoutIsMap
    <2> QED  BY <2>1, MapsAreEntries DEF Without, Promise!Restricted
  <1>7. range = <<>> => left = z
    <2>1. ASSUME range = <<>>
          PROVE  D \ Elements(range) = D
      <3>1. Elements(range) = {}
        <4> HIDE DEF range
        <4> QED  BY <2>1 DEF Elements
      <3> QED  BY <3>1
    <2>2. z = [x \in D |-> z[x]]
      BY Found DEF IsMap
    <2> QED  BY <2>1, <2>2 DEF Without
  <1>8. Seen(zsets, Empty)[k] = z
    BY SeenIsFound DEF ZSetsSeen
  <1>9. reply' = Integer(Len(range))
        /\ zsets' = IF range = <<>> THEN zsets ELSE [zsets EXCEPT ![k] = left]
    BY <1>1
  <1> HIDE DEF left, range
  <1>10. Promise!SetZSet(k, left, TRUE)
    <2>1. CASE range = <<>>
      <3>1. Promise!SetZSet(k, z, TRUE)
        BY <1>9, <2>1, ZSetKept
      <3> QED  BY <1>7, <2>1, <3>1
    <2>2. CASE range # <<>>
      <3>1. Promise!SetZSet(k, OrNone(left, Empty), TRUE)
        BY <1>9, <2>2, ZSetWritten
      <3> QED  BY <1>6, <3>1 DEF OrNone
    <2> QED  BY <2>1, <2>2
  <1>11. AdapterPromise!SetZSet(k, AdapterPromise!Restricted(z, D \ AdapterPromise!Elements(range)), TRUE)
    BY <1>6, <1>10, SameChanges, SameSequences DEF AdapterPromise!Restricted, Promise!Restricted
  <1>12. reply' = AdapterPromise!Integer(AdapterPromise!Cardinality(AdapterPromise!Elements(range)))
    BY <1>5, <1>9, SameReplies, SameSequences
  <1>13. AdapterPromise!AdapterZSetWrite
    <2> HIDE DEF z
    <2> QED  BY <1>3, <1>4, <1>8, <1>11, <1>12 DEF AdapterPromise!AdapterZSetWrite
  <1>14. TypeInv'
    BY <1>6, <1>9, ZSetChangedTyped, ReplyTypes DEF ReplyOK
  <1> QED  BY <1>13, <1>14
----------------------------------------------------------------------------
(* The methods on keys that differ from a command *)

LEMMA ExistsAnyAnswers ==
  ASSUME TypeInv, HashesHold, NEW k \in Keys, request' = <<"exists", k>>, ExistsAny(k)
  PROVE  TypeInv' /\ HashesHold' /\ AdapterPromise!AdapterKeyspace
  <1>1. AdapterPromise!Present = AllKeys
    BY PresentIsAllKeys, SameKeyTypes
  <1>2. UNCHANGED <<strings, HashesSeen, ListsSeen, SetsSeen, ZSetsSeen, Husks>>
    BY UnchangedMaps DEF ExistsAny, stores
  <1>3. AdapterPromise!AdapterKeyspace
    BY <1>1, <1>2, SameReplies
       DEF ExistsAny, AdapterPromise!AdapterKeyspace, HashesSeen, ListsSeen, SetsSeen, ZSetsSeen, Husks
  <1>4. TypeInv' /\ HashesHold'
    BY UnchangedTyped, ReplyTypes DEF ExistsAny, ReplyOK, HashesHold, stores
  <1> QED  BY <1>3, <1>4

(* A map of which one entry moved.                                         *)
LEMMA MovedIs ==
  ASSUME NEW m, DOMAIN m = Keys, NEW k \in Keys, NEW n \in Keys
  PROVE  /\ DOMAIN Moved(m, k, n) = Keys
         /\ \A x \in Keys : Moved(m, k, n)[x] = IF x = k THEN NoEntry ELSE IF x = n THEN m[k] ELSE m[x]
  BY DEF Moved

LEMMA MovedIsSeen ==
  ASSUME NEW m, DOMAIN m = Keys, NEW k \in Keys, NEW n \in Keys, NEW none
  PROVE  Seen(Moved(m, k, n), none) = [Seen(m, none) EXCEPT ![n] = Seen(m, none)[k], ![k] = none]
  <1> DEFINE a == Moved(m, k, n)
             b == Seen(m, none)
             c == [b EXCEPT ![n] = b[k], ![k] = none]
  <1>1. \A x \in Keys : b[x] = IF m[x] = NoEntry THEN none ELSE m[x]
    BY DEF Seen
  <1>2. DOMAIN b = Keys
    BY DEF Seen
  <1> HIDE DEF b
  <1>3. DOMAIN c = Keys /\ \A x \in Keys : c[x] = IF x = k THEN none ELSE IF x = n THEN b[k] ELSE b[x]
    BY <1>2
  <1>4. \A x \in Keys : a[x] = IF x = k THEN NoEntry ELSE IF x = n THEN m[k] ELSE m[x]
    BY MovedIs
  <1>5. c = [x \in Keys |-> c[x]]
    BY <1>2
  <1> HIDE DEF a, c
  <1>6. \A x \in Keys : c[x] = IF a[x] = NoEntry THEN none ELSE a[x]
    BY <1>1, <1>3, <1>4
  <1> QED  BY <1>5, <1>6 DEF Seen, a, b, c

(* The husks of one type, when an entry of that type moved.                *)
HusksIn(t, m, e) == {<<t, q>> : q \in {x \in Keys : m[x] = e}}
Moves(t, k, n, H, I) ==
  I = (H \ {<<t, k>>, <<t, n>>}) \cup (IF <<t, k>> \in H /\ k # n THEN {<<t, n>>} ELSE {})
LEMMA HusksMoved ==
  ASSUME NEW m, DOMAIN m = Keys, NEW k \in Keys, NEW n \in Keys, NEW e, e # NoEntry, NEW t,
         NEW R, \A q : <<t, q>> \notin R
  PROVE  Moves(t, k, n, HusksIn(t, m, e) \cup R, HusksIn(t, Moved(m, k, n), e) \cup R)
  <1> DEFINE L == {x \in Keys : m[x] = e}
             M == {x \in Keys : Moved(m, k, n)[x] = e}
             H == HusksIn(t, m, e) \cup R
             I == HusksIn(t, Moved(m, k, n), e) \cup R
  <1>1. M = (L \ {k, n}) \cup (IF k \in L /\ k # n THEN {n} ELSE {})
    BY MovedIs
  <1> HIDE DEF L, M
  <1>2. H = {<<t, q>> : q \in L} \cup R /\ I = {<<t, q>> : q \in M} \cup R
    BY DEF HusksIn, L, M, H, I
  <1> HIDE DEF H, I
  <1>3. <<t, k>> \in H <=> k \in L
    BY <1>2
  <1>4. ASSUME k \in L /\ k # n
        PROVE  Moves(t, k, n, H, I)
    BY <1>1, <1>2, <1>3, <1>4 DEF Moves
  <1>5. ASSUME ~ (k \in L /\ k # n)
        PROVE  Moves(t, k, n, H, I)
    <2>1. M = L \ {k, n}
      BY <1>1, <1>5
    <2> QED  BY <1>2, <1>3, <1>5, <2>1 DEF Moves
  <1>6. Moves(t, k, n, H, I)
    BY <1>4, <1>5
  <1> QED  BY <1>6 DEF H, I

LEMMA RenameMoves ==
  ASSUME TypeInv, HashesHold, NEW k \in Keys, NEW n \in Keys, KeyType(k) # "none", Rename(k, n)
  PROVE  AdapterPromise!Rename(k, n)
  <1> DEFINE t == KeyType(k)
             LE == HusksIn("list", lists, Empty)
             SE == HusksIn("set", sets, {})
             ZE == HusksIn("zset", zsets, Empty)
  <1>1. AdapterPromise!FirstType(k) = t
    BY FirstTypeIs, SameKeyTypes
  <1>2. /\ DOMAIN hashes = Keys /\ DOMAIN lists = Keys /\ DOMAIN sets = Keys /\ DOMAIN zsets = Keys
        /\ Empty # NoEntry /\ {} # NoEntry
    BY NoEntryIsNotEmpty DEF TypeInv, HashesOK, ListsOK, SetsOK, ZSetsOK
  <1>3. t \in {"string", "hash", "list", "set", "zset"}
    BY DEF KeyType
  <1>4. /\ Husks = LE \cup SE \cup ZE
        /\ Husks' = HusksIn("list", lists', Empty) \cup HusksIn("set", sets', {})
                     \cup HusksIn("zset", zsets', Empty)
    BY DEF Husks, HusksOf, HusksIn, Empty
  <1>5. /\ strings' = IF t = "string" THEN (strings \cup {n}) \ {k} ELSE strings
        /\ hashes' = IF t = "hash" THEN Moved(hashes, k, n) ELSE hashes
        /\ lists' = IF t = "list" THEN Moved(lists, k, n) ELSE lists
        /\ sets' = IF t = "set" THEN Moved(sets, k, n) ELSE sets
        /\ zsets' = IF t = "zset" THEN Moved(zsets, k, n) ELSE zsets
    BY DEF Rename
  <1> HIDE DEF t
  <1>6. HashesSeen' = IF t = "hash" THEN [HashesSeen EXCEPT ![n] = HashesSeen[k], ![k] = <<>>]
                      ELSE HashesSeen
    BY <1>2, <1>5, MovedIsSeen, UnchangedMaps DEF HashesSeen, Empty
  <1>7. ListsSeen' = IF t = "list" THEN [ListsSeen EXCEPT ![n] = ListsSeen[k], ![k] = <<>>]
                     ELSE ListsSeen
    BY <1>2, <1>5, MovedIsSeen, UnchangedMaps DEF ListsSeen, Empty
  <1>8. SetsSeen' = IF t = "set" THEN [SetsSeen EXCEPT ![n] = SetsSeen[k], ![k] = {}] ELSE SetsSeen
    <2>1. CASE t = "set"
      <3>1. SetsSeen' = Seen(Moved(sets, k, n), {})
        BY <1>5, <2>1 DEF SetsSeen, Seen
      <3>2. Seen(Moved(sets, k, n), {}) = [Seen(sets, {}) EXCEPT ![n] = Seen(sets, {})[k], ![k] = {}]
        BY <1>2, MovedIsSeen
      <3> QED  BY <2>1, <3>1, <3>2 DEF SetsSeen
    <2>2. CASE t # "set"
      BY <1>5, <2>2, UnchangedMaps
    <2> QED  BY <2>1, <2>2
  <1>9. ZSetsSeen' = IF t = "zset" THEN [ZSetsSeen EXCEPT ![n] = ZSetsSeen[k], ![k] = <<>>]
                     ELSE ZSetsSeen
    BY <1>2, <1>5, MovedIsSeen, UnchangedMaps DEF ZSetsSeen, Empty
  <1>10. Moves(t, k, n, Husks, Husks')
    <2>1. CASE t \in {"string", "hash"}
      <3>1. UNCHANGED <<lists, sets, zsets>>
        BY <1>5, <2>1
      <3>2. <<t, k>> \notin Husks /\ <<t, n>> \notin Husks
        BY <2>1, HusksAre
      <3> QED  BY <3>1, <3>2, UnchangedMaps DEF Moves
    <2>2. CASE t = "list"
      <3> DEFINE R == SE \cup ZE
      <3>1. /\ Husks = HusksIn(t, lists, Empty) \cup R
            /\ Husks' = HusksIn(t, Moved(lists, k, n), Empty) \cup R
        BY <1>4, <1>5, <2>2
      <3>2. \A q : <<t, q>> \notin R
        BY <2>2 DEF HusksIn
      <3> HIDE DEF R
      <3>3. Moves(t, k, n, HusksIn(t, lists, Empty) \cup R, HusksIn(t, Moved(lists, k, n), Empty) \cup R)
        BY <1>2, <3>2, HusksMoved
      <3> QED  BY <3>1, <3>3
    <2>3. CASE t = "set"
      <3> DEFINE R == LE \cup ZE
      <3>1. /\ Husks = HusksIn(t, sets, {}) \cup R
            /\ Husks' = HusksIn(t, Moved(sets, k, n), {}) \cup R
        BY <1>4, <1>5, <2>3
      <3>2. \A q : <<t, q>> \notin R
        BY <2>3 DEF HusksIn
      <3> HIDE DEF R
      <3>3. Moves(t, k, n, HusksIn(t, sets, {}) \cup R, HusksIn(t, Moved(sets, k, n), {}) \cup R)
        BY <1>2, <3>2, HusksMoved
      <3> QED  BY <3>1, <3>3
    <2>4. CASE t = "zset"
      <3> DEFINE R == LE \cup SE
      <3>1. /\ Husks = HusksIn(t, zsets, Empty) \cup R
            /\ Husks' = HusksIn(t, Moved(zsets, k, n), Empty) \cup R
        BY <1>4, <1>5, <2>4
      <3>2. \A q : <<t, q>> \notin R
        BY <2>4 DEF HusksIn
      <3> HIDE DEF R
      <3>3. Moves(t, k, n, HusksIn(t, zsets, Empty) \cup R, HusksIn(t, Moved(zsets, k, n), Empty) \cup R)
        BY <1>2, <3>2, HusksMoved
      <3> QED  BY <3>1, <3>3
    <2> QED  BY <1>3, <2>1, <2>2, <2>3, <2>4
  <1> QED  BY <1>1, <1>5, <1>6, <1>7, <1>8, <1>9, <1>10
           DEF Moves, AdapterPromise!Rename, HashesSeen, ListsSeen, SetsSeen, ZSetsSeen, Husks

LEMMA RenameTyped ==
  ASSUME TypeInv, HashesHold, NEW k \in Keys, NEW n \in Keys, Rename(k, n), ReplyOK'
  PROVE  TypeInv' /\ HashesHold'
  <1> DEFINE After(m, new) == new \in {m, Moved(m, k, n)}
  <1>1. /\ HashesOK /\ ListsOK /\ SetsOK /\ ZSetsOK
        /\ DOMAIN hashes = Keys /\ DOMAIN lists = Keys /\ DOMAIN sets = Keys /\ DOMAIN zsets = Keys
    BY DEF TypeInv, HashesOK, ListsOK, SetsOK, ZSetsOK
  <1>2. /\ After(hashes, hashes') /\ After(lists, lists') /\ After(sets, sets') /\ After(zsets, zsets')
        /\ strings' \subseteq strings \cup {n}
    BY DEF Rename, stores
  <1>3. ASSUME NEW m, DOMAIN m = Keys, NEW new, After(m, new), NEW x \in Keys
        PROVE  new[x] \in {NoEntry, m[k], m[x]} /\ (x # n => new[x] \in {NoEntry, m[x]})
               /\ DOMAIN new = Keys
    BY <1>3, MovedIs
  <1> HIDE DEF After
  <1>4. HashesOK' /\ HashesHold' /\ HashKeys' \subseteq HashKeys \cup {n}
    <2>1. DOMAIN hashes' = Keys
      BY <1>1, <1>2, <1>3
    <2>2. \A x \in Keys : hashes'[x] \in {NoEntry, hashes[k], hashes[x]}
                          /\ (x # n => hashes'[x] \in {NoEntry, hashes[x]})
      BY <1>1, <1>2, <1>3
    <2> QED  BY <1>1, <2>1, <2>2, NoEntryIsNotEmpty DEF HashesOK, HashesHold, HashKeys
  <1>5. ListsOK' /\ ListKeys' \subseteq ListKeys \cup {n}
    <2>1. \A x \in Keys : lists'[x] \in {NoEntry, lists[k], lists[x]}
                          /\ (x # n => lists'[x] \in {NoEntry, lists[x]})
      BY <1>1, <1>2, <1>3
    <2>2. DOMAIN lists' = Keys
      BY <1>1, <1>2, <1>3
    <2> QED  BY <1>1, <2>1, <2>2 DEF ListsOK, ListKeys
  <1>6. SetsOK' /\ SetKeys' \subseteq SetKeys \cup {n}
    <2>1. \A x \in Keys : sets'[x] \in {NoEntry, sets[k], sets[x]}
                          /\ (x # n => sets'[x] \in {NoEntry, sets[x]})
      BY <1>1, <1>2, <1>3
    <2>2. DOMAIN sets' = Keys
      BY <1>1, <1>2, <1>3
    <2> QED  BY <1>1, <2>1, <2>2 DEF SetsOK, SetKeys
  <1>7. ZSetsOK' /\ ZSetKeys' \subseteq ZSetKeys \cup {n}
    <2>1. \A x \in Keys : zsets'[x] \in {NoEntry, zsets[k], zsets[x]}
                          /\ (x # n => zsets'[x] \in {NoEntry, zsets[x]})
      BY <1>1, <1>2, <1>3
    <2>2. DOMAIN zsets' = Keys
      BY <1>1, <1>2, <1>3
    <2> QED  BY <1>1, <2>1, <2>2 DEF ZSetsOK, ZSetKeys
  <1>8. IsFiniteSet(AllKeys')
    <2>1. AllKeys' \subseteq AllKeys \cup {n}
      BY <1>2, <1>4, <1>5, <1>6, <1>7 DEF AllKeys
    <2> QED  BY <2>1, OneKeyMore
  <1> QED  BY <1>2, <1>4, <1>5, <1>6, <1>7, <1>8 DEF TypeInv

LEMMA RenameRefines ==
  ASSUME TypeInv, HashesHold, NEW k \in Keys, NEW n \in Keys,
         request' = <<"rename", k, n>>, Rename(k, n)
  PROVE  TypeInv' /\ HashesHold' /\ AdapterPromise!AdapterKeyspace
  <1>1. KeyType(k) # "none" <=> k \in AdapterPromise!Present
    <2>1. AdapterPromise!Present = AllKeys
      BY PresentIsAllKeys, SameKeyTypes
    <2> QED  BY <2>1 DEF KeyType, AllKeys
  <1>2. TypeInv' /\ HashesHold'
    <2>1. ReplyOK'
      BY ReplyTypes DEF Rename, ReplyOK
    <2> QED  BY <2>1, RenameTyped
  <1>3. CASE KeyType(k) = "none"
    <2>1. reply' = Error /\ UNCHANGED stores
      BY <1>3 DEF Rename
    <2>2. UNCHANGED <<strings, HashesSeen, ListsSeen, SetsSeen, ZSetsSeen, Husks>>
      BY <2>1, UnchangedMaps DEF stores
    <2> QED  BY <1>1, <1>2, <1>3, <2>1, <2>2, SameReplies
             DEF AdapterPromise!AdapterKeyspace, HashesSeen, ListsSeen, SetsSeen, ZSetsSeen, Husks
  <1>4. CASE KeyType(k) # "none"
    <2>1. reply' = OK /\ AdapterPromise!Rename(k, n)
      BY <1>4, RenameMoves DEF Rename
    <2> QED  BY <1>1, <1>2, <1>4, <2>1, SameReplies DEF AdapterPromise!AdapterKeyspace
  <1> QED  BY <1>3, <1>4
----------------------------------------------------------------------------
(* The methods on databases *)

Elsewhere == [i \in Dbs |-> Contained(shelf[i])]

LEMMA CurrentIsHere == Contained(Current) = AdapterPromise!Here
  <1>1. /\ Current.strings = strings /\ Current.hashes = hashes /\ Current.lists = lists
        /\ Current.sets = sets /\ Current.zsets = zsets
    BY DEF Current
  <1> QED  BY <1>1 DEF Contained, AdapterPromise!Here

LEMMA NewDbHasNothing == Contained(NewDb) = AdapterPromise!Nothing
  <1>1. Seen(NoMap, Empty) = [k \in Keys |-> <<>>] /\ Seen(NoMap, {}) = [k \in Keys |-> {}]
    BY DEF Seen, NoMap, Empty
  <1>2. HusksOf(NoMap, NoMap, NoMap) = {}
    BY NoEntryIsNotEmpty DEF HusksOf, NoMap
  <1>3. /\ NewDb.strings = {} /\ NewDb.hashes = NoMap /\ NewDb.lists = NoMap
        /\ NewDb.sets = NoMap /\ NewDb.zsets = NoMap
    BY DEF NewDb
  <1> HIDE DEF NoMap, NewDb
  <1> QED  BY <1>1, <1>2, <1>3 DEF Contained, AdapterPromise!Nothing

(* What the next state holds, of the database that is current in it.       *)
LEMMA TypedAfter == (DatabaseOK(Current) /\ ReplyOK)' <=> (TypeInv /\ HashesHold)'
  BY DatabaseIsTyped, PTL

LEMMA SelectKeeps ==
  ASSUME AdapterInv, NEW i \in Dbs, Select(i)
  PROVE  AdapterInv'
  <1> DEFINE db == Databases[i]
  <1>1. DOMAIN shelf = Dbs /\ dbIndex \in Dbs /\ \A j \in Dbs : DatabaseOK(shelf[j])
    BY DEF AdapterInv, ShelfOK
  <1>2. DOMAIN Databases = Dbs /\ \A j \in Dbs : Databases[j] = IF j = dbIndex THEN Current ELSE shelf[j]
    BY <1>1 DEF Databases
  <1>3. \A j \in Dbs : DatabaseOK(Databases[j])
    BY <1>1, <1>2 DEF AdapterInv
  <1> HIDE DEF db
  <1>4. DatabaseOK(Current')
    <2>1. /\ Current'.strings = db.strings /\ Current'.hashes = db.hashes
          /\ Current'.lists = db.lists /\ Current'.sets = db.sets /\ Current'.zsets = db.zsets
      BY DEF Current, Select, db
    <2>2. DatabaseOK(db)
      BY <1>3 DEF db
    <2> QED  BY <2>1, <2>2 DEF DatabaseOK
  <1>5. ShelfOK'
    <2>1. dbIndex' = i /\ shelf' = [Databases EXCEPT ![i] = NewDb]
      BY DEF Select
    <2>2. DOMAIN shelf' = Dbs /\ shelf'[i] = NewDb
      BY <1>2, <2>1
    <2>3. ASSUME NEW j \in Dbs
          PROVE  DatabaseOK(shelf'[j])
      BY <1>2, <1>3, <2>1, <2>2, NewDbIsOK
    <2>4. \A j \in Dbs : DatabaseOK(shelf[j])'
      BY <2>3 DEF DatabaseOK
    <2> QED  BY <2>1, <2>2, <2>4 DEF ShelfOK
  <1>6. ReplyOK' /\ CallsOK'
    BY ReplyTypes DEF Select, ReplyOK, AdapterInv, CallsOK
  <1> QED  BY <1>4, <1>5, <1>6 DEF AdapterInv

LEMMA SelectRefines ==
  ASSUME AdapterInv, NEW i \in Dbs, Select(i)
  PROVE  AdapterPromise!Select
  <1>1. DOMAIN shelf = Dbs /\ dbIndex \in Dbs /\ shelf[dbIndex] = NewDb
    BY DEF AdapterInv, ShelfOK
  <1>2. DOMAIN Databases = Dbs /\ \A j \in Dbs : Databases[j] = IF j = dbIndex THEN Current ELSE shelf[j]
    BY <1>1 DEF Databases
  <1>3. \A j \in Dbs : shelf'[j] = IF j = i THEN NewDb ELSE Databases[j]
    BY <1>2 DEF Select
  <1>4. /\ request' = <<"select", i>> /\ reply' = AdapterPromise!OK /\ dbIndex' = i
        /\ UNCHANGED continuations
    BY SameReplies DEF Select
  <1>5. CASE i = dbIndex
    <2>1. UNCHANGED <<strings, hashes, lists, sets, zsets>>
      BY <1>2, <1>5 DEF Select, Current
    <2>2. UNCHANGED <<strings, HashesSeen, ListsSeen, SetsSeen, ZSetsSeen, Husks>>
      BY <2>1, UnchangedMaps
    <2>3. \A j \in Dbs : shelf'[j] = shelf[j]
      BY <1>1, <1>2, <1>3, <1>5
    <2>4. UNCHANGED Elsewhere
      BY <2>3 DEF Elsewhere
    <2> QED  BY <1>4, <1>5, <2>2, <2>4
             DEF AdapterPromise!Select, HashesSeen, ListsSeen, SetsSeen, ZSetsSeen, Husks, Elsewhere
  <1>6. CASE i # dbIndex
    <2>1. /\ strings' = shelf[i].strings /\ hashes' = shelf[i].hashes /\ lists' = shelf[i].lists
          /\ sets' = shelf[i].sets /\ zsets' = shelf[i].zsets
      BY <1>2, <1>6 DEF Select
    <2>2. Elsewhere[i] = Contained(shelf[i])
      BY DEF Elsewhere
    <2>3. /\ strings' = Elsewhere[i].text /\ HashesSeen' = Elsewhere[i].hash
          /\ ListsSeen' = Elsewhere[i].list /\ SetsSeen' = Elsewhere[i].set
          /\ ZSetsSeen' = Elsewhere[i].zset /\ Husks' = Elsewhere[i].husks
      BY <2>1, <2>2 DEF Contained, HashesSeen, ListsSeen, SetsSeen, ZSetsSeen, Husks
    <2>4. Elsewhere' = [Elsewhere EXCEPT ![dbIndex] = AdapterPromise!Here, ![i] = AdapterPromise!Nothing]
      <3> DEFINE new == [Elsewhere EXCEPT ![dbIndex] = AdapterPromise!Here, ![i] = AdapterPromise!Nothing]
      <3>1. \A j \in Dbs : Contained(shelf'[j]) =
              IF j = i THEN AdapterPromise!Nothing
              ELSE IF j = dbIndex THEN AdapterPromise!Here ELSE Contained(shelf[j])
        BY <1>2, <1>3, CurrentIsHere, NewDbHasNothing
      <3>2. new = [j \in Dbs |-> IF j = i THEN AdapterPromise!Nothing
                                 ELSE IF j = dbIndex THEN AdapterPromise!Here ELSE Contained(shelf[j])]
        BY <1>1 DEF Elsewhere
      <3>3. Elsewhere' = [j \in Dbs |-> Contained(shelf'[j])]
        BY DEF Elsewhere, Contained
      <3> HIDE DEF new
      <3>4. Elsewhere' = new
        BY <3>1, <3>2, <3>3
      <3> QED  BY <3>4 DEF new
    <2> QED  BY <1>4, <1>6, <2>3, <2>4
             DEF AdapterPromise!Select, AdapterPromise!Move,
                 HashesSeen, ListsSeen, SetsSeen, ZSetsSeen, Husks, Elsewhere
  <1> QED  BY <1>5, <1>6

LEMMA FlushAllRefines ==
  ASSUME AdapterInv, FlushAll
  PROVE  AdapterInv' /\ AdapterPromise!FlushAll
  <1>1. TypeInv /\ HashesHold /\ dbIndex \in Dbs
    BY DatabaseIsTyped DEF AdapterInv, ShelfOK
  <1>2. TypeInv' /\ HashesHold'
    <2>1. AllKeys' \subseteq AllKeys /\ IsFiniteSet(AllKeys)
      BY <1>1, DeleteKeysTyped DEF FlushAll, TypeInv
    <2>2. ReplyOK' /\ IsFiniteSet(AllKeys')
      BY <2>1, ReplyTypes, FS_Subset DEF FlushAll, ReplyOK
    <2> QED  BY <1>1, <2>2, DeleteKeysTyped, DeleteKeysKeeps DEF FlushAll, TypeInv
  <1>3. ShelfOK' /\ CallsOK'
    <2>1. dbIndex' \in Dbs /\ DOMAIN shelf' = Dbs /\ \A j \in Dbs : shelf'[j] = NewDb
      BY <1>1 DEF FlushAll
    <2>2. \A j \in Dbs : DatabaseOK(shelf[j])'
      BY <2>1, NewDbIsOK DEF DatabaseOK
    <2> QED  BY <2>1, <2>2 DEF ShelfOK, FlushAll, AdapterInv, CallsOK
  <1>4. AdapterInv'
    BY <1>2, <1>3, TypedAfter DEF AdapterInv
  <1>5. Elsewhere' = [j \in Dbs |-> AdapterPromise!Nothing]
    <2>1. \A j \in Dbs : Contained(shelf'[j]) = AdapterPromise!Nothing
      BY NewDbHasNothing DEF FlushAll
    <2>2. Elsewhere' = [j \in Dbs |-> Contained(shelf'[j])]
      BY DEF Elsewhere, Contained
    <2> QED  BY <2>1, <2>2
  <1>6. AdapterPromise!Forget(Keys)
    BY <1>1, DeletedIsForgotten, SameChanges DEF FlushAll
  <1>7. AdapterPromise!FlushAll
    BY <1>5, <1>6, SameReplies DEF FlushAll, AdapterPromise!FlushAll, Elsewhere
  <1> QED  BY <1>4, <1>7

(* A database has as many entries as it has keys of each type.             *)
LEMMA DatabaseCounts ==
  ASSUME NEW db, DatabaseOK(db)
  PROVE  /\ IsFiniteSet(AdapterPromise!Typed(Contained(db)))
         /\ Cardinality(AdapterPromise!Typed(Contained(db))) = Size(db)
  <1> DEFINE c == Contained(db)
             P == db.strings
             Q == Entries(db.hashes)
             R == Entries(db.lists)
             S == Entries(db.sets)
             T == Entries(db.zsets)
             LE == {k \in Keys : db.lists[k] = Empty}
             SE == {k \in Keys : db.sets[k] = {}}
             ZE == {k \in Keys : db.zsets[k] = Empty}
             L == {k \in Keys : c.list[k] # <<>>}
             M == {k \in Keys : c.set[k] # {}}
             Z == {k \in Keys : DOMAIN c.zset[k] # {}}
  <1>1. /\ c.text = db.strings /\ c.hash = Seen(db.hashes, Empty) /\ c.list = Seen(db.lists, Empty)
        /\ c.set = Seen(db.sets, {}) /\ c.zset = Seen(db.zsets, Empty)
        /\ c.husks = HusksOf(db.lists, db.sets, db.zsets)
    BY DEF Contained
  <1>2. c.husks = {<<"list", k>> : k \in LE} \cup {<<"set", k>> : k \in SE} \cup {<<"zset", k>> : k \in ZE}
    BY <1>1 DEF HusksOf
  <1> HIDE DEF c
  <1>3. {k \in Keys : DOMAIN c.hash[k] # {}} = Q
    <2>1. ASSUME NEW k \in Keys
          PROVE  DOMAIN c.hash[k] # {} <=> db.hashes[k] # NoEntry
      <3>1. CASE db.hashes[k] = NoEntry
        BY <1>1, <3>1, EmptyDomain DEF Seen
      <3>2. CASE db.hashes[k] # NoEntry
        <4>1. PICK F \in SUBSET Values : db.hashes[k] \in [F -> Values]
          BY <3>2 DEF DatabaseOK, IsMap
        <4>2. db.hashes[k] # Empty
          BY <3>2 DEF DatabaseOK
        <4>3. DOMAIN db.hashes[k] = {} => db.hashes[k] = Empty
          BY <4>1, EmptyIsEmpty
        <4> QED  BY <1>1, <3>2, <4>2, <4>3 DEF Seen
      <3> QED  BY <3>1, <3>2
    <2> QED  BY <2>1 DEF Entries
  <1>4. R = L \cup LE
    BY <1>1, NoEntryIsNotEmpty DEF Seen, Entries, Empty
  <1>5. S = M \cup SE
    BY <1>1, NoEntryIsNotEmpty DEF Seen, Entries
  <1>6. T = Z \cup ZE
    <2>1. ASSUME NEW k \in Keys
          PROVE  k \in T <=> k \in Z \/ k \in ZE
      <3>1. CASE db.zsets[k] = NoEntry
        BY <1>1, <3>1, EmptyDomain, NoEntryIsNotEmpty DEF Seen, Entries
      <3>2. CASE db.zsets[k] # NoEntry
        <4>1. PICK F \in SUBSET Values : db.zsets[k] \in [F -> Numbers]
          BY <3>2 DEF DatabaseOK, IsMap
        <4>2. DOMAIN db.zsets[k] = {} => db.zsets[k] = Empty
          BY <4>1, EmptyIsEmpty
        <4> QED  BY <1>1, <3>2, <4>2 DEF Seen, Entries
      <3> QED  BY <3>1, <3>2
    <2> QED  BY <2>1 DEF Entries
  <1>7. /\ IsFiniteSet(P) /\ IsFiniteSet(Q) /\ IsFiniteSet(R) /\ IsFiniteSet(S) /\ IsFiniteSet(T)
    BY FS_Subset DEF DatabaseOK
  <1>8. Size(db) = Cardinality(P) + Cardinality(Q) + Cardinality(R) + Cardinality(S) + Cardinality(T)
    BY DEF Size
  <1>9. AdapterPromise!Typed(c) =
             {"string"} \X P \cup c.husks \cup {"hash"} \X Q \cup {"list"} \X L
        \cup {"set"} \X M \cup {"zset"} \X Z
    BY <1>1, <1>3 DEF AdapterPromise!Typed
  <1> HIDE DEF P, Q, R, S, T, L, M, Z, LE, SE, ZE
  <1>10. AdapterPromise!Typed(c) = OfTypes(P, Q, R, S, T)
    BY <1>2, <1>4, <1>5, <1>6, <1>9 DEF OfTypes
  <1>11. /\ IsFiniteSet(AdapterPromise!Typed(c))
         /\ Cardinality(AdapterPromise!Typed(c)) = Size(db)
    BY <1>7, <1>8, <1>10, TypesAddUp
  <1> QED  BY <1>11 DEF c

LEMMA RuntimeInfoRefines ==
  ASSUME AdapterInv, GetRuntimeInfo
  PROVE  AdapterInv' /\ AdapterPromise!RuntimeInfo
  <1> DEFINE all == [Elsewhere EXCEPT ![dbIndex] = AdapterPromise!Here]
             A == [i \in Dbs |-> 1 .. Size(Databases[i])]
             B == [i \in Dbs |-> AdapterPromise!Typed(all[i])]
  <1>1. DOMAIN shelf = Dbs /\ dbIndex \in Dbs /\ \A i \in Dbs : DatabaseOK(shelf[i])
    BY DEF AdapterInv, ShelfOK
  <1>2. DOMAIN Databases = Dbs /\ \A i \in Dbs : Databases[i] = IF i = dbIndex THEN Current ELSE shelf[i]
    BY <1>1 DEF Databases
  <1>3. \A i \in Dbs : DatabaseOK(Databases[i]) /\ all[i] = Contained(Databases[i])
    BY <1>1, <1>2, CurrentIsHere DEF AdapterInv, Elsewhere
  <1> HIDE DEF all
  <1>4. ASSUME NEW i \in Dbs
        PROVE  IsFiniteSet(A[i]) /\ IsFiniteSet(B[i]) /\ Cardinality(A[i]) = Cardinality(B[i])
    <2>1. IsFiniteSet(B[i]) /\ Cardinality(B[i]) = Size(Databases[i])
      BY <1>3, DatabaseCounts
    <2>2. Size(Databases[i]) \in Nat
      BY <2>1, FS_CardinalityType
    <2>3. IsFiniteSet(A[i]) /\ Cardinality(A[i]) = Size(Databases[i])
      <3> DEFINE n == Size(Databases[i])
      <3>1. A[i] = 1 .. n
        OBVIOUS
      <3> HIDE DEF n, A
      <3>2. 1 \in Int /\ n \in Nat /\ n \in Int
        BY <2>2 DEF n
      <3>3. IsFiniteSet(1 .. n) /\ Cardinality(1 .. n) = IF 1 > n THEN 0 ELSE n - 1 + 1
        BY <3>2, FS_Interval
      <3> QED  BY <3>1, <3>2, <3>3 DEF n
    <2> QED  BY <2>1, <2>3
  <1>5. A = [i \in Dbs |-> A[i]] /\ B = [i \in Dbs |-> B[i]]
    OBVIOUS
  <1>6. Cardinality(Tagged(Dbs, A)) = Cardinality(Tagged(Dbs, B))
    <2> HIDE DEF A, B
    <2> QED  BY <1>4, SameSizes, AdapterAssumption
  <1>7. /\ {{i} \X A[i] : i \in Dbs} = {{i} \X (1 .. Size(Databases[i])) : i \in Dbs}
        /\ {{i} \X B[i] : i \in Dbs} = {{i} \X AdapterPromise!Typed(all[i]) : i \in Dbs}
    OBVIOUS
  <1>8. TotalKeys = Cardinality(UNION {{i} \X AdapterPromise!Typed(all[i]) : i \in Dbs})
    BY <1>6, <1>7 DEF TotalKeys, Tagged
  <1>9. reply' = AdapterPromise!Integer(AdapterPromise!Cardinality(
                     UNION {{i} \X AdapterPromise!Typed(all[i]) : i \in Dbs}))
    BY <1>8, SameReplies, SameSequences DEF GetRuntimeInfo
  <1>10. UNCHANGED <<strings, HashesSeen, ListsSeen, SetsSeen, ZSetsSeen, Husks, Elsewhere>>
    BY UnchangedMaps DEF GetRuntimeInfo, stores, others, Elsewhere
  <1>11. AdapterPromise!RuntimeInfo
    BY <1>9, <1>10
       DEF GetRuntimeInfo, others, AdapterPromise!RuntimeInfo, all,
           HashesSeen, ListsSeen, SetsSeen, ZSetsSeen, Husks, Elsewhere
  <1>12. AdapterInv'
    <2>1. TypeInv' /\ HashesHold'
      BY DatabaseIsTyped, UnchangedTyped, ReplyTypes
         DEF AdapterInv, GetRuntimeInfo, stores, HashesHold, ReplyOK
    <2> QED  BY <2>1, TypedAfter DEF AdapterInv, GetRuntimeInfo, others, ShelfOK, CallsOK
  <1> QED  BY <1>11, <1>12
----------------------------------------------------------------------------
(* sInterStore *)

LEMMA SInterStoreRefines ==
  ASSUME AdapterInv, NEW d \in Keys, NEW ks \in ListsOf(Keys), SInterStore(d, ks)
  PROVE  AdapterInv' /\ AdapterPromise!InterStore
  <1> DEFINE call == [dest |-> d, members |-> Intersection(ks)]
  <1>1. TypeInv /\ HashesHold
    BY DatabaseIsTyped DEF AdapterInv
  <1>2. AdapterPromise!NarrowFirst(ks) /\ (ReplyOK' => TypeInv')
    BY <1>1, SInterNarrows DEF SInterStore
  <1>3. call \in [dest : Keys, members : {S \in SUBSET Values : IsFiniteSet(S)}]
    BY <1>1, IntersectionIs
  <1>4. call = [dest |-> d, members |-> AdapterPromise!Common(ks)]
    BY <1>1, IntersectionIs
  <1>5. continuations' = Append(continuations, call)
    BY DEF SInterStore
  <1> HIDE DEF call
  <1>6. CallsOK'
    BY <1>3, <1>5 DEF AdapterInv, CallsOK
  <1>7. TypeInv' /\ HashesHold'
    BY <1>1, <1>2 DEF SInterStore, HashesHold, TypeInv, ReplyOK
  <1>8. ShelfOK'
    BY DEF SInterStore, AdapterInv, ShelfOK
  <1>9. UNCHANGED Elsewhere
    BY DEF SInterStore, Elsewhere
  <1>10. AdapterPromise!InterStore
    BY <1>2, <1>4, <1>5, <1>9, SameSequences DEF SInterStore, AdapterPromise!InterStore, Elsewhere
  <1> QED  BY <1>6, <1>7, <1>8, <1>10, TypedAfter DEF AdapterInv

LEMMA StoredRefines ==
  ASSUME AdapterInv, SInterStoreResumed
  PROVE  AdapterInv' /\ AdapterPromise!Store
  <1> DEFINE call == Head(continuations)
             k == call.dest
             ms == call.members
             all == Members(k) \cup ms
  <1>1. TypeInv /\ HashesHold
    BY DatabaseIsTyped DEF AdapterInv
  <1>2. /\ continuations # <<>> /\ continuations' = Tail(continuations)
        /\ sets' = IF ms = {} THEN sets ELSE [sets EXCEPT ![k] = all]
        /\ request' = <<"stored", k>> /\ reply' = Integer(Cardinality(ms))
        /\ UNCHANGED <<strings, hashes, lists, zsets, dbIndex, shelf>>
    BY DEF SInterStoreResumed
  <1>3. call \in [dest : Keys, members : {S \in SUBSET Values : IsFiniteSet(S)}] /\ CallsOK'
    <2> DEFINE C == [dest : Keys, members : {S \in SUBSET Values : IsFiniteSet(S)}]
    <2>1. continuations \in Seq(C)
      BY DEF AdapterInv, CallsOK
    <2> HIDE DEF C
    <2>2. Head(continuations) \in C /\ Tail(continuations) \in Seq(C)
      BY <1>2, <2>1, HeadTailProperties
    <2>3. continuations' \in Seq(C)
      BY <1>2, <2>2
    <2> QED  BY <2>2, <2>3 DEF CallsOK, C
  <1>4. k \in Keys /\ ms \in SUBSET Values /\ IsFiniteSet(ms)
    BY <1>3
  <1>5. Members(k) \in SUBSET Values /\ IsFiniteSet(Members(k)) /\ Seen(sets, {})[k] = Members(k)
    BY <1>1, <1>4, Found, SeenIsFound DEF SetsSeen
  <1> HIDE DEF call, k, ms
  <1>6. all \in SUBSET Values /\ IsFiniteSet(all)
    BY <1>4, <1>5, FS_Union
  <1>7. all # NoEntry /\ (ms # {} => all # {})
    BY <1>6, CollectionsAssumption
  <1> HIDE DEF all
  <1>8. ReplyOK'
    BY <1>2, ReplyTypes DEF ReplyOK
  <1>9. TypeInv'
    BY <1>1, <1>2, <1>4, <1>6, <1>8, SetChangedTyped
  <1>10. AdapterInv'
    <2>1. HashesHold' /\ ShelfOK'
      BY <1>1, <1>2 DEF HashesHold, AdapterInv, ShelfOK
    <2> QED  BY <1>3, <1>9, <2>1, TypedAfter DEF AdapterInv
  <1>11. UNCHANGED Elsewhere
    BY <1>2 DEF Elsewhere
  <1>12. CASE ms = {}
    <2>1. UNCHANGED <<strings, HashesSeen, ListsSeen, SetsSeen, ZSetsSeen, Husks>>
      BY <1>2, <1>12, UnchangedMaps
    <2> QED  BY <1>2, <1>10, <1>11, <1>12, <2>1, SameReplies, SameSequences
             DEF AdapterPromise!Store, Elsewhere, HashesSeen, ListsSeen, SetsSeen, ZSetsSeen, Husks,
                 call, k, ms
  <1>13. CASE ms # {}
    <2>1. Promise!SetSet(k, OrNone(all, {}))
      BY <1>1, <1>2, <1>4, <1>7, <1>13, SetWritten
    <2>2. AdapterPromise!SetSet(k, Seen(sets, {})[k] \cup ms)
      BY <1>5, <1>7, <2>1, SameChanges DEF OrNone, all
    <2> QED  BY <1>2, <1>10, <1>11, <1>13, <2>2, SameReplies, SameSequences
             DEF AdapterPromise!Store, Elsewhere, call, k, ms
  <1> QED  BY <1>12, <1>13
----------------------------------------------------------------------------
(* Every method is a step of the abstract specification *)

LEMMA CommandRefines ==
  ASSUME TypeInv, HashesHold, UNCHANGED others,
         \/ HashCommand /\ UNCHANGED <<strings, lists, sets, zsets>>
         \/ ListCommand /\ UNCHANGED <<strings, hashes, sets, zsets>>
         \/ SetCommand /\ UNCHANGED <<strings, hashes, lists, zsets>>
         \/ ZSetCommand /\ UNCHANGED <<strings, hashes, lists, sets>>
         \/ KeyspaceCommand
  PROVE  TypeInv' /\ HashesHold' /\ AdapterPromise!AdapterNext
  <1>1. TypeInv'
    BY CommandTyped
  <1>2. HashesHold'
    <2>1. ASSUME UNCHANGED hashes
          PROVE  HashesHold'
      BY <2>1 DEF HashesHold
    <2> QED  BY <2>1, HashCommandKeeps, KeyspaceCommandKeeps
  <1>3. Promise!Next
    BY HashRefines, ListsRefine, SetsRefine, ZSetsRefine, KeyspaceRefines
  <1> QED  BY <1>1, <1>2, <1>3, CommandIsMethod

LEMMA MethodIsStep ==
  ASSUME UNCHANGED others,
         \/ AdapterPromise!AdapterListWrite \/ AdapterPromise!AdapterSetWrite
         \/ AdapterPromise!AdapterZSetWrite \/ AdapterPromise!AdapterKeyspace
         \/ /\ UNCHANGED stores
            /\ AdapterPromise!AdapterSetAnswer \/ AdapterPromise!AdapterZSetAnswer
  PROVE  AdapterPromise!AdapterNext
  <1>1. UNCHANGED <<dbIndex, Elsewhere, continuations>>
    BY DEF others, Elsewhere
  <1>2. UNCHANGED stores => UNCHANGED <<strings, HashesSeen, ListsSeen, SetsSeen, ZSetsSeen, Husks>>
    BY UnchangedMaps DEF stores
  <1> QED  BY <1>1, <1>2
           DEF AdapterPromise!AdapterNext, Elsewhere,
               HashesSeen, ListsSeen, SetsSeen, ZSetsSeen, Husks

LEMMA OneArgument ==
  ASSUME NEW S, NEW x \in S
  PROVE  <<x>> \in ListsOf(S)
  <1>1. 1 \in 1 .. MaxArgs
    BY CollectionsAssumption
  <1>2. <<x>> \in [1 .. 1 -> S]
    OBVIOUS
  <1> QED  BY <1>1, <1>2 DEF ListsOf

LEMMA HashMethodRefines ==
  ASSUME TypeInv, HashesHold, UNCHANGED others,
         AdapterHashMethod, UNCHANGED <<strings, lists, sets, zsets>>
  PROVE  TypeInv' /\ HashesHold' /\ AdapterPromise!AdapterNext
  <1>1. HashCommand
    <2>1. ASSUME NEW k \in Keys, NEW f \in Values, NEW v \in Values,
                 request' = <<"HSET", k, <<<<f, v>>>>>> /\ HSet(k, <<<<f, v>>>>)
          PROVE  HashCommand
      <3> DEFINE ps == <<<<f, v>>>>
      <3>1. ps \in ListsOf(Values \X Values)
        BY OneArgument
      <3>2. request' = <<"HSET", k, ps>> /\ HSet(k, ps)
        BY <2>1
      <3> HIDE DEF ps
      <3> QED  BY <3>1, <3>2 DEF HashCommand
    <2>2. ASSUME NEW k \in Keys, NEW f \in Values, request' = <<"HDEL", k, <<f>>>> /\ HDel(k, <<f>>)
          PROVE  HashCommand
      <3> DEFINE fs == <<f>>
      <3>1. fs \in ListsOf(Values)
        BY OneArgument
      <3>2. request' = <<"HDEL", k, fs>> /\ HDel(k, fs)
        BY <2>2
      <3> HIDE DEF fs
      <3> QED  BY <3>1, <3>2 DEF HashCommand
    <2>3. ASSUME NEW k \in Keys,
                 \/ \E f \in Values : \/ request' = <<"HGET", k, f>> /\ HGet(k, f)
                                      \/ request' = <<"HEXISTS", k, f>> /\ HExists(k, f)
                 \/ request' = <<"HLEN", k>> /\ HLen(k)
                 \/ request' = <<"HKEYS", k>> /\ HKeys(k)
                 \/ request' = <<"HGETALL", k>> /\ HGetAll(k)
                 \/ request' = <<"HVALS", k>> /\ HVals(k)
          PROVE  HashCommand
      BY <2>3 DEF HashCommand
    <2> QED  BY <2>1, <2>2, <2>3 DEF AdapterHashMethod
  <1> QED  BY <1>1, CommandRefines

LEMMA ListMethodRefines ==
  ASSUME TypeInv, HashesHold, UNCHANGED others,
         AdapterListMethod, UNCHANGED <<strings, hashes, sets, zsets>>
  PROVE  TypeInv' /\ HashesHold' /\ AdapterPromise!AdapterNext
  <1>1. ASSUME \/ \E k \in Keys, i \in Indexes, j \in Indexes :
                    request' = <<"lTrim", k, i, j>> /\ LTrim(k, i, j)
               \/ \E k \in Keys, before \in BOOLEAN, pivot \in Values, v \in Values :
                    request' = <<"lInsert", k, before, pivot, v>> /\ LInsert(k, before, pivot, v)
        PROVE  TypeInv' /\ HashesHold' /\ AdapterPromise!AdapterNext
    <2>1. TypeInv' /\ AdapterPromise!AdapterListWrite
      BY <1>1, LTrimRefines, LInsertRefines
    <2> QED  BY <2>1, MethodIsStep DEF HashesHold
  <1>2. ASSUME ListCommand
        PROVE  TypeInv' /\ HashesHold' /\ AdapterPromise!AdapterNext
    BY <1>2, CommandRefines
  <1>3. ASSUME NEW k \in Keys,
               \/ \E vs \in ListsOf(Values) : \/ request' = <<"LPUSH", k, vs>> /\ LPush(k, vs)
                                              \/ request' = <<"RPUSH", k, vs>> /\ RPush(k, vs)
               \/ request' = <<"LPOP", k, 1>> /\ LPop(k, 1)
               \/ request' = <<"RPOP", k, 1>> /\ RPop(k, 1)
               \/ request' = <<"LLEN", k>> /\ LLen(k)
               \/ \E i \in Indexes, j \in Indexes : request' = <<"LRANGE", k, i, j>> /\ LRange(k, i, j)
               \/ \E i \in Indexes :
                    \/ request' = <<"LINDEX", k, i>> /\ LIndex(k, i)
                    \/ \E v \in Values : request' = <<"LSET", k, i, v>> /\ LSet(k, i, v)
               \/ \E n \in Counts, v \in Values : request' = <<"LREM", k, n, v>> /\ LRem(k, n, v)
        PROVE  ListCommand
    BY <1>3, AdapterAssumption DEF ListCommand
  <1> QED  BY <1>1, <1>2, <1>3 DEF AdapterListMethod

LEMMA SetMethodRefines ==
  ASSUME TypeInv, HashesHold, UNCHANGED others,
         AdapterSetMethod, UNCHANGED <<strings, hashes, lists, zsets>>
  PROVE  TypeInv' /\ HashesHold' /\ AdapterPromise!AdapterNext
  <1>1. ASSUME \/ \E ks \in ListsOf(Keys) : request' = <<"sInter", ks>> /\ SInter(ks)
               \/ \E k \in Keys, n \in PopCounts : request' = <<"sPop", k, n>> /\ SPopCount(k, n)
        PROVE  TypeInv' /\ HashesHold' /\ AdapterPromise!AdapterNext
    <2>1. TypeInv' /\ AdapterPromise!AdapterSetWrite
      BY <1>1, SInterRefines, SPopCountRefines
    <2> QED  BY <2>1, MethodIsStep DEF HashesHold
  <1>2. ASSUME \/ \E ks \in ListsOf(Keys) : \/ request' = <<"sUnion", ks>> /\ SUnion(ks)
                                            \/ request' = <<"sDiff", ks>> /\ SDiff(ks)
               \/ \E k \in Keys, n \in PopCounts :
                    request' = <<"sRandMember", k, n>> /\ SRandMemberCount(k, n)
        PROVE  TypeInv' /\ HashesHold' /\ AdapterPromise!AdapterNext
    <2>1. UNCHANGED stores /\ ReplyOK' /\ AdapterPromise!AdapterSetAnswer
      BY <1>2, SUnionAnswers, SRandMemberCountAnswers DEF stores
    <2> QED  BY <2>1, MethodIsStep, UnchangedTyped DEF HashesHold, stores
  <1>3. ASSUME SetCommand
        PROVE  TypeInv' /\ HashesHold' /\ AdapterPromise!AdapterNext
    BY <1>3, CommandRefines
  <1>4. ASSUME NEW k \in Keys,
               \/ \E ms \in ListsOf(Values) : \/ request' = <<"SADD", k, ms>> /\ SAdd(k, ms)
                                              \/ request' = <<"SREM", k, ms>> /\ SRem(k, ms)
               \/ \E m \in Values : request' = <<"SISMEMBER", k, m>> /\ SIsMember(k, m)
               \/ request' = <<"SPOP", k>> /\ SPop(k)
               \/ request' = <<"SRANDMEMBER", k>> /\ SRandMember(k)
               \/ request' = <<"SMEMBERS", k>> /\ SMembers(k)
               \/ request' = <<"SCARD", k>> /\ SCard(k)
        PROVE  SetCommand
    BY <1>4 DEF SetCommand
  <1> QED  BY <1>1, <1>2, <1>3, <1>4 DEF AdapterSetMethod

LEMMA ZSetMethodRefines ==
  ASSUME TypeInv, HashesHold, UNCHANGED others,
         AdapterZSetMethod, UNCHANGED <<strings, hashes, lists, sets>>
  PROVE  TypeInv' /\ HashesHold' /\ AdapterPromise!AdapterNext
  <1>1. ASSUME \/ \E k \in Keys, ps \in ListsOf(Values \X Scores) \cup {<<>>}, apart \in BOOLEAN :
                    request' = <<"zAdd", k, ps, apart>> /\ ZAddPairs(k, ps, apart)
               \/ \E k \in Keys, i \in Indexes, j \in Indexes :
                    request' = <<"zRemRangeByRank", k, i, j>> /\ ZRemRangeByRank(k, i, j)
        PROVE  TypeInv' /\ HashesHold' /\ AdapterPromise!AdapterNext
    <2>1. TypeInv' /\ AdapterPromise!AdapterZSetWrite
      BY <1>1, ZAddPairsRefines, ZRemRangeByRankRefines
    <2> QED  BY <2>1, MethodIsStep DEF HashesHold
  <1>2. ASSUME \E k \in Keys, m \in Values : request' = <<"zRank", k, m>> /\ ZRank(k, m)
        PROVE  TypeInv' /\ HashesHold' /\ AdapterPromise!AdapterNext
    <2>1. UNCHANGED stores /\ ReplyOK' /\ AdapterPromise!AdapterZSetAnswer
      BY <1>2, ZRankAnswers DEF stores
    <2> QED  BY <2>1, MethodIsStep, UnchangedTyped DEF HashesHold, stores
  <1>3. ASSUME ZSetCommand
        PROVE  TypeInv' /\ HashesHold' /\ AdapterPromise!AdapterNext
    BY <1>3, CommandRefines
  <1>4. ASSUME NEW k \in Keys,
               \/ \E m \in Values, s \in Scores :
                    request' = <<"ZADD_INCR", k, m, s, FALSE, FALSE>> /\ ZAddIncr(k, m, s, FALSE, FALSE)
               \/ \E ms \in ListsOf(Values) : request' = <<"ZREM", k, ms>> /\ ZRem(k, ms)
               \/ \E m \in Values : request' = <<"ZSCORE", k, m>> /\ ZScore(k, m)
               \/ request' = <<"ZCARD", k>> /\ ZCard(k)
               \/ \E i \in Indexes, j \in Indexes, w \in BOOLEAN :
                    request' = <<"ZRANGE", k, i, j, w>> /\ ZRange(k, i, j, w)
               \/ \E min \in Bounds, max \in Bounds, w \in BOOLEAN :
                    /\ request' = <<"ZRANGEBYSCORE", k, min, max, <<0, 0>>, w>>
                    /\ ZRangeByScore(k, min, max, <<0, 0>>, w)
        PROVE  ZSetCommand
    BY <1>4, AdapterAssumption DEF ZSetCommand
  <1> QED  BY <1>1, <1>2, <1>3, <1>4 DEF AdapterZSetMethod

LEMMA KeyMethodRefines ==
  ASSUME TypeInv, HashesHold, UNCHANGED others, AdapterKeyMethod
  PROVE  TypeInv' /\ HashesHold' /\ AdapterPromise!AdapterNext
  <1>1. ASSUME NEW k \in Keys,
               \/ request' = <<"exists", k>> /\ ExistsAny(k)
               \/ \E n \in Keys : request' = <<"rename", k, n>> /\ Rename(k, n)
        PROVE  TypeInv' /\ HashesHold' /\ AdapterPromise!AdapterNext
    <2>1. TypeInv' /\ HashesHold' /\ AdapterPromise!AdapterKeyspace
      BY <1>1, ExistsAnyAnswers, RenameRefines
    <2> QED  BY <2>1, MethodIsStep
  <1>2. ASSUME KeyspaceCommand
        PROVE  TypeInv' /\ HashesHold' /\ AdapterPromise!AdapterNext
    BY <1>2, CommandRefines
  <1>3. ASSUME \/ \E k \in Keys : \/ request' = <<"SET", k>> /\ SetString(k)
                                  \/ request' = <<"TYPE", k>> /\ Type(k)
               \/ \E ks \in ListsOf(Keys) : request' = <<"DEL", ks>> /\ Del(ks)
               \/ \E P \in SUBSET Keys : request' = <<"KEYS", P>> /\ KeysByPattern(P)
               \/ request' = <<"FLUSHDB">> /\ FlushDb
               \/ request' = <<"DBSIZE">> /\ DbSize
               \/ request' = <<"RANDOMKEY">> /\ RandomKey
        PROVE  KeyspaceCommand
    BY <1>3 DEF KeyspaceCommand
  <1> QED  BY <1>1, <1>2, <1>3 DEF AdapterKeyMethod
----------------------------------------------------------------------------
LEMMA AdapterStep ==
  ASSUME AdapterInv, AdapterNext
  PROVE  AdapterInv' /\ AdapterPromise!AdapterNext
  <1>1. TypeInv /\ HashesHold
    BY DatabaseIsTyped DEF AdapterInv
  <1>2. CASE /\ UNCHANGED others
             /\ \/ AdapterHashMethod /\ UNCHANGED <<strings, lists, sets, zsets>>
                \/ AdapterListMethod /\ UNCHANGED <<strings, hashes, sets, zsets>>
                \/ AdapterSetMethod  /\ UNCHANGED <<strings, hashes, lists, zsets>>
                \/ AdapterZSetMethod /\ UNCHANGED <<strings, hashes, lists, sets>>
                \/ AdapterKeyMethod
    <2>1. TypeInv' /\ HashesHold' /\ AdapterPromise!AdapterNext
      BY <1>1, <1>2, HashMethodRefines, ListMethodRefines, SetMethodRefines, ZSetMethodRefines,
         KeyMethodRefines
    <2>2. ShelfOK' /\ CallsOK'
      BY <1>2 DEF others, AdapterInv, ShelfOK, CallsOK
    <2> QED  BY <2>1, <2>2, TypedAfter DEF AdapterInv
  <1>3. CASE \E i \in Dbs : Select(i)
    BY <1>3, SelectKeeps, SelectRefines DEF AdapterPromise!AdapterNext
  <1>4. CASE FlushAll
    BY <1>4, FlushAllRefines DEF AdapterPromise!AdapterNext
  <1>5. CASE GetRuntimeInfo
    BY <1>5, RuntimeInfoRefines DEF AdapterPromise!AdapterNext
  <1>6. CASE \E d \in Keys, ks \in ListsOf(Keys) : SInterStore(d, ks)
    BY <1>6, SInterStoreRefines DEF AdapterPromise!AdapterNext
  <1>7. CASE SInterStoreResumed
    BY <1>7, StoredRefines DEF AdapterPromise!AdapterNext
  <1> QED  BY <1>2, <1>3, <1>4, <1>5, <1>6, <1>7 DEF AdapterNext

LEMMA AdapterStutter ==
  ASSUME UNCHANGED adapterVars
  PROVE  (AdapterInv => AdapterInv') /\ UNCHANGED AdapterPromise!adapterVars
  <1>1. UNCHANGED <<stores, request, reply, dbIndex, shelf, continuations>>
    BY DEF adapterVars, vars, others
  <1>2. AdapterInv => AdapterInv'
    <2>1. UNCHANGED Current
      BY <1>1 DEF stores, Current
    <2> QED  BY <1>1, <2>1 DEF AdapterInv, DatabaseOK, ReplyOK, ShelfOK, CallsOK
  <1>3. UNCHANGED <<strings, HashesSeen, ListsSeen, SetsSeen, ZSetsSeen, Husks, Elsewhere>>
    BY <1>1, UnchangedMaps DEF stores, Elsewhere
  <1>4. UNCHANGED AdapterPromise!adapterVars
    BY <1>1, <1>3 DEF AdapterPromise!adapterVars, AdapterPromise!vars,
       HashesSeen, ListsSeen, SetsSeen, ZSetsSeen, Husks, Elsewhere
  <1> QED  BY <1>2, <1>4

LEMMA AdapterInitRefines == AdapterInit => AdapterPromise!AdapterInit
  <1> SUFFICES ASSUME AdapterInit
               PROVE  AdapterPromise!AdapterInit
    OBVIOUS
  <1>1. AdapterPromise!Init
    BY InitRefines DEF AdapterInit, Promise!Init, AdapterPromise!Init,
       Promise!NullReply, AdapterPromise!NullReply
  <1>2. Elsewhere = [i \in Dbs |-> AdapterPromise!Nothing]
    BY NewDbHasNothing DEF AdapterInit, Elsewhere
  <1> QED  BY <1>1, <1>2 DEF AdapterInit, AdapterPromise!AdapterInit, Elsewhere

LEMMA AdapterStepOK == AdapterInv /\ [AdapterNext]_adapterVars => AdapterInv'
  BY AdapterStep, AdapterStutter

LEMMA AdapterStepRefines ==
  AdapterInv /\ [AdapterNext]_adapterVars
    => [AdapterPromise!AdapterNext]_AdapterPromise!adapterVars
  BY AdapterStep, AdapterStutter

(* Every method of the adapter answers, and changes the databases, as the  *)
(* commands of the server promise where it does what one of them does, and *)
(* for the rest as AdapterContents says: whatever was renamed, trimmed,    *)
(* intersected, flushed or selected before it, and whatever ran while any  *)
(* number of calls of sInterStore waited (adapter.js, its methods on       *)
(* collections, keys and databases).                                       *)
THEOREM AdapterKeepsPromise == AdapterSpec => AdapterKeepsContents
  BY AdapterInitOK, AdapterStepOK, AdapterInitRefines, AdapterStepRefines, PTL
     DEF AdapterSpec, AdapterKeepsContents, AdapterPromise!AdapterSpec

(* The databases of an adapter, selected or on the shelf, hold at all      *)
(* times what their methods put in them, only finitely much of it, and no  *)
(* empty hash; what a call of sInterStore has yet to store is a finite set *)
(* of values.  Empty lists, sorted sets and, unlike on the server, empty   *)
(* sets may be stored (lTrim, zRemRangeByRank and sInter of adapter.js).   *)
THEOREM AdapterStaysTyped == AdapterSpec => []AdapterInv
  BY AdapterInitOK, AdapterStepOK, PTL DEF AdapterSpec
=============================================================================
