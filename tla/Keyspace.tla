------------------------------ MODULE Keyspace ------------------------------
(***************************************************************************)
(* One Database of the JavaScript server with its five maps, and the       *)
(* commands on the keyspace, which look at all of them: DEL, TYPE, KEYS,   *)
(* DBSIZE, RANDOMKEY, FLUSHDB.  EXISTS looks at the strings only.  A key   *)
(* may be in several maps: no command checks the type of the key it is     *)
(* given.                                                                  *)
(*                                                                         *)
(* Of the strings only the keys are kept here (the module Strings has the  *)
(* rest), and none of them has a deadline.                                 *)
(***************************************************************************)
EXTENDS Hashes, Lists, Sets, SortedSets

CONSTANT MaxEntries   \* bound: the entries of the five maps together

VARIABLE strings      \* the keys of Database.strings

stores == <<strings, hashes, lists, sets, zsets>>
vars == <<stores, request, reply>>

HashKeys == {k \in Keys : hashes[k] # NoEntry}
ListKeys == {k \in Keys : lists[k] # NoEntry}
SetKeys  == {k \in Keys : sets[k] # NoEntry}
ZSetKeys == {k \in Keys : zsets[k] # NoEntry}
AllKeys  == strings \cup HashKeys \cup ListKeys \cup SetKeys \cup ZSetKeys

DbEntries == Cardinality(strings) + Cardinality(HashKeys) + Cardinality(ListKeys)
             + Cardinality(SetKeys) + Cardinality(ZSetKeys)

Drop(map, K) == [k \in Keys |-> IF k \in K THEN NoEntry ELSE map[k]]

DeleteKeys_NotZSets(K) ==
  /\ strings' = strings \ K
  /\ hashes' = Drop(hashes, K) /\ lists' = Drop(lists, K) /\ sets' = Drop(sets, K)
  /\ UNCHANGED zsets
DeleteKeys(K) ==
  /\ strings' = strings \ K
  /\ hashes' = Drop(hashes, K) /\ lists' = Drop(lists, K)
  /\ sets' = Drop(sets, K) /\ zsets' = Drop(zsets, K)
----------------------------------------------------------------------------
SetString(k) == strings' = strings \cup {k} /\ reply' = OK /\ UNCHANGED <<hashes, lists, sets, zsets>>

(* deleteKeys: each key counts once, however many maps it is in.           *)
Del(ks) ==
  /\ DeleteKeys(Elements(ks))
  /\ reply' = Integer(Removed(ks, AllKeys))

FlushDb == DeleteKeys(Keys) /\ reply' = OK

Exists(ks) ==
  /\ reply' = Integer(Cardinality({i \in DOMAIN ks : ks[i] \in strings}))
  /\ UNCHANGED stores

KeyType(k) ==
  CASE k \in strings -> "string"
    [] k \notin strings /\ k \in HashKeys -> "hash"
    [] k \notin strings \cup HashKeys /\ k \in ListKeys -> "list"
    [] k \notin strings \cup HashKeys \cup ListKeys /\ k \in SetKeys -> "set"
    [] k \notin strings \cup HashKeys \cup ListKeys \cup SetKeys /\ k \in ZSetKeys -> "zset"
    [] OTHER -> "none"
Type(k) == reply' = Simple(KeyType(k)) /\ UNCHANGED stores

(* KEYS, with the pattern given as the set of keys it matches.             *)
KeysByPattern(P) == reply' = Unordered(AllKeys \cap P) /\ UNCHANGED stores
DbSize == reply' = Integer(DbEntries) /\ UNCHANGED stores
RandomKey ==
  /\ \/ AllKeys = {} /\ reply' = NullReply
     \/ \E k \in AllKeys : reply' = Bulk(k)
  /\ UNCHANGED stores

KeyspaceCommand ==
  \/ \E k \in Keys :
       \/ request' = <<"SET", k>> /\ SetString(k)
       \/ request' = <<"TYPE", k>> /\ Type(k)
  \/ \E ks \in ListsOf(Keys) :
       \/ request' = <<"DEL", ks>> /\ Del(ks)
       \/ request' = <<"EXISTS", ks>> /\ Exists(ks)
  \/ \E P \in SUBSET Keys : request' = <<"KEYS", P>> /\ KeysByPattern(P)
  \/ request' = <<"FLUSHDB">> /\ FlushDb
  \/ request' = <<"DBSIZE">> /\ DbSize
  \/ request' = <<"RANDOMKEY">> /\ RandomKey
----------------------------------------------------------------------------
Init ==
  /\ strings = {}
  /\ hashes = [k \in Keys |-> NoEntry] /\ lists = [k \in Keys |-> NoEntry]
  /\ sets = [k \in Keys |-> NoEntry] /\ zsets = [k \in Keys |-> NoEntry]
  /\ request = <<"NONE">> /\ reply = NullReply

Next ==
  /\ \/ HashCommand /\ UNCHANGED <<strings, lists, sets, zsets>>
     \/ ListCommand /\ UNCHANGED <<strings, hashes, sets, zsets>>
     \/ SetCommand  /\ UNCHANGED <<strings, hashes, lists, zsets>>
     \/ ZSetCommand /\ UNCHANGED <<strings, hashes, lists, sets>>
     \/ KeyspaceCommand
  /\ DbEntries' <= MaxEntries

Spec == Init /\ [][Next]_vars
----------------------------------------------------------------------------
(* Properties *)

(* Every map holds what its commands put in it.                            *)
TypeOK ==
  /\ strings \subseteq Keys
  /\ {DOMAIN hashes, DOMAIN lists, DOMAIN sets, DOMAIN zsets} = {Keys}
  /\ \A k \in HashKeys : IsMap(hashes[k], Values)
  /\ \A k \in ListKeys : lists[k] \in Seq(Values)
  /\ \A k \in SetKeys : sets[k] \in SUBSET Values
  /\ \A k \in ZSetKeys : IsMap(zsets[k], {NaN} \cup Int)
  /\ reply.type \in {"simple", "integer", "bulk", "array", "unordered", "null", "error"}

(* A hash or a set that is stored is not empty, whatever sequence of       *)
(* commands built it up and took it apart: delHashField and setRemove      *)
(* discard the entry with its last element.                                *)
HashesAndSetsHoldSomething == \A k \in Keys : hashes[k] # Empty /\ sets[k] # {}

(* Every command answers, and changes the database, as over collections    *)
(* that exist without being created and are never discarded, but for the   *)
(* husks of lists and sorted sets.                                         *)
Seen(map, none) == [k \in Keys |-> IF map[k] = NoEntry THEN none ELSE map[k]]
HusksOf(ls, ss, zs) ==
  {<<"list", k>> : k \in {x \in Keys : ls[x] = Empty}}
  \cup {<<"set", k>> : k \in {x \in Keys : ss[x] = {}}}
  \cup {<<"zset", k>> : k \in {x \in Keys : zs[x] = Empty}}
Promise == INSTANCE Contents
             WITH text <- strings, husks <- HusksOf(lists, sets, zsets),
                  hash <- Seen(hashes, Empty), list <- Seen(lists, Empty),
                  set <- Seen(sets, {}), zset <- Seen(zsets, Empty)
KeepsContents == Promise!Spec
=============================================================================
