-------------------------------- MODULE Sets --------------------------------
(* The set commands of the JavaScript server (commands/set.js) over        *)
(* Database.sets.                                                          *)
EXTENDS Collections

VARIABLE sets   \* key -> its members, or NoEntry

Members(k) == IF sets[k] = NoEntry THEN {} ELSE sets[k]

(* setRemove deletes a set whose last member goes.                         *)
SetRemove(k, ms) ==
  sets' = [sets EXCEPT ![k] =
             IF Members(k) \subseteq Elements(ms) THEN NoEntry ELSE Members(k) \ Elements(ms)]

SAdd(k, ms) ==
  /\ sets' = [sets EXCEPT ![k] = Members(k) \cup Elements(ms)]
  /\ reply' = Integer(Added(ms, Members(k)))

SRem(k, ms) ==
  /\ SetRemove(k, ms)
  /\ reply' = Integer(Removed(ms, Members(k)))

SPop(k) ==   \* Math.random picks the member
  \/ Members(k) = {} /\ reply' = NullReply /\ UNCHANGED sets
  \/ \E m \in Members(k) : SetRemove(k, <<m>>) /\ reply' = Bulk(m)

SRandMember(k) ==
  /\ UNCHANGED sets
  /\ \/ Members(k) = {} /\ reply' = NullReply
     \/ \E m \in Members(k) : reply' = Bulk(m)

SIsMember(k, m) == reply' = Integer(IF m \in Members(k) THEN 1 ELSE 0) /\ UNCHANGED sets
SMembers(k) == reply' = Unordered(Members(k)) /\ UNCHANGED sets
SCard(k) == reply' = Integer(Cardinality(Members(k))) /\ UNCHANGED sets

SetCommand ==
  \/ \E k \in Keys, ms \in ListsOf(Values) :
       \/ request' = <<"SADD", k, ms>> /\ SAdd(k, ms)
       \/ request' = <<"SREM", k, ms>> /\ SRem(k, ms)
  \/ \E k \in Keys, m \in Values : request' = <<"SISMEMBER", k, m>> /\ SIsMember(k, m)
  \/ \E k \in Keys :
       \/ request' = <<"SPOP", k>> /\ SPop(k)
       \/ request' = <<"SRANDMEMBER", k>> /\ SRandMember(k)
       \/ request' = <<"SMEMBERS", k>> /\ SMembers(k)
       \/ request' = <<"SCARD", k>> /\ SCard(k)
=============================================================================
