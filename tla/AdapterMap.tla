----------------------------- MODULE AdapterMap -----------------------------
(***************************************************************************)
(* What the adapter's methods on strings promise, as ExpiringMap does for  *)
(* the commands of the server.  Nothing is collected on the store's own    *)
(* account.  EXISTS, and all that moves or counts keys, take a corpse for  *)
(* a key; TTL collects it.                                                 *)
(***************************************************************************)
EXTENDS ExpiringMap

CONSTANTS
  NaNText,            \* "NaN", what a counter holds after it was given no number
  Ranges,             \* arguments of getRange
  Substring(_, _, _)  \* the characters of a text from one index up to another

(* A text that is no number counts as 0, and a sum that is none is stored. *)
Count(k, d) ==
  LET seen == IF Visible(k) = Nil THEN NaN ELSE ParseInt(Visible(k))
      old  == IF seen = NaN THEN 0 ELSE seen
  IN  \/ d = NaN /\ reply' = Integer(NaN) /\ Write(k, NaNText)
      \/ d # NaN /\ reply' = Integer(old + d) /\ Write(k, Str(old + d))

ExistsHeld(k) ==
  /\ reply' = Integer(IF k \in Held THEN 1 ELSE 0)
  /\ UNCHANGED <<held, corpses>>

(* -2 is the answer for a corpse only: a key that is not held, like one    *)
(* without a time to live, gets -1.                                        *)
TtlCollects(k) ==
  \/ k \in corpses /\ reply' = Integer(-2) /\ Forget({k})
  \/ /\ k \notin corpses
     /\ reply'.type = "integer" /\ reply'.n >= -1
     /\ k \notin Held => reply'.n = -1
     /\ UNCHANGED <<held, corpses>>

(* The characters whose index, negative bounds counting from the end, is   *)
(* between both.                                                           *)
GetRange(k, start, end) ==
  LET v == IF Visible(k) = Nil THEN EmptyString ELSE Visible(k)
      at(i) == IF i < 0 THEN Length(v) + i ELSE i
      shown == {i \in 0 .. Length(v) - 1 : at(start) <= i /\ i <= at(end)}
  IN  /\ Forget({k})
      /\ \/ shown = {} /\ reply' = Bulk(EmptyString)
         \/ \E i \in shown, j \in shown :
              /\ shown = i .. j
              /\ reply' = Bulk(Substring(v, i, j + 1))

(* A value takes its time to live along; renamed to itself a key is lost.  *)
Rename(k, n) ==
  \/ k \notin Held /\ reply' = Error /\ UNCHANGED <<held, corpses>>
  \/ /\ k \in Held /\ reply' = OK
     /\ held' = [held EXCEPT ![n] = held[k], ![k] = Nil]
     /\ corpses' = (IF k \in corpses THEN corpses \cup {n} ELSE corpses \ {n}) \ {k}

AdapterMethod ==
  \/ \E k \in Keys :
       \/ request' = <<"get", k>> /\ Get(k)
       \/ request' = <<"strlen", k>> /\ StrLen(k)
       \/ request' = <<"incr", k>> /\ Count(k, 1)
       \/ request' = <<"decr", k>> /\ Count(k, -1)
       \/ request' = <<"exists", k>> /\ ExistsHeld(k)
       \/ request' = <<"ttl", k>> /\ TtlCollects(k)
       \/ request' = <<"type", k>> /\ Type(k)
       \/ request' = <<"expire", k>> /\ Retime(k)
       \/ \E n \in Keys : request' = <<"rename", k, n>> /\ Rename(k, n)
       \/ \E i \in Ranges, j \in Ranges : request' = <<"getRange", k, i, j>> /\ GetRange(k, i, j)
  \/ \E k \in Keys, d \in Deltas :
       \/ request' = <<"incrBy", k, d>> /\ Count(k, d)
       \/ request' = <<"decrBy", k, d>> /\ Count(k, Negated(d))
  \/ \E k \in Keys, v \in Values :
       \/ request' \in {<<"set", k, v>>, <<"setEx", k, v>>} /\ Put(k, v, FALSE)
       \/ request' = <<"getSet", k, v>> /\ Put(k, v, TRUE)
       \/ request' = <<"append", k, v>> /\ AppendTo(k, v)
  \/ \E ks \in KeyLists :
       \/ request' = <<"mGet", ks>> /\ MGet(ks)
       \/ request' = <<"del", ks>> /\ Del(ks)
       \/ \E vs \in [DOMAIN ks -> Values \cup {Nil}], texts \in [DOMAIN ks -> Values] :
            /\ request' = <<"mSet", ks, vs>>
            /\ \A i \in DOMAIN ks : texts[i] = IF vs[i] = Nil THEN EmptyString ELSE vs[i]
            /\ MSet(ks, texts)
  \/ \E P \in SUBSET Keys : request' = <<"keys", P>> /\ KeysMatching(P)

AdapterSpec == Init /\ [][AdapterMethod \/ Decay]_vars
=============================================================================
