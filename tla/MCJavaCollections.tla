-------------------------- MODULE MCJavaCollections --------------------------
(* JavaCollections on one key, with calls that name one element or two, of *)
(* which the second may be the first again.                                *)
EXTENDS JavaCollections

Call(name, type, names) ==
  [name |-> name, slots |-> <<<<type, CHOOSE k \in Keys : TRUE>>>>, names |-> names]
MCNames == {"a", "b"}
MCCommands ==
  {Call("HSET", "hash", <<"a", "b">>), Call("HMSET", "hash", <<"a">>), Call("HSETNX", "hash", <<"a">>),
   Call("HDEL", "hash", <<"a", "b">>),
   Call("SADD", "set", <<"a", "b">>), Call("SADD", "set", <<"a">>), Call("SREM", "set", <<"b", "b">>),
   Call("ZADD", "zset", <<"a", "b">>), Call("ZREM", "zset", <<"a">>),
   [name |-> "DEL", names |-> <<>>,
    slots |-> [i \in 1 .. 3 |-> <<<<"hash", "set", "zset">>[i], CHOOSE k \in Keys : TRUE>>]]}
=============================================================================
