--------------------------- MODULE MCJavaStrings ---------------------------
(* JavaStrings with two clients; the runs differ in the calls they make.   *)
EXTENDS JavaStrings, TLC

MCValues == {"1", "2", "x"}
MCParseLong(v) == CASE v = "1" -> 1 [] v = "2" -> 2 [] OTHER -> NaN
MCStr(n) == ToString(n)
MCCounters == 1 .. 2

Call(n, ks) == [name |-> n, keys |-> ks, values |-> [i \in DOMAIN ks |-> "x"],
                tests |-> <<>>, ttl |-> 0, by |-> 0]
CallSet(k, tests, ttl) == [Call("SET", <<k>>) EXCEPT !.tests = tests, !.ttl = ttl]
CallExpire(k, ttl) == [Call("EXPIRE", <<k>>) EXCEPT !.ttl = ttl]
CallIncr(k) == [Call("INCRBY", <<k>>) EXCEPT !.by = 1]

(* Commands that name a key twice, SET with tests that pass and with tests *)
(* that cannot both pass, a deadline ahead and one already past, a counter. *)
MapCommands == UNION {
  {Call("TTL", <<k>>), Call("EXISTS", <<k, k>>), Call("DEL", <<k>>),
   Call("MSET", <<k, k>>), CallSet(k, <<"NX">>, 1), CallSet(k, <<"NX", "XX">>, 0),
   CallExpire(k, -2), CallIncr(k)} : k \in Keys}

(* A writer, a reader and a timer around a key. *)
RaceCommands == UNION {
  {Call("GET", <<k>>), Call("MSET", <<k, k>>), CallSet(k, <<>>, 1), CallExpire(k, 1)}
    : k \in Keys}

Symmetry == Permutations(Clients) \cup Permutations(EntryIds)
=============================================================================
