---------------------------- MODULE MCConnection ----------------------------
(* Connection: two clients, two databases, one key.        *)
EXTENDS Connection

Blank == [type |-> "command", name |-> "OTHER", db |-> 0, key |-> CHOOSE k \in Keys : TRUE,
          value |-> CHOOSE v \in Values : TRUE, right |-> FALSE]
Command(name) == [Blank EXCEPT !.name = name]
AuthLine(right) == [Blank EXCEPT !.type = "line", !.name = "AUTH", !.right = right]

MCItems ==
  {AuthLine(TRUE), AuthLine(FALSE),
   [Blank EXCEPT !.type = "null"], [Blank EXCEPT !.type = "value"],
   [Command("SELECT") EXCEPT !.db = 1], [Command("SELECT") EXCEPT !.db = NaN]}
    \cup {Command(name) : name \in {"SET", "GET", "FLUSHDB", "FLUSHALL", "INFO", "QUIT"}}

(* SET and its arguments, cut behind SET, behind the key (and the value a  *)
(* null), or in front of a value that is an array.                         *)
MCRests ==
  LET word == [Blank EXCEPT !.type = "value"]
      null == [Blank EXCEPT !.type = "null"]
  IN  [item \in MCItems |->
         IF item = Command("SET") THEN {<<word, word>>, <<null>>, <<Command("FLUSHALL")>>} ELSE {}]

(* Nothing reads the answer, and no property but of steps speaks of it.    *)
Unanswered == <<requirePass, wire, sent, socket, authenticated, buffers, pending, dbIndex, databases>>
=============================================================================
