------------------------------- MODULE Resp -------------------------------
(***************************************************************************)
(* The replies of the RESP protocol (src/js/src/protocol/resp.js), one     *)
(* constructor per serializer.  A reply keeps what a client can tell       *)
(* apart: its RESP type and its payload; the text on the wire, the         *)
(* wording of errors and CRLF framing are abstracted.                      *)
(***************************************************************************)
EXTENDS Integers, Sequences

CONSTANT Nil  \* JavaScript's undefined / null: a value that is not there

Simple(s)   == [type |-> "simple",  text  |-> s]
Integer(n)  == [type |-> "integer", n     |-> n]
Bulk(v)     == [type |-> "bulk",    value |-> v]
Array(s)    == [type |-> "array",   items |-> s]
Unordered(S) == [type |-> "unordered", members |-> S]  \* an array in unspecified order
NullReply   == [type |-> "null"]
Error       == [type |-> "error"]
OK          == Simple("OK")

(* serializeBulkString: null and undefined become the null bulk string. *)
BulkOrNull(v) == IF v = Nil THEN NullReply ELSE Bulk(v)

(* The replies a command over Keys and Values can send. *)
Replies(Keys, Values) ==
       [type : {"simple"}, text : {"OK", "string", "none"}]
  \cup [type : {"integer"}, n : Int]
  \cup [type : {"bulk"}, value : Values]
  \cup [type : {"array"}, items : Seq(Values \cup {Nil})]
  \cup [type : {"unordered"}, members : SUBSET Keys]
  \cup {NullReply, Error}
=============================================================================
