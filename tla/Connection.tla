----------------------------- MODULE Connection -----------------------------
(***************************************************************************)
(* The connections of the JavaScript server (src/js/src/server.js,         *)
(* protocol/resp.js): how the bytes of a client become commands, and the   *)
(* commands about the connection and its databases (commands/server.js).   *)
(*                                                                         *)
(* TCP hands over the stream of a client in chunks that may end anywhere;  *)
(* here an item of the stream has two parts and a chunk may end between    *)
(* them.  Node runs handleData to completion: while commands of one chunk  *)
(* are pending no other event is handled.                                  *)
(*                                                                         *)
(* SET and GET stand for the commands on data, which have modules of their *)
(* own, and a value for whatever is answered without an effect: RESP that  *)
(* is not an array, PING, an unknown command, AUTH once it has succeeded.  *)
(* A chunk that AUTH succeeds in may end within an item, whose first part  *)
(* is dropped with it.  The second part is then read as it stands: as the  *)
(* elements of an array that are still to come (Rests), each an item of    *)
(* its own, or, cut within an element, as text that is not RESP.           *)
(***************************************************************************)
EXTENDS Resp, FiniteSets, SequencesExt

CONSTANTS
  Clients,      \* connections; a client that comes back is another one
  Keys, Values,
  DbIndexes,    \* the numbers SELECT is given
  NaN,          \* parseInt of text that is not a number
  NoDb,         \* Map.get of a database that does not exist
  Items,        \* what clients send
  Rests,        \* item -> what its second part may be read as, sequences of items
  HeadLines, TailLines,  \* the lines of text the parts of a RESP value end
  MaxSent       \* bound: the items all clients send

(* A line of text, a RESP array (a command), a RESP value without effect,  *)
(* or a RESP null.  Only the fields a command uses count.                  *)
ItemSpace ==
  [type : {"line", "command", "value", "null"},
   name : {"AUTH", "SELECT", "SET", "GET", "FLUSHDB", "FLUSHALL", "INFO", "QUIT", "OTHER"},
   db : DbIndexes \cup {NaN}, key : Keys, value : Values, right : BOOLEAN]

(* What is sent back in a step: refusals, or the reply to an item.         *)
Answers ==
  [to : Clients, refused : Nat, accepted : BOOLEAN]
    \cup [to : Clients, item : Items, reply : Replies(Keys, Values) \cup {Nil}]

ASSUME ConnectionAssumption ==
  /\ 0 \in DbIndexes /\ DbIndexes \subseteq Nat /\ NaN \notin Int
  /\ Nil \notin Values \cup Answers /\ NoDb \notin [Keys -> Values \cup {Nil}]
  /\ Items \subseteq ItemSpace
  /\ Rests \in [Items -> SUBSET Seq({item \in Items : item.type # "line"})]
  /\ \A item \in Items : <<>> \notin Rests[item]
  /\ HeadLines \in Nat /\ TailLines \in Nat \ {0} /\ MaxSent \in Nat

VARIABLES
  requirePass,    \* LinRedisServer.requirePass: whether there is a password
  wire,           \* client -> the parts sent and not yet received
  sent,           \* the number of items sent
  socket,         \* client -> "open", "ended" (socket.end was called), "closed"
  authenticated,  \* client -> ClientState.authenticated
  text,           \* client -> the item begun before AUTH (ClientState.buffer)
  parser,         \* client -> RespParser.buffer
  pending,        \* client -> the commands of this chunk still to be handled
  dbIndex,        \* client -> ClientState.dbIndex
  databases,      \* LinRedisServer.databases: index -> Database, or NoDb
  answer          \* what the last step sent: to whom, for what, which reply

buffers == <<text, parser>>
vars == <<requirePass, wire, sent, socket, authenticated, buffers, pending, dbIndex, databases, answer>>

Part(item, part) == [item |-> item, part |-> part]
Parted(items) ==
  [i \in 1 .. 2 * Len(items) |-> Part(items[(i + 1) \div 2], 2 - (i % 2))]
Idle == \A c \in Clients : pending[c] = <<>>
----------------------------------------------------------------------------
(* RespParser *)

(* A buffer that starts with the second part of an item, cut within an     *)
(* element and the first part lost, starts with no type of RESP: nothing   *)
(* is parsed from it, whatever is appended.                                *)
Jammed(buffer) == buffer # <<>> /\ buffer[1].part = 2

(* The whole items of a buffer that is not jammed.                         *)
Whole(buffer) ==
  IF Jammed(buffer) THEN <<>> ELSE [j \in 1 .. Len(buffer) \div 2 |-> buffer[2 * j].item]

(* feed parses until it finds nothing: an item that is not complete, text  *)
(* that is not RESP, which stays for good, or a null, which is consumed.   *)
Parsed_One(buffer) == IF Whole(buffer) = <<>> \/ Whole(buffer)[1].type \in {"line", "null"} THEN 0 ELSE 1
Parsed(buffer) ==
  LET items == Whole(buffer)
      stops == {j \in DOMAIN items : items[j].type \in {"line", "null"}}
  IN  IF stops = {} THEN Len(items) ELSE Min(stops) - 1
Consumed(buffer) ==
  LET items == Whole(buffer)
      n     == Parsed(buffer)
  IN  IF n < Len(items) /\ items[n + 1].type = "null" THEN n + 1 ELSE n

Feed(c, chunk) ==
  LET buffer == parser[c] \o chunk
  IN  /\ pending' = [pending EXCEPT ![c] = SubSeq(Whole(buffer), 1, Parsed(buffer))]
      /\ parser' = [parser EXCEPT ![c] = SubSeq(buffer, 2 * Consumed(buffer) + 1, Len(buffer))]
      /\ answer' = Nil
      /\ UNCHANGED <<authenticated, text>>
----------------------------------------------------------------------------
(* handleData before AUTH, when the stream is read line by line *)

LinesEnded(p) ==
  IF p.item.type \in {"line", "null"} THEN p.part - 1
  ELSE IF p.part = 1 THEN HeadLines ELSE TailLines

Lines(parts) == Cardinality(UNION {{i} \X (1 .. LinesEnded(parts[i])) : i \in DOMAIN parts})

Opens(p) == p.part = 2 /\ p.item.type = "line" /\ p.item.name = "AUTH" /\ p.item.right

(* Every line is refused up to the one that authenticates; what follows it *)
(* in the chunk is dropped with the buffers.  What is left on the wire is  *)
(* read from where the chunk ended.                                        *)
Refuse_KeepLines(c, chunk) ==
  LET all == text[c] \o chunk
  IN  /\ \A i \in DOMAIN all : ~Opens(all[i])
      /\ text' = [text EXCEPT ![c] = all]
      /\ answer' = [to |-> c, refused |-> Lines(chunk), accepted |-> FALSE]
      /\ UNCHANGED <<authenticated, parser, pending>>
Refuse(c, chunk) ==
  LET all == text[c] \o chunk
  IN  /\ \A i \in DOMAIN all : ~Opens(all[i])
      /\ text' = [text EXCEPT ![c] = SubSeq(all, 2 * (Len(all) \div 2) + 1, Len(all))]
      /\ answer' = [to |-> c, refused |-> Lines(chunk), accepted |-> FALSE]
      /\ UNCHANGED <<authenticated, parser, pending>>

Admit(c, chunk) ==
  \E i \in DOMAIN chunk :
    /\ Opens(chunk[i]) /\ \A j \in 1 .. i - 1 : ~Opens(chunk[j])
    /\ authenticated' = [authenticated EXCEPT ![c] = TRUE]
    /\ answer' = [to |-> c, refused |-> Lines(SubSeq(chunk, 1, i - 1)), accepted |-> TRUE]
    /\ text' = [text EXCEPT ![c] = <<>>]
    /\ parser' = [parser EXCEPT ![c] = <<>>]
    /\ UNCHANGED pending

Readings(left) ==
  {left} \cup {Parted(rest) \o Tail(left) :
                rest \in IF Jammed(left) THEN Rests[left[1].item] ELSE {}}
----------------------------------------------------------------------------
(* Events *)

Send(c, item) ==
  /\ socket[c] # "closed" /\ sent < MaxSent
  /\ wire' = [wire EXCEPT ![c] = @ \o <<Part(item, 1), Part(item, 2)>>]
  /\ sent' = sent + 1 /\ answer' = Nil
  /\ UNCHANGED <<requirePass, socket, authenticated, buffers, pending, dbIndex, databases>>

(* The data event of a socket.                                             *)
Receive(c) ==
  /\ Idle /\ socket[c] # "closed"
  /\ \E n \in 1 .. Len(wire[c]) :
       LET chunk == SubSeq(wire[c], 1, n)
           left  == SubSeq(wire[c], n + 1, Len(wire[c]))
       IN  \/ /\ \/ authenticated[c] /\ Feed(c, chunk)
                 \/ ~authenticated[c] /\ Refuse(c, chunk)
              /\ wire' = [wire EXCEPT ![c] = left]
           \/ /\ ~authenticated[c] /\ Admit(c, chunk)
              /\ \E reading \in Readings(left) : wire' = [wire EXCEPT ![c] = reading]
  /\ UNCHANGED <<requirePass, sent, socket, dbIndex, databases>>

(* The close event; what was on its way is lost.                           *)
Disconnect(c) ==
  /\ Idle /\ socket[c] # "closed"
  /\ socket' = [socket EXCEPT ![c] = "closed"]
  /\ wire' = [wire EXCEPT ![c] = <<>>]
  /\ text' = [text EXCEPT ![c] = <<>>] /\ parser' = [parser EXCEPT ![c] = <<>>]
  /\ answer' = Nil
  /\ UNCHANGED <<requirePass, sent, authenticated, pending, dbIndex, databases>>

(* LinRedisServer.stop, on a signal: all sockets are destroyed, and Node   *)
(* hands over nothing more of what was sent to them.                       *)
Stop ==
  /\ Idle
  /\ socket' = [c \in Clients |-> "closed"]
  /\ wire' = [c \in Clients |-> <<>>]
  /\ text' = [c \in Clients |-> <<>>] /\ parser' = [c \in Clients |-> <<>>]
  /\ answer' = Nil
  /\ UNCHANGED <<requirePass, sent, authenticated, pending, dbIndex, databases>>
----------------------------------------------------------------------------
(* handleCommand *)

Emptied == [k \in Keys |-> Nil]

(* getDatabase: a database that is asked for is there from then on.        *)
Db(i) == IF databases[i] = NoDb THEN Emptied ELSE databases[i]

(* send: nothing is written to a socket that was ended.                    *)
Reply(c, r) ==
  answer' = [to |-> c, item |-> Head(pending[c]),
             reply |-> IF socket[c] = "open" THEN r ELSE Nil]

Select(c, index) ==
  /\ UNCHANGED <<socket, authenticated>>
  /\ \/ index = NaN /\ Reply(c, Error) /\ UNCHANGED <<dbIndex, databases>>
     \/ /\ index # NaN
        /\ Reply(c, OK)
        /\ databases' = [databases EXCEPT ![index] = Db(index)]
        /\ dbIndex' = [dbIndex EXCEPT ![c] = index]

Quit(c) ==
  /\ Reply(c, OK)
  /\ socket' = [socket EXCEPT ![c] = "ended"]
  /\ UNCHANGED <<authenticated, dbIndex, databases>>

(* Commands on the database the client has selected.                       *)
OnDb(c, contents, r) ==
  /\ Reply(c, r)
  /\ databases' = [databases EXCEPT ![dbIndex[c]] = contents]
  /\ UNCHANGED <<socket, authenticated, dbIndex>>

FlushAll_Selected(c) == OnDb(c, Emptied, OK)
FlushAll(c) ==
  /\ Reply(c, OK)
  /\ databases' = [i \in DbIndexes |-> IF databases[i] = NoDb THEN NoDb ELSE Emptied]
  /\ UNCHANGED <<socket, authenticated, dbIndex>>

Answered(c, r) == Reply(c, r) /\ UNCHANGED <<socket, authenticated, dbIndex, databases>>

(* The keys that INFO and getStats count.                                  *)
TotalKeys == Cardinality({u \in DbIndexes \X Keys : Db(u[1])[u[2]] # Nil})

Handle(c) ==
  LET item == Head(pending[c])
      db   == Db(dbIndex[c])
      is(name) == item.type = "command" /\ item.name = name
  IN  /\ pending[c] # <<>>
      /\ pending' = [pending EXCEPT ![c] = Tail(@)]
      /\ \/ item.type = "value" /\ Answered(c, Error)
         \/ is("SELECT") /\ Select(c, item.db)
         \/ is("QUIT") /\ Quit(c)
         \/ is("SET") /\ OnDb(c, [db EXCEPT ![item.key] = item.value], OK)
         \/ is("GET") /\ Answered(c, BulkOrNull(db[item.key]))
         \/ is("FLUSHDB") /\ OnDb(c, Emptied, OK)
         \/ is("FLUSHALL") /\ FlushAll(c)
         \/ is("INFO") /\ Answered(c, Integer(TotalKeys))
      /\ UNCHANGED <<requirePass, wire, sent, buffers>>
----------------------------------------------------------------------------
Init ==
  /\ requirePass \in BOOLEAN
  /\ wire = [c \in Clients |-> <<>>] /\ sent = 0
  /\ socket = [c \in Clients |-> "open"]
  /\ authenticated = [c \in Clients |-> ~requirePass]
  /\ text = [c \in Clients |-> <<>>] /\ parser = [c \in Clients |-> <<>>]
  /\ pending = [c \in Clients |-> <<>>]
  /\ dbIndex = [c \in Clients |-> 0]
  /\ databases = [i \in DbIndexes |-> IF i = 0 THEN Emptied ELSE NoDb]
  /\ answer = Nil

Next ==
  \/ \E c \in Clients, item \in Items : Send(c, item)
  \/ \E c \in Clients : Receive(c)
  \/ \E c \in Clients : Disconnect(c)
  \/ \E c \in Clients : Handle(c)
  \/ Stop

(* TCP delivers, and the event loop turns.                                 *)
Fairness == \A c \in Clients : WF_vars(Receive(c)) /\ WF_vars(Handle(c))

Spec == Init /\ [][Next]_vars
FairSpec == Spec /\ Fairness
----------------------------------------------------------------------------
(* Properties *)

Stream(c) == text[c] \o parser[c] \o wire[c]
PartsOf(items) == [item : items, part : {1, 2}]

(* The parts of items alternate from the first buffered to the last on the *)
(* wire; the text buffer never keeps a whole item, and is empty after      *)
(* AUTH; the database a client has selected exists.                        *)
TypeOK ==
  /\ \A c \in Clients :
       /\ \A p \in ToSet(wire[c]) \cup ToSet(text[c]) \cup ToSet(parser[c]) :
            p \in PartsOf(Items)
       /\ Len(text[c]) <= 1 /\ (authenticated[c] => text[c] = <<>>)
       /\ \A i, j \in DOMAIN Stream(c) :
            i < j => (Stream(c)[i].part = Stream(c)[j].part <=> (j - i) % 2 = 0)
       /\ databases[dbIndex[c]] # NoDb
       /\ ToSet(pending[c]) \subseteq Items
  /\ requirePass \in BOOLEAN /\ sent \in 0 .. MaxSent
  /\ socket \in [Clients -> {"open", "ended", "closed"}]
  /\ authenticated \in [Clients -> BOOLEAN]
  /\ dbIndex \in [Clients -> DbIndexes]
  /\ databases \in [DbIndexes -> [Keys -> Values \cup {Nil}] \cup {NoDb}]
  /\ answer \in Answers \cup {Nil}

(* However the stream is cut into chunks, commands are handled one after   *)
(* the other, in order, whole and once, each on the database its client    *)
(* selected last, and nothing is handled before AUTH.                      *)
Queue(c) == pending[c] \o Whole(Stream(c))
Promise == INSTANCE Sessions
             WITH queue <- [c \in Clients |-> Queue(c)],
                  admitted <- {c \in Clients : authenticated[c]},
                  jammed <- {c \in Clients : Jammed(Stream(c))},
                  selected <- dbIndex, store <- [i \in DbIndexes |-> Db(i)]
KeepsSessions == Promise!Spec

(* Once a client has sent all it has to send, and it is all commands, they *)
(* are all handled, if no earlier null has left something in the parser.   *)
OnlyCommandsLeft(c) ==
  /\ authenticated[c] /\ sent = MaxSent /\ parser[c] = <<>>
  /\ \A item \in ToSet(Queue(c)) : item.type \in {"command", "value"}
CommandsAreHandled == \A c \in Clients : OnlyCommandsLeft(c) ~> Queue(c) = <<>>

(* feed parses until the buffer holds no complete command (resp.js, feed). *)
(* A null ends its loop too early.                                         *)
FeedTakesAll ==
  \A c \in Clients :
    Idle /\ Whole(parser[c]) # <<>> => Whole(parser[c])[1].type = "line"
=============================================================================
