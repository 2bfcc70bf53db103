---------------------------- MODULE JavaStrings ----------------------------
(***************************************************************************)
(* The string commands of the Java server (store/Database.java,            *)
(* command/StringCommands.java) and its sweeper thread                     *)
(* (server/RedisServer.java), with their interleavings.                    *)
(*                                                                         *)
(* Netty runs the commands of different connections on different worker    *)
(* threads, so a step is one operation on the ConcurrentHashMap or on the  *)
(* fields of an entry.  An entry is an object: EXPIRE changes the deadline *)
(* of the object it found, which may have left the map meanwhile.  Those   *)
(* fields are neither volatile nor locked; they are read and written here  *)
(* in one global order, and creating an entry and putting it in the map is *)
(* one step, because no other thread knows the entry yet.                  *)
(*                                                                         *)
(* Only string commands run; KEYS, which changes nothing, is left out.     *)
(***************************************************************************)
EXTENDS Resp, FiniteSets

CONSTANTS
  Keys, Values,
  Clients,         \* connections, each served by one worker thread at a time
  Sweeper,         \* the thread of expiryExecutor
  EntryIds,        \* bound: the entry objects alive at one time
  Null,            \* Java's null
  NaN,             \* Long.parseLong throws
  ParseLong(_),    \* the number a text denotes, or NaN
  Str(_),          \* String.valueOf
  Commands,        \* the calls clients make
  Counters,        \* bound: the numbers a counter may reach
  IntSpan,         \* how many values a Java int has (2^32)
  Second,          \* clock ticks in a second
  Epoch, MaxTime,  \* bound: the clock runs from Epoch to MaxTime
  MaxIncrements    \* bound: the sum of the increments asked for

Threads == Clients \cup {Sweeper}
Entries == [value : Values, expiry : Int]
Unused == [value |-> Nil, expiry |-> 0]   \* an object not yet created

(* A call: its keys in order, for SET its tests NX and XX in the order the *)
(* handler makes them, and the time to live in milliseconds, 0 for none.   *)
NoCall == [name |-> "NONE", keys |-> <<>>, values |-> <<>>, tests |-> <<>>, ttl |-> 0, by |-> 0]
Calls ==
  [name : {"SET", "GET", "MGET", "EXISTS", "DEL", "EXPIRE", "TTL", "INCRBY", "MSET"},
   keys : Seq(Keys), values : Seq(Values), tests : Seq({"NX", "XX"}),
   ttl : Int, by : Int]

ASSUME JavaStringsAssumption ==
  /\ Sweeper \notin Clients
  /\ Null \notin EntryIds
  /\ Nil \notin Values
  /\ NaN \notin Int
  /\ \A v \in Values : ParseLong(v) \in Int \cup {NaN}
  /\ Counters \subseteq Int
  /\ \A n \in Counters : Str(n) \in Values /\ ParseLong(Str(n)) = n
  /\ Commands \subseteq Calls
  /\ \A m \in Commands : m.keys # <<>> /\ Len(m.values) = Len(m.keys)
  /\ IntSpan \in Nat \ {0} /\ Second \in Nat \ {0}
  /\ Epoch \in Nat \ {0} /\ MaxTime \in Nat /\ Epoch <= MaxTime /\ MaxIncrements \in Nat

VARIABLES
  strings,  \* Database.strings: key -> entry object, or Null
  heap,     \* entry object -> its fields
  now,      \* System.currentTimeMillis()
  pc,       \* thread -> the step it is about to make
  call,     \* client -> the call it serves, or NoCall
  step,     \* client -> index of the key, or of the test of SET, in hand
  entry,    \* thread -> local variable entry
  found,    \* client -> the values looked up so far
  num,      \* client -> the sum INCRBY is about to store
  todo,     \* the keys the running sweep has yet to visit
  at,       \* the key whose entry the sweep has in hand
  reply,    \* client -> the answer to its last call, once it is over
  mortal,   \* history: the keys that were ever given a deadline
  asked     \* history: the sum of all increments asked for

histories == <<mortal, asked>>
clientVars == <<call, step, found, num, reply>>
sweepVars == <<todo, at>>
vars == <<strings, heap, now, pc, entry, clientVars, sweepVars, histories>>
----------------------------------------------------------------------------
(* class StringEntry *)

NewEntry(v, ttlMs) == [value |-> v, expiry |-> IF ttlMs > 0 THEN now + ttlMs ELSE 0]

IsExpired_NoZeroTest(e) == now >= heap[e].expiry
IsExpired(e) == heap[e].expiry > 0 /\ now >= heap[e].expiry

(* The objects a thread or the map still refers to.  The others are        *)
(* garbage, collected at once: they are as good as never created.          *)
Reachable == ({strings[k] : k \in Keys} \cup {entry[t] : t \in Threads}) \ {Null}
Collected(h) == [e \in EntryIds |-> IF e \in Reachable' THEN h[e] ELSE Unused]
----------------------------------------------------------------------------
(* Calls *)

Key(c) == call[c].keys[IF call[c].name = "SET" THEN 1 ELSE step[c]]
LastKey(c) == step[c] = Len(call[c].keys)

FirstStep(m) ==
  CASE m.name \in {"GET", "MGET", "EXISTS", "INCRBY"} -> "look"
    [] m.name = "SET"                                 -> IF m.tests = <<>> THEN "put" ELSE "look"
    [] m.name = "MSET"                                -> "put"
    [] m.name = "DEL"                                 -> "remove"
    [] m.name \in {"EXPIRE", "TTL"}                   -> "find"

Invoke(c, m) ==
  /\ pc[c] = "idle"
  /\ m.name = "INCRBY" => asked + m.by <= MaxIncrements
  /\ call' = [call EXCEPT ![c] = m]
  /\ reply' = [reply EXCEPT ![c] = NullReply]
  /\ pc' = [pc EXCEPT ![c] = FirstStep(m)]
  /\ asked' = IF m.name = "INCRBY" THEN asked + m.by ELSE asked
  /\ UNCHANGED <<strings, heap, now, entry, step, found, num, sweepVars, mortal>>

(* The call of c is over, and its local variables with it. *)
Return(c, r) ==
  /\ pc' = [pc EXCEPT ![c] = "idle"]
  /\ reply' = [reply EXCEPT ![c] = r]
  /\ call' = [call EXCEPT ![c] = NoCall]
  /\ step' = [step EXCEPT ![c] = 1]
  /\ found' = [found EXCEPT ![c] = <<>>]
  /\ num' = [num EXCEPT ![c] = 0]

Goto(c, s) ==
  /\ pc' = [pc EXCEPT ![c] = s]
  /\ UNCHANGED <<call, step, found, num, reply>>

GotoNext_Stuck(c, s) == Goto(c, s)   \* faulty variant: the index is not advanced
GotoNext(c, s) ==
  /\ pc' = [pc EXCEPT ![c] = s]
  /\ step' = [step EXCEPT ![c] = @ + 1]
  /\ UNCHANGED <<call, num, reply>>

Answer(name, fs) ==
  CASE name = "GET"  -> BulkOrNull(fs[1])
    [] name = "MGET" -> Array(fs)
    [] OTHER         -> Integer(Cardinality({i \in DOMAIN fs : fs[i] # Nil}))

(* GET, MGET, EXISTS and DEL treat their keys one after the other. *)
Gather(c, x) ==
  LET fs == Append(found[c], x)
  IN  \/ LastKey(c) /\ Return(c, Answer(call[c].name, fs))
      \/ /\ ~LastKey(c)
         /\ found' = [found EXCEPT ![c] = fs]
         /\ GotoNext(c, FirstStep(call[c]))

(* SET with NX or XX: the key must be absent, or present, to go on. *)
Test(c, x) ==
  LET tests  == call[c].tests
      passed == (tests[step[c]] = "NX") = (x = Nil)
  IN  \/ ~passed /\ Return(c, NullReply)
      \/ passed /\ step[c] < Len(tests) /\ GotoNext(c, "look") /\ UNCHANGED found
      \/ passed /\ step[c] = Len(tests) /\ Goto(c, "put")

(* incrby: the sum is computed from what getString found. *)
Number_FromOne(x) == IF x = Nil THEN 1 ELSE ParseLong(x)
Number(x) == IF x = Nil THEN 0 ELSE ParseLong(x)
ToInt(n) == ((n + IntSpan \div 2) % IntSpan) - IntSpan \div 2   \* (int) num

Increase(c, x) ==
  \/ Number(x) = NaN /\ Return(c, Error)
  \/ /\ Number(x) # NaN
     /\ Number(x) + call[c].by \in Counters
     /\ num' = [num EXCEPT ![c] = Number(x) + call[c].by]
     /\ pc' = [pc EXCEPT ![c] = "put"]
     /\ UNCHANGED <<call, step, found, reply>>

(* What the handler does with the answer of getString or existsKey. *)
Found(c, x) ==
  \/ call[c].name \in {"GET", "MGET", "EXISTS"} /\ Gather(c, x)
  \/ call[c].name = "SET" /\ Test(c, x)
  \/ call[c].name = "INCRBY" /\ Increase(c, x)
----------------------------------------------------------------------------
(* Database.getString and existsKey, in up to three steps *)

Look(c) ==     \* strings.get(key)
  /\ pc[c] = "look"
  /\ \/ strings[Key(c)] = Null /\ Found(c, Nil) /\ UNCHANGED entry
     \/ /\ strings[Key(c)] # Null
        /\ entry' = [entry EXCEPT ![c] = strings[Key(c)]]
        /\ Goto(c, "check")
  /\ UNCHANGED <<strings, heap, now, sweepVars, histories>>

Check(c) ==    \* entry.isExpired(), and entry.value if not
  /\ pc[c] = "check"
  /\ \/ IsExpired(entry[c]) /\ Goto(c, "drop")
     \/ ~IsExpired(entry[c]) /\ Found(c, heap[entry[c]].value)
  /\ entry' = [entry EXCEPT ![c] = Null]
  /\ UNCHANGED <<strings, now, sweepVars, histories>>
  /\ heap' = Collected(heap)

Drop(c) ==     \* strings.remove(key): whatever the key maps to now
  /\ pc[c] = "drop"
  /\ strings' = [strings EXCEPT ![Key(c)] = Null]
  /\ Found(c, Nil)
  /\ UNCHANGED <<now, entry, sweepVars, histories>>
  /\ heap' = Collected(heap)
----------------------------------------------------------------------------
(* Database.setString, deleteKey, expireKey; TTL *)

PutValue(c) ==
  CASE call[c].name = "INCRBY" -> Str(num[c])
    [] call[c].name = "SET"    -> call[c].values[1]
    [] call[c].name = "MSET"   -> call[c].values[step[c]]

Put(c) ==      \* strings.put(key, new StringEntry(value, ttlMs))
  /\ pc[c] = "put"
  /\ UNCHANGED <<now, entry, sweepVars, asked>>
  /\ \E e \in EntryIds \ Reachable :
       /\ strings' = [strings EXCEPT ![Key(c)] = e]
       /\ heap' = Collected([heap EXCEPT ![e] = NewEntry(PutValue(c), call[c].ttl)])
  /\ \/ call[c].name = "INCRBY" /\ Return(c, Integer(ToInt(num[c])))
     \/ call[c].name = "SET" /\ Return(c, OK)
     \/ call[c].name = "MSET" /\ LastKey(c) /\ Return(c, OK)
     \/ call[c].name = "MSET" /\ ~LastKey(c) /\ GotoNext(c, "put") /\ UNCHANGED found
  /\ mortal' = IF call[c].ttl > 0 THEN mortal \cup {Key(c)} ELSE mortal

Remove(c) ==   \* strings.remove(key), of DEL
  /\ pc[c] = "remove"
  /\ strings' = [strings EXCEPT ![Key(c)] = Null]
  /\ Gather(c, IF strings[Key(c)] = Null THEN Nil ELSE heap[strings[Key(c)]].value)
  /\ UNCHANGED <<now, entry, sweepVars, histories>>
  /\ heap' = Collected(heap)

Find_Unchecked(c) ==
  /\ pc[c] = "find"
  /\ entry' = [entry EXCEPT ![c] = strings[Key(c)]]
  /\ Goto(c, IF call[c].name = "TTL" THEN "ttl" ELSE "retime")
  /\ UNCHANGED <<strings, heap, now, sweepVars, histories>>
Find(c) ==     \* strings.get(key), of EXPIRE and TTL
  /\ pc[c] = "find"
  /\ \/ /\ strings[Key(c)] = Null
        /\ Return(c, Integer(IF call[c].name = "TTL" THEN -2 ELSE 0))
        /\ UNCHANGED entry
     \/ /\ strings[Key(c)] # Null
        /\ entry' = [entry EXCEPT ![c] = strings[Key(c)]]
        /\ Goto(c, IF call[c].name = "TTL" THEN "ttl" ELSE "retime")
  /\ UNCHANGED <<strings, heap, now, sweepVars, histories>>

Retime(c) ==   \* entry.expiry = now + ttlMs
  /\ pc[c] = "retime"
  /\ UNCHANGED <<strings, now, sweepVars, asked>>
  /\ entry' = [entry EXCEPT ![c] = Null]
  /\ heap' = Collected([heap EXCEPT ![entry[c]].expiry = now + call[c].ttl])
  /\ mortal' = mortal \cup {Key(c)}
  /\ Return(c, Integer(1))

(* Java divides towards zero: less than a second after the deadline gives 0. *)
SecondsLeft(ms) == IF ms >= 0 THEN ms \div Second ELSE -((-ms) \div Second)

Ttl(c) ==
  LET left == SecondsLeft(heap[entry[c]].expiry - now)
  IN  /\ pc[c] = "ttl"
      /\ Return(c, Integer(IF heap[entry[c]].expiry = 0 THEN -1
                           ELSE IF left >= 0 THEN left ELSE -2))
      /\ entry' = [entry EXCEPT ![c] = Null]
      /\ UNCHANGED <<strings, now, sweepVars, histories>>
      /\ heap' = Collected(heap)
----------------------------------------------------------------------------
(* RedisServer.sweepExpired: the iterator hands out the entry object it    *)
(* saw, and it.remove() removes whatever the key maps to by then.          *)

(* The iterator reaches a key and hands out its entry; after the last key  *)
(* the next period starts a new pass.                                      *)
SweepLook(k) ==
  /\ pc[Sweeper] = "look"
  /\ k \in todo
  /\ todo' = IF todo = {k} THEN Keys ELSE todo \ {k}
  /\ \/ strings[k] = Null /\ UNCHANGED <<pc, entry, at>>
     \/ /\ strings[k] # Null
        /\ at' = k
        /\ entry' = [entry EXCEPT ![Sweeper] = strings[k]]
        /\ pc' = [pc EXCEPT ![Sweeper] = "check"]
  /\ UNCHANGED <<strings, heap, now, clientVars, histories>>

SweepCheck ==
  /\ pc[Sweeper] = "check"
  /\ pc' = [pc EXCEPT ![Sweeper] = IF IsExpired(entry[Sweeper]) THEN "drop" ELSE "look"]
  /\ entry' = [entry EXCEPT ![Sweeper] = Null]
  /\ at' = IF IsExpired(entry[Sweeper]) THEN at ELSE Null
  /\ UNCHANGED <<strings, now, todo, clientVars, histories>>
  /\ heap' = Collected(heap)

SweepDrop_Forgotten ==
  /\ pc[Sweeper] = "drop"
  /\ pc' = [pc EXCEPT ![Sweeper] = "look"]
  /\ at' = Null
  /\ UNCHANGED <<strings, heap, now, todo, entry, clientVars, histories>>
SweepDrop ==
  /\ pc[Sweeper] = "drop"
  /\ strings' = [strings EXCEPT ![at] = Null]
  /\ pc' = [pc EXCEPT ![Sweeper] = "look"]
  /\ at' = Null
  /\ UNCHANGED <<now, todo, entry, clientVars, histories>>
  /\ heap' = Collected(heap)

Sweep == (\E k \in Keys : SweepLook(k)) \/ SweepCheck \/ SweepDrop

Tick ==
  /\ now < MaxTime
  /\ now' = now + 1
  /\ UNCHANGED <<strings, heap, pc, entry, sweepVars, clientVars, histories>>
----------------------------------------------------------------------------
Init ==
  /\ strings = [k \in Keys |-> Null]
  /\ heap = [e \in EntryIds |-> Unused]
  /\ now = Epoch
  /\ pc = [t \in Threads |-> IF t = Sweeper THEN "look" ELSE "idle"]
  /\ call = [c \in Clients |-> NoCall]
  /\ step = [c \in Clients |-> 1]
  /\ entry = [t \in Threads |-> Null]
  /\ found = [c \in Clients |-> <<>>]
  /\ num = [c \in Clients |-> 0]
  /\ todo = Keys /\ at = Null
  /\ reply = [c \in Clients |-> NullReply]
  /\ mortal = {} /\ asked = 0

Work(c) ==
  \/ Look(c) \/ Check(c) \/ Drop(c)
  \/ Put(c) \/ Remove(c)
  \/ Find(c) \/ Retime(c) \/ Ttl(c)

Next ==
  \/ \E c \in Clients, m \in Commands : Invoke(c, m)
  \/ \E c \in Clients : Work(c)
  \/ Sweep
  \/ Tick

(* Worker threads and the sweeper are scheduled, and time passes; no       *)
(* client has to call.                                                     *)
Fairness ==
  /\ \A c \in Clients : WF_vars(Work(c))
  /\ WF_vars(Sweep)
  /\ WF_vars(Tick)

Spec == Init /\ [][Next]_vars
FairSpec == Spec /\ Fairness
----------------------------------------------------------------------------
(* Properties *)

Steps == {"idle", "look", "check", "drop", "put", "remove", "find", "retime", "ttl"}

(* Every key maps to a created entry, every thread that dereferences an    *)
(* entry has one, and replies are well formed.                             *)
TypeOK ==
  /\ strings \in [Keys -> EntryIds \cup {Null}]
  /\ heap \in [EntryIds -> Entries \cup {Unused}]
  /\ now \in Epoch .. MaxTime
  /\ pc \in [Threads -> Steps]
  /\ call \in [Clients -> Commands \cup {NoCall}]
  /\ step \in [Clients -> Nat \ {0}]
  /\ entry \in [Threads -> EntryIds \cup {Null}]
  /\ found \in [Clients -> Seq(Values \cup {Nil})]
  /\ num \in [Clients -> Int]
  /\ todo \subseteq Keys /\ at \in Keys \cup {Null}
  /\ reply \in [Clients -> Replies(Keys, Values)]
  /\ mortal \subseteq Keys /\ asked \in Int
  /\ \A e \in Reachable : heap[e] \in Entries
  /\ \A t \in Threads : pc[t] \in {"check", "retime", "ttl"} => entry[t] # Null

(* A key that was never given a deadline is only ever removed by DEL: the  *)
(* removals that getString, existsKey and sweepExpired do on their own     *)
(* account need an entry with a deadline to have been there.               *)
Unmap(k) == strings[k] # Null /\ strings'[k] = Null
OnlyMortalKeysVanish ==
  [][\A k \in Keys \ mortal : Unmap(k) => \E c \in Clients : Remove(c)]_vars

(* Increments are never counted twice: a counter that only INCRBY writes   *)
(* never exceeds the increments asked for.  It may fall behind: of two     *)
(* INCRs that read the same number one is lost, which the comment on       *)
(* Database.incrby admits.                                                 *)
CounterNeverAhead ==
  \A k \in Keys :
    strings[k] # Null => LET n == ParseLong(heap[strings[k]].value) IN n = NaN \/ n <= asked

(* An entry whose deadline has passed does not stay in the map for ever.   *)
ExpiredIn(k, e) == strings[k] = e /\ IsExpired(e)
ExpiredReclaimed ==
  \A k \in Keys, e \in EntryIds : ExpiredIn(k, e) ~> ~ExpiredIn(k, e)

(* Every call is answered: no worker thread waits for another.             *)
CallsReturn == \A c \in Clients : pc[c] # "idle" ~> pc[c] = "idle"

(* The map never drops an entry that has not expired, unless DEL says so   *)
(* (Database.java: the ConcurrentHashMap makes it thread safe).            *)
FreshWritesStay ==
  [][\A k \in Keys : Unmap(k) /\ ~IsExpired(strings[k])
       => \E c \in Clients : Remove(c)]_vars
=============================================================================
