--------------------------- MODULE JavaCollections ---------------------------
(***************************************************************************)
(* The commands of the Java server that change hashes, sets and sorted     *)
(* sets (store/Database.java, command/HashCommands.java, SetCommands.java, *)
(* ZSetCommands.java), run by several worker threads at a time.            *)
(*                                                                         *)
(* Each type has a ConcurrentHashMap from keys to containers, which are    *)
(* concurrent maps or sets themselves.  No command is atomic, and neither  *)
(* are all operations on a container: put and remove first change its      *)
(* names, for all to see, and then the counters that isEmpty adds up, one  *)
(* after the other.  A thread keeps the container it found while others    *)
(* take it out of the map.  Of a container the names in it are kept        *)
(* (fields or members), not what they map to.                              *)
(***************************************************************************)
EXTENDS Resp, FiniteSets, Sequences

CONSTANTS
  Keys, Names,
  Clients,        \* connections, each served by one worker thread at a time
  Containers,     \* bound: the containers ever created
  Null,           \* Java's null
  Commands,       \* the calls clients make
  MaxCalls        \* bound: how many calls they make

Types == {"hash", "set", "zset"}

(* DEL and FLUSHDB have the maps and keys they visit, the others have one. *)
Calls ==
  [name : {"HSET", "HMSET", "HSETNX", "HDEL", "SADD", "SREM", "ZADD", "ZREM", "DEL", "FLUSHDB"},
   slots : Seq(Types \X Keys), names : Seq(Names)]

(* The map a command works on. *)
TypeOf(name) ==
  CASE name \in {"HSET", "HMSET", "HSETNX", "HDEL"} -> "hash"
    [] name \in {"SADD", "SREM"}                   -> "set"
    [] name \in {"ZADD", "ZREM"}                   -> "zset"

ASSUME JavaCollectionsAssumption ==
  /\ IsFiniteSet(Clients)
  /\ Null \notin Types /\ Null \notin Containers /\ Null \notin Commands
  /\ MaxCalls \in Nat
  /\ Commands \subseteq Calls
  /\ \A m \in Commands :
       /\ m.slots # <<>>
       /\ m.name \notin {"DEL", "FLUSHDB"} => m.names # <<>> /\ m.slots[1][1] = TypeOf(m.name)

VARIABLES
  maps,      \* type, key -> container, or Null
  heap,      \* container -> the names in it
  counter,   \* container -> the sum of its counters (ConcurrentHashMap.sumCount)
  kind,      \* container -> the type it was created for, or Null
  pc,        \* client -> the step it is about to make
  call,      \* client -> the call it serves, or Null
  step,      \* client -> index of the name, or of the slot, in hand
  held,      \* client -> the container in the handler's hands, or Null
  hits,      \* client -> what the call has counted so far
  sum,       \* client -> what isEmpty has added up, 0 when it is not at it
  calls,     \* how many calls were made
  answered,  \* history: the sum of the answers to SADD less those to SREM
  fresh,     \* history: client -> what others put at its key since it tested
  overlaps   \* history: client -> how many puts of new names by others at its
             \* key were under way, or came, since it looked for what to remove

histories == <<answered, fresh, overlaps>>
vars == <<maps, heap, counter, kind, pc, call, step, held, hits, sum, calls, histories>>

Slot(c) == call[c].slots[1]
Name(c) == call[c].names[step[c]]
At(slot) == maps[slot[1]][slot[2]]
Contents(slot) == IF At(slot) = Null THEN {} ELSE heap[At(slot)]
----------------------------------------------------------------------------
(* The steps of a call *)

FirstStep(name) ==
  CASE name = "HSET"                                       -> "look"
    [] name \in {"HMSET", "HSETNX", "SADD", "ZADD"}        -> "create"
    [] name \in {"HDEL", "SREM", "ZREM"}                   -> "find"
    [] name \in {"DEL", "FLUSHDB"}                         -> "delete"

(* Where the loop over the names begins again: the commands of sets and    *)
(* sorted sets look the container up once, those of hashes for each name.  *)
LoopStep(name) ==
  CASE name = "SADD"             -> "add"
    [] name = "ZADD"             -> "test"
    [] name \in {"SREM", "ZREM"} -> "remove"
    [] OTHER                     -> FirstStep(name)

Invoke(c, m) ==
  /\ pc[c] = "idle" /\ calls < MaxCalls
  /\ calls' = calls + 1
  /\ call' = [call EXCEPT ![c] = m]
  /\ pc' = [pc EXCEPT ![c] = FirstStep(m.name)]
  /\ UNCHANGED <<maps, heap, counter, kind, step, held, hits, sum, histories>>

Goto(c, s) == pc' = [pc EXCEPT ![c] = s] /\ UNCHANGED <<call, step, hits, answered>>

Return(c, n) ==
  /\ pc' = [pc EXCEPT ![c] = "idle"]
  /\ call' = [call EXCEPT ![c] = Null]
  /\ step' = [step EXCEPT ![c] = 1]
  /\ hits' = [hits EXCEPT ![c] = 0]
  /\ held' = [held EXCEPT ![c] = Null]
  /\ answered' = CASE call[c].name = "SADD" -> answered + n
                   [] call[c].name = "SREM" -> answered - n
                   [] OTHER                 -> answered

(* The next name, or the end, n being what was counted by now.             *)
NextName_Again(c, n, last) == pc' = [pc EXCEPT ![c] = LoopStep(call[c].name)] /\ UNCHANGED <<call, step, hits, held, answered>>
NextName(c, n, last) ==
  \/ step[c] = Len(call[c].names) /\ last = "return" /\ Return(c, n)
  \/ /\ step[c] = Len(call[c].names) /\ last # "return"
     /\ pc' = [pc EXCEPT ![c] = last]
     /\ hits' = [hits EXCEPT ![c] = n]
     /\ UNCHANGED <<call, step, held, answered>>
  \/ /\ step[c] < Len(call[c].names)
     /\ pc' = [pc EXCEPT ![c] = LoopStep(call[c].name)]
     /\ step' = [step EXCEPT ![c] = @ + 1]
     /\ hits' = [hits EXCEPT ![c] = n]
     /\ UNCHANGED <<call, held, answered>>

Removes(s) == s \in {"remove", "uncount", "empty", "sum", "discard"}
----------------------------------------------------------------------------
(* Putting names in *)

Look(c) ==     \* hget: hashes.get(key)
  /\ pc[c] = "look"
  /\ held' = [held EXCEPT ![c] = At(Slot(c))]
  /\ IF At(Slot(c)) = Null
     THEN /\ pc' = [pc EXCEPT ![c] = "create"] /\ hits' = [hits EXCEPT ![c] = @ + 1]
          /\ UNCHANGED <<call, step, answered>>
     ELSE Goto(c, "test")
  /\ UNCHANGED <<maps, heap, counter, kind, sum, calls, fresh, overlaps>>

(* hash.get(field) == null; containsKey of HSETNX and of ZADD.             *)
Test_Ignored(c) ==
  /\ pc[c] = "test"
  /\ Goto(c, IF call[c].name = "HSET" THEN "create" ELSE "put")
  /\ UNCHANGED <<maps, heap, counter, kind, held, sum, calls, fresh, overlaps>>
Test(c) ==
  /\ pc[c] = "test"
  /\ LET there == Name(c) \in heap[held[c]]
     IN  \/ call[c].name = "HSETNX" /\ there /\ Return(c, 0)
         \/ /\ call[c].name # "HSETNX" \/ ~there
            /\ pc' = [pc EXCEPT ![c] = IF call[c].name = "HSET" THEN "create" ELSE "put"]
            /\ hits' = [hits EXCEPT ![c] = IF there THEN @ ELSE @ + 1]
            /\ UNCHANGED <<call, step, held, answered>>
  /\ UNCHANGED <<maps, heap, counter, kind, sum, calls, fresh, overlaps>>

Create(c) ==   \* computeIfAbsent
  /\ pc[c] = "create"
  /\ \/ /\ At(Slot(c)) # Null
        /\ held' = [held EXCEPT ![c] = At(Slot(c))]
        /\ UNCHANGED <<maps, kind>>
     \/ /\ At(Slot(c)) = Null
        /\ \E o \in Containers :
             /\ kind[o] = Null
             /\ kind' = [kind EXCEPT ![o] = Slot(c)[1]]
             /\ maps' = [maps EXCEPT ![Slot(c)[1]][Slot(c)[2]] = o]
             /\ held' = [held EXCEPT ![c] = o]
  /\ Goto(c, CASE call[c].name \in {"HSET", "HMSET"}  -> "put"
               [] call[c].name \in {"HSETNX", "ZADD"} -> "test"
               [] call[c].name = "SADD"               -> "add")
  /\ UNCHANGED <<heap, counter, sum, calls, fresh, overlaps>>

(* A put that replaces a value counts nothing.                             *)
Enter(c, n) ==
  LET new == Name(c) \notin heap[held[c]]
  IN  /\ heap' = [heap EXCEPT ![held[c]] = @ \cup {Name(c)}]
      /\ \/ ~new /\ NextName(c, hits[c], "return")
         \/ /\ new
            /\ pc' = [pc EXCEPT ![c] = "count"] /\ hits' = [hits EXCEPT ![c] = n]
            /\ UNCHANGED <<call, step, held, answered>>
      /\ fresh' = [d \in Clients |-> IF d = c THEN {}
                                     ELSE IF pc[d] = "put" /\ Slot(d) = Slot(c)
                                     THEN fresh[d] \cup {Name(c)} ELSE fresh[d]]
      /\ overlaps' = [d \in Clients |-> IF new /\ Removes(pc[d]) /\ Slot(d) = Slot(c)
                                        THEN overlaps[d] + 1 ELSE overlaps[d]]
      /\ UNCHANGED <<maps, counter, kind, sum, calls>>

Put(c) == pc[c] = "put" /\ Enter(c, hits[c])
Add(c) == pc[c] = "add" /\ Enter(c, hits[c] + 1)   \* Set.add tells whether the member is new

(* addCount adds to one of the counters.  Who is adding them up has passed *)
(* it already, or not.                                                     *)
AddCount(o, n) ==
  /\ counter' = [counter EXCEPT ![o] = @ + n]
  /\ \E seen \in SUBSET {d \in Clients : pc[d] = "sum" /\ held[d] = o} :
       sum' = [d \in Clients |-> IF d \in seen THEN sum[d] + n ELSE sum[d]]

Count_Twice(c) ==
  /\ pc[c] = "count"
  /\ AddCount(held[c], 1)
  /\ NextName(c, hits[c] + 1, "return")
  /\ UNCHANGED <<maps, heap, kind, calls, fresh, overlaps>>
Count(c) ==
  /\ pc[c] = "count"
  /\ AddCount(held[c], 1)
  /\ NextName(c, hits[c], "return")
  /\ UNCHANGED <<maps, heap, kind, calls, fresh, overlaps>>
----------------------------------------------------------------------------
(* Taking names out *)

Find_Unchecked(c) ==
  /\ pc[c] = "find" /\ Goto(c, "remove")
  /\ held' = [held EXCEPT ![c] = At(Slot(c))]
  /\ UNCHANGED <<maps, heap, counter, kind, sum, calls, fresh, overlaps>>
Find(c) ==     \* the map's get(key)
  /\ pc[c] = "find"
  /\ held' = [held EXCEPT ![c] = At(Slot(c))]
  /\ \/ /\ At(Slot(c)) # Null
        /\ Goto(c, "remove")
        /\ overlaps' = [overlaps EXCEPT ![c] =
             Cardinality({d \in Clients : pc[d] = "count" /\ held[d] = At(Slot(c))})]
     \/ At(Slot(c)) = Null /\ call[c].name = "HDEL" /\ NextName(c, hits[c], "return") /\ UNCHANGED overlaps
     \/ At(Slot(c)) = Null /\ call[c].name # "HDEL" /\ Return(c, 0) /\ UNCHANGED overlaps
  /\ UNCHANGED <<maps, heap, counter, kind, sum, calls, fresh>>

(* HDEL tests the container after each field, the others in the end.       *)
Removed(c) ==
  \/ call[c].name = "HDEL" /\ Goto(c, "empty") /\ UNCHANGED held
  \/ call[c].name # "HDEL" /\ NextName(c, hits[c], "empty")

Remove(c) ==
  /\ pc[c] = "remove"
  /\ heap' = [heap EXCEPT ![held[c]] = @ \ {Name(c)}]
  /\ \/ /\ Name(c) \in heap[held[c]]
        /\ pc' = [pc EXCEPT ![c] = "uncount"] /\ hits' = [hits EXCEPT ![c] = @ + 1]
        /\ UNCHANGED <<call, step, held, answered>>
     \/ Name(c) \notin heap[held[c]] /\ Removed(c)
  /\ UNCHANGED <<maps, counter, kind, sum, calls, fresh, overlaps>>

Uncount(c) ==
  /\ pc[c] = "uncount"
  /\ AddCount(held[c], -1)
  /\ Removed(c)
  /\ UNCHANGED <<maps, heap, kind, calls, fresh, overlaps>>

Finish(c) ==
  /\ overlaps' = [overlaps EXCEPT ![c] = 0]
  /\ \/ call[c].name = "HDEL" /\ NextName(c, hits[c], "return")
     \/ call[c].name # "HDEL" /\ Return(c, hits[c])

(* isEmpty adds the counters up, and then tells whether there are any.     *)
AddUp(c) ==
  /\ pc[c] = "empty" /\ Goto(c, "sum")
  /\ sum' = [sum EXCEPT ![c] = counter[held[c]]]
  /\ UNCHANGED <<maps, heap, counter, kind, held, calls, fresh, overlaps>>

IsEmpty_Always(c) ==
  /\ pc[c] = "sum" /\ Goto(c, "discard")
  /\ sum' = [sum EXCEPT ![c] = 0]
  /\ UNCHANGED <<maps, heap, counter, kind, held, calls, fresh, overlaps>>
IsEmpty(c) ==
  /\ pc[c] = "sum"
  /\ sum' = [sum EXCEPT ![c] = 0]
  /\ \/ sum[c] <= 0 /\ Goto(c, "discard") /\ UNCHANGED <<held, overlaps>>
     \/ sum[c] > 0 /\ Finish(c)
  /\ UNCHANGED <<maps, heap, counter, kind, calls, fresh>>

Discard(c) ==  \* the map's remove(key): whatever it maps to by then
  /\ pc[c] = "discard"
  /\ maps' = [maps EXCEPT ![Slot(c)[1]][Slot(c)[2]] = Null]
  /\ Finish(c)
  /\ UNCHANGED <<heap, counter, kind, sum, calls, fresh>>

(* DEL takes a key out of one map after the other; so does FLUSHDB, which  *)
(* clears the maps, as clear takes one key after the other.                *)
Delete(c) ==
  LET slot == call[c].slots[step[c]]
  IN  /\ pc[c] = "delete"
      /\ maps' = [maps EXCEPT ![slot[1]][slot[2]] = Null]
      /\ \/ step[c] = Len(call[c].slots) /\ Return(c, 0)
         \/ /\ step[c] < Len(call[c].slots)
            /\ step' = [step EXCEPT ![c] = @ + 1]
            /\ UNCHANGED <<pc, call, hits, held, answered>>
      /\ UNCHANGED <<heap, counter, kind, sum, calls, fresh, overlaps>>
----------------------------------------------------------------------------
Init ==
  /\ maps = [t \in Types |-> [k \in Keys |-> Null]]
  /\ heap = [o \in Containers |-> {}] /\ counter = [o \in Containers |-> 0]
  /\ kind = [o \in Containers |-> Null]
  /\ pc = [c \in Clients |-> "idle"] /\ call = [c \in Clients |-> Null]
  /\ step = [c \in Clients |-> 1] /\ held = [c \in Clients |-> Null]
  /\ hits = [c \in Clients |-> 0] /\ sum = [c \in Clients |-> 0] /\ calls = 0
  /\ answered = 0 /\ fresh = [c \in Clients |-> {}] /\ overlaps = [c \in Clients |-> 0]

Work(c) ==
  \/ Look(c) \/ Test(c) \/ Create(c) \/ Put(c) \/ Add(c) \/ Count(c)
  \/ Find(c) \/ Remove(c) \/ Uncount(c) \/ AddUp(c) \/ IsEmpty(c) \/ Discard(c) \/ Delete(c)

Next == \E c \in Clients : Work(c) \/ \E m \in Commands : Invoke(c, m)

(* Worker threads are scheduled; no client has to call.                    *)
Spec == Init /\ [][Next]_vars
FairSpec == Spec /\ \A c \in Clients : WF_vars(Work(c))
----------------------------------------------------------------------------
(* Properties *)

(* A thread that works on a container has one that was created, and only   *)
(* such containers are in the maps.                                        *)
TypeOK ==
  /\ kind \in [Containers -> Types \cup {Null}] /\ heap \in [Containers -> SUBSET Names]
  /\ counter \in [Containers -> Int] /\ sum \in [Clients -> Int] /\ overlaps \in [Clients -> Nat]
  /\ \A t \in Types, k \in Keys : maps[t][k] # Null => kind[maps[t][k]] = t
  /\ call \in [Clients -> Commands \cup {Null}]
  /\ \A c \in Clients :
       /\ pc[c] = "idle" <=> call[c] = Null
       /\ pc[c] \in {"put", "add", "count", "test"} \/ Removes(pc[c]) =>
            held[c] \in Containers /\ kind[held[c]] = Slot(c)[1]
       /\ pc[c] \notin {"idle", "delete"} => step[c] \in DOMAIN call[c].names
       /\ fresh[c] \subseteq Names

(* Names leave a key by a call that names them, by DEL or FLUSHDB, or when *)
(* a call that removed something discards a container it takes for empty.  *)
(* That takes away no more names than there were puts by others at the key *)
(* under way when the call looked, or coming after that: but which names   *)
(* it takes is open, and one put long before may be among them.            *)
(* (Database.java, hset, claims more: that it is thread safe.)             *)
Acts(c) == pc'[c] # pc[c] \/ step'[c] # step[c]
Takes(c, slot, lost) ==
  \/ pc[c] = "remove" /\ Slot(c) = slot /\ lost = {Name(c)}
  \/ pc[c] = "delete" /\ call[c].slots[step[c]] = slot
  \/ pc[c] = "discard" /\ Slot(c) = slot /\ Cardinality(lost) <= overlaps[c]
LossesOverlap ==
  [][\A t \in Types, k \in Keys :
       LET lost == Contents(<<t, k>>) \ Contents(<<t, k>>)'
       IN  lost # {} => \E c \in Clients : Acts(c) /\ Takes(c, <<t, k>>, lost)]_vars

(* HSETNX puts over a field that is there only if that was put between its *)
(* test and its own put: it never touches a field it could have seen.      *)
NxOverridesFreshOnly ==
  [][\A c \in Clients :
       /\ pc[c] = "put" /\ call[c].name = "HSETNX" /\ pc'[c] = "idle"
       /\ Name(c) \in heap[held[c]]
       => Name(c) \in fresh[c]]_vars

(* However calls interleave and containers are discarded, what SADD and    *)
(* SREM counted is what was really added and removed: the answers add up   *)
(* to the members of all sets there ever were, those discarded included.   *)
InFlight(name) == [c \in Clients |-> IF pc[c] # "idle" /\ call[c].name = name THEN hits[c] ELSE 0]
Total(f) == Cardinality(UNION {{c} \X (1 .. f[c]) : c \in DOMAIN f})   \* the sum of a function
Members == UNION {{o} \X heap[o] : o \in {p \in Containers : kind[p] = "set"}}
SetCountsAddUp ==
  answered + Total(InFlight("SADD")) - Total(InFlight("SREM")) = Cardinality(Members)

(* Every call is answered.                                                 *)
CallsReturn == \A c \in Clients : pc[c] # "idle" ~> pc[c] = "idle"
=============================================================================
