----------------------- MODULE JavaCollectionsProofs -----------------------
(***************************************************************************)
(* For any number of keys, names, clients and calls: what a thread works   *)
(* on, how many names can be lost to a race and which fields HSETNX can    *)
(* put over.                                                               *)
(*                                                                         *)
(* The argument.  A container is only ever in the map under one key, and   *)
(* whoever holds it holds it for that key (Homes): so what one thread puts *)
(* into its container is noted by all others that work on the same key.    *)
(* The counter of a container is the number of its names, less the puts    *)
(* that have not counted yet and plus the removals that have not           *)
(* (TallyOK).  A thread that removes names therefore adds up too few by no *)
(* more than the puts it overlaps with, which bounds what it discards when *)
(* it takes a container for empty; and if another container is at its key  *)
(* by then, all that is in it was put since it looked (RemovalKnows).      *)
(***************************************************************************)
EXTENDS JavaCollections, Counting

Steps == {"idle", "look", "test", "create", "put", "add", "count",
          "find", "remove", "uncount", "empty", "sum", "discard", "delete"}

(* The calls that come to a step.                                          *)
Comers(s) ==
  CASE s = "idle"   -> {}
    [] s = "look"   -> {"HSET"}
    [] s = "create" -> {"HSET", "HMSET", "HSETNX", "SADD", "ZADD"}
    [] s = "test"   -> {"HSET", "HSETNX", "ZADD"}
    [] s = "put"    -> {"HSET", "HMSET", "HSETNX", "ZADD"}
    [] s = "add"    -> {"SADD"}
    [] s = "count"  -> {"HSET", "HMSET", "HSETNX", "SADD", "ZADD"}
    [] s = "delete" -> {"DEL", "FLUSHDB"}
    [] OTHER        -> {"HDEL", "SREM", "ZREM"}

Frames ==
  /\ pc \in [Clients -> Steps]
  /\ call \in [Clients -> Commands \cup {Null}]
  /\ step \in [Clients -> Nat \ {0}]
  /\ held \in [Clients -> Containers \cup {Null}]
  /\ fresh \in [Clients -> SUBSET Names]
  /\ sum \in [Clients -> Int]
  /\ overlaps \in [Clients -> Nat]

ClientOK(c) ==
  /\ pc[c] = "idle" => call[c] = Null /\ held[c] = Null /\ step[c] = 1
  /\ pc[c] # "idle" => call[c] \in Commands /\ call[c].name \in Comers(pc[c])
  /\ pc[c] \notin {"idle", "delete"} => step[c] \in 1 .. Len(call[c].names)
  /\ pc[c] = "delete" => step[c] \in 1 .. Len(call[c].slots)
  /\ pc[c] \in {"put", "add", "count", "test"} \/ Removes(pc[c]) => held[c] # Null

StoreOK ==
  /\ maps \in [Types -> [Keys -> Containers \cup {Null}]]
  /\ heap \in [Containers -> SUBSET Names]
  /\ kind \in [Containers -> Types \cup {Null}]
  /\ \A o \in Containers : kind[o] = Null => heap[o] = {}
  /\ \A t \in Types, k \in Keys : maps[t][k] # Null => kind[maps[t][k]] = t
  /\ \A t \in Types, k \in Keys, q \in Keys : maps[t][k] # Null /\ maps[t][k] = maps[t][q] => k = q

Homes ==
  /\ \A c \in Clients : held[c] # Null => kind[held[c]] = Slot(c)[1]
  /\ \A c \in Clients, k \in Keys :
       held[c] # Null /\ maps[Slot(c)[1]][k] = held[c] => k = Slot(c)[2]
  /\ \A c \in Clients, d \in Clients : held[c] # Null /\ held[c] = held[d] => Slot(c) = Slot(d)

(* Of each container: how many names it has, and how many clients have put *)
(* one in, or taken one out, and not counted that yet.                     *)
Sizes == [o \in Containers |-> Cardinality(heap[o])]
Adding == [o \in Containers |-> Cardinality({c \in Clients : pc[c] = "count" /\ held[c] = o})]
Taking == [o \in Containers |-> Cardinality({c \in Clients : pc[c] = "uncount" /\ held[c] = o})]

TallyOK ==
  /\ counter \in [Containers -> Int]
  /\ \A o \in Containers : IsFiniteSet(heap[o]) /\ counter[o] = Sizes[o] - Adding[o] + Taking[o]

RemovalKnows(c) ==
  Removes(pc[c]) =>
    /\ pc[c] \in {"remove", "uncount", "empty"} => Adding[held[c]] <= overlaps[c]
    /\ pc[c] = "sum" => Sizes[held[c]] + Taking[held[c]] <= sum[c] + overlaps[c]
    /\ pc[c] = "discard" => Sizes[held[c]] <= overlaps[c]
    /\ At(Slot(c)) \in {held[c], Null} \/ Sizes[At(Slot(c))] <= overlaps[c]

NxKnows(c) ==
  pc[c] = "put" /\ call[c].name = "HSETNX" => Name(c) \notin heap[held[c]] \/ Name(c) \in fresh[c]

Knows(c) == RemovalKnows(c) /\ NxKnows(c)

ClientsOK == Frames /\ \A c \in Clients : ClientOK(c)

Inv == ClientsOK /\ StoreOK /\ Homes /\ TallyOK /\ \A c \in Clients : Knows(c)
----------------------------------------------------------------------------
(* What the commands are made of. *)

LEMMA CommandFacts ==
  ASSUME NEW m \in Commands
  PROVE  /\ m.slots \in Seq(Types \X Keys) /\ m.names \in Seq(Names)
         /\ 1 \in 1 .. Len(m.slots) /\ m.slots[1] \in Types \X Keys
         /\ m.name \in {"HSET", "HMSET", "HSETNX", "HDEL", "SADD", "SREM", "ZADD", "ZREM", "DEL", "FLUSHDB"}
         /\ m.name \notin {"DEL", "FLUSHDB"} => 1 \in 1 .. Len(m.names)
  <1>1. m \in Calls
    BY JavaCollectionsAssumption
  <1>2. m.slots \in Seq(Types \X Keys) /\ m.names \in Seq(Names)
    BY <1>1 DEF Calls
  <1>3. m.slots # <<>> /\ (m.name \notin {"DEL", "FLUSHDB"} => m.names # <<>>)
    BY JavaCollectionsAssumption
  <1>4. Len(m.slots) \in Nat \ {0} /\ (m.name \notin {"DEL", "FLUSHDB"} => Len(m.names) \in Nat \ {0})
    BY <1>2, <1>3
  <1>5. 1 \in 1 .. Len(m.slots) /\ m.slots[1] \in Types \X Keys
    BY <1>2, <1>4
  <1> QED  BY <1>1, <1>2, <1>4, <1>5 DEF Calls

(* The key and the name a client that is serving a call works on.          *)
LEMMA ClientFacts ==
  ASSUME ClientsOK, NEW c \in Clients, pc[c] # "idle"
  PROVE  /\ call[c] \in Commands
         /\ Slot(c) \in Types \X Keys /\ Slot(c)[1] \in Types /\ Slot(c)[2] \in Keys
         /\ Slot(c) = <<Slot(c)[1], Slot(c)[2]>>
         /\ pc[c] # "delete" => Name(c) \in Names
         /\ pc[c] = "delete" => call[c].slots[step[c]] \in Types \X Keys
  <1>1. call[c] \in Commands
    BY DEF ClientsOK, ClientOK
  <1>2. Slot(c) \in Types \X Keys
    BY <1>1, CommandFacts DEF Slot
  <1>3. pc[c] # "delete" => Name(c) \in Names
    BY <1>1, CommandFacts DEF Name, ClientsOK, ClientOK
  <1>4. pc[c] = "delete" => call[c].slots[step[c]] \in Types \X Keys
    BY <1>1, CommandFacts DEF ClientsOK, ClientOK
  <1> QED  BY <1>1, <1>2, <1>3, <1>4
----------------------------------------------------------------------------
(* Where a client goes. *)

(* A step of one client leaves the others where they are, and it forgets   *)
(* its container when it is done with the call.                            *)
Others(c) ==
  \A d \in Clients \ {c} :
    pc'[d] = pc[d] /\ call'[d] = call[d] /\ step'[d] = step[d] /\ held'[d] = held[d]

Moves(c) ==
  /\ pc' \in [Clients -> Steps] /\ call' \in [Clients -> Commands \cup {Null}]
  /\ step' \in [Clients -> Nat \ {0}] /\ held' \in [Clients -> Containers \cup {Null}]
  /\ ClientOK(c)' /\ Others(c)
  /\ held'[c] # Null => call'[c] = call[c] /\ pc[c] # "idle"

LEMMA ReturnMoves ==
  ASSUME ClientsOK, NEW c \in Clients, NEW n, Return(c, n)
  PROVE  Moves(c) /\ pc'[c] = "idle" /\ held'[c] = Null
  BY DEF Return, Moves, Others, ClientsOK, ClientOK, Frames, Steps, Removes

LEMMA NextNameMoves ==
  ASSUME ClientsOK, NEW c \in Clients, NEW n, NEW last \in {"return", "empty"}, NextName(c, n, last),
         \/ pc[c] \in {"put", "add", "count"} /\ last = "return"
         \/ pc[c] \in {"find", "sum", "discard"} /\ call[c].name = "HDEL" /\ last = "return"
         \/ pc[c] \in {"remove", "uncount"} /\ call[c].name # "HDEL" /\ last = "empty"
  PROVE  /\ Moves(c)
         /\ held'[c] \in {held[c], Null}
         /\ \/ pc'[c] = "idle"
            \/ pc'[c] = "empty" /\ last = "empty" /\ UNCHANGED <<call, held>>
            \/ /\ pc'[c] = LoopStep(call[c].name) /\ step'[c] = step[c] + 1
               /\ UNCHANGED <<call, held>>
  <1>1. CASE Return(c, n)
    BY <1>1, ReturnMoves
  <1>2. CASE /\ step[c] = Len(call[c].names) /\ last = "empty"
             /\ pc' = [pc EXCEPT ![c] = last] /\ UNCHANGED <<call, step, held>>
    BY <1>2 DEF Moves, Others, ClientsOK, ClientOK, Frames, Steps, Comers, Removes
  <1>3. CASE /\ step[c] < Len(call[c].names)
             /\ pc' = [pc EXCEPT ![c] = LoopStep(call[c].name)]
             /\ step' = [step EXCEPT ![c] = @ + 1]
             /\ UNCHANGED <<call, held>>
    <2>1. call[c] \in Commands /\ call[c].name \in Comers(pc[c])
      BY DEF ClientsOK, ClientOK
    <2>2. step'[c] \in 1 .. Len(call[c].names) /\ step'[c] \in Nat \ {0}
      BY <1>3, <2>1, CommandFacts DEF ClientsOK, ClientOK, Frames
    <2>3. LoopStep(call[c].name) \in Steps \ {"idle", "delete"} /\ call[c].name \in Comers(LoopStep(call[c].name))
      BY <2>1 DEF Comers, LoopStep, FirstStep, Steps
    <2>4. LET s == LoopStep(call[c].name)
          IN  s \in {"put", "add", "count", "test"} \/ Removes(s) => held[c] # Null
      BY <2>1 DEF Comers, LoopStep, FirstStep, ClientsOK, ClientOK, Removes
    <2> QED  BY <1>3, <2>1, <2>2, <2>3, <2>4 DEF Moves, Others, ClientsOK, ClientOK, Frames
  <1> QED  BY <1>1, <1>2, <1>3 DEF NextName

LEMMA InvokeMoves ==
  ASSUME ClientsOK, NEW c \in Clients, NEW m \in Commands, Invoke(c, m)
  PROVE  Moves(c) /\ held'[c] = Null /\ pc'[c] \in {"look", "create", "find", "delete"}
  <1>1. pc[c] = "idle" /\ held[c] = Null /\ step[c] = 1
    BY DEF Invoke, ClientsOK, ClientOK
  <1>2. /\ FirstStep(m.name) \in {"look", "create", "find", "delete"}
        /\ m.name \in Comers(FirstStep(m.name))
        /\ FirstStep(m.name) = "delete" => m.name \in {"DEL", "FLUSHDB"}
        /\ FirstStep(m.name) # "delete" => m.name \notin {"DEL", "FLUSHDB"}
    BY CommandFacts DEF FirstStep, Comers
  <1> QED  BY <1>1, <1>2, CommandFacts DEF Invoke, Moves, Others, ClientsOK, ClientOK, Frames, Steps, Removes

(* The container at a key, if any.                                         *)
LEMMA AtType ==
  ASSUME ClientsOK, StoreOK, NEW c \in Clients, pc[c] # "idle"
  PROVE  /\ At(Slot(c)) \in Containers \cup {Null}
         /\ At(Slot(c)) # Null => kind[At(Slot(c))] = Slot(c)[1]
  BY ClientFacts DEF At, StoreOK

LEMMA WorkMoves ==
  ASSUME ClientsOK, StoreOK, NEW c \in Clients, Work(c)
  PROVE  Moves(c)
  <1> USE DEF Goto, Removes
  <1>1. CASE Look(c)
    BY <1>1, AtType DEF Look, Moves, Others, ClientsOK, ClientOK, Frames, Steps, Comers
  <1>2. CASE Test(c)
    <2>1. CASE Return(c, 0)
      BY <2>1, ReturnMoves
    <2>2. CASE /\ pc' = [pc EXCEPT ![c] = IF call[c].name = "HSET" THEN "create" ELSE "put"]
               /\ UNCHANGED <<call, step, held>>
      BY <1>2, <2>2 DEF Test, Moves, Others, ClientsOK, ClientOK, Frames, Steps, Comers
    <2> QED  BY <1>2, <2>1, <2>2 DEF Test
  <1>3. CASE Create(c)
    <2>1. /\ held'[c] \in Containers /\ held' = [held EXCEPT ![c] = held'[c]]
          /\ held'[c] # Null
      BY <1>3, AtType, JavaCollectionsAssumption DEF Create, ClientsOK, Frames
    <2>2. call[c] \in Commands /\ call[c].name \in Comers("create")
      BY <1>3 DEF Create, ClientsOK, ClientOK
    <2>3. /\ pc'[c] \in {"put", "test", "add"} /\ pc' = [pc EXCEPT ![c] = pc'[c]]
          /\ call[c].name \in Comers(pc'[c]) /\ UNCHANGED <<call, step>>
      BY <1>3, <2>2 DEF Create, ClientsOK, Frames, Comers
    <2> QED  BY <1>3, <2>1, <2>2, <2>3 DEF Create, Moves, Others, ClientsOK, ClientOK, Frames, Steps
  <1>4. CASE Put(c) \/ Add(c)
    <2>1. pc[c] \in {"put", "add"}
      BY <1>4 DEF Put, Add
    <2>2. CASE NextName(c, hits[c], "return")
      BY <2>1, <2>2, NextNameMoves
    <2>3. CASE pc' = [pc EXCEPT ![c] = "count"] /\ UNCHANGED <<call, step, held>>
      BY <2>1, <2>3 DEF Moves, Others, ClientsOK, ClientOK, Frames, Steps, Comers
    <2> QED  BY <1>4, <2>2, <2>3 DEF Put, Add, Enter
  <1>5. CASE Count(c)
    BY <1>5, NextNameMoves DEF Count
  <1>6. CASE Find(c)
    <2>1. CASE At(Slot(c)) # Null
      BY <1>6, <2>1, AtType DEF Find, Moves, Others, ClientsOK, ClientOK, Frames, Steps, Comers
    <2>2. CASE At(Slot(c)) = Null /\ call[c].name = "HDEL" /\ NextName(c, hits[c], "return")
      BY <1>6, <2>2, NextNameMoves DEF Find
    <2>3. CASE Return(c, 0)
      BY <2>3, ReturnMoves
    <2> QED  BY <1>6, <2>1, <2>2, <2>3 DEF Find
  <1>7. CASE Remove(c) \/ Uncount(c)
    <2>1. pc[c] \in {"remove", "uncount"}
      BY <1>7 DEF Remove, Uncount
    <2>2. CASE pc' = [pc EXCEPT ![c] = "uncount"] /\ UNCHANGED <<call, step, held>>
      BY <2>1, <2>2 DEF Moves, Others, ClientsOK, ClientOK, Frames, Steps, Comers
    <2>3. CASE call[c].name = "HDEL" /\ Goto(c, "empty") /\ UNCHANGED held
      BY <2>1, <2>3 DEF Moves, Others, ClientsOK, ClientOK, Frames, Steps, Comers
    <2>4. CASE call[c].name # "HDEL" /\ NextName(c, hits[c], "empty")
      BY <2>1, <2>4, NextNameMoves
    <2> QED  BY <1>7, <2>2, <2>3, <2>4 DEF Remove, Uncount, Removed
  <1>8. CASE IsEmpty(c)
    <2>1. CASE Goto(c, "discard") /\ UNCHANGED held
      BY <1>8, <2>1 DEF IsEmpty, Moves, Others, ClientsOK, ClientOK, Frames, Steps, Comers
    <2>2. CASE Finish(c)
      BY <1>8, <2>2, NextNameMoves, ReturnMoves DEF IsEmpty, Finish
    <2> QED  BY <1>8, <2>1, <2>2 DEF IsEmpty
  <1>9. CASE Discard(c)
    BY <1>9, NextNameMoves, ReturnMoves DEF Discard, Finish
  <1>10. CASE Delete(c)
    <2>1. CASE step[c] = Len(call[c].slots) /\ Return(c, 0)
      BY <2>1, ReturnMoves
    <2>2. CASE /\ step[c] < Len(call[c].slots) /\ step' = [step EXCEPT ![c] = @ + 1]
               /\ UNCHANGED <<pc, call, hits, held, answered>>
      <3>1. call[c] \in Commands /\ step[c] + 1 \in 1 .. Len(call[c].slots) /\ step[c] + 1 \in Nat \ {0}
        BY <1>10, <2>2, CommandFacts DEF Delete, ClientsOK, ClientOK, Frames
      <3> QED  BY <1>10, <2>2, <3>1 DEF Delete, Moves, Others, ClientsOK, ClientOK, Frames
    <2> QED  BY <1>10, <2>1, <2>2 DEF Delete
  <1>11. CASE AddUp(c)
    BY <1>11 DEF AddUp, Moves, Others, ClientsOK, ClientOK, Frames, Steps, Comers
  <1> QED  BY <1>1, <1>2, <1>3, <1>4, <1>5, <1>6, <1>7, <1>8, <1>9, <1>10, <1>11 DEF Work
----------------------------------------------------------------------------
(* What a step does to the maps and the containers. *)

Reads(c) == UNCHANGED <<maps, heap, kind>> /\ held'[c] \in {held[c], Null, At(Slot(c))}

Creates(c) ==
  /\ At(Slot(c)) = Null
  /\ \E o \in Containers :
       /\ kind[o] = Null /\ held'[c] = o
       /\ kind' = [kind EXCEPT ![o] = Slot(c)[1]]
       /\ maps' = [maps EXCEPT ![Slot(c)[1]][Slot(c)[2]] = o]
  /\ UNCHANGED heap

Changes(c, S) ==
  /\ held[c] # Null /\ held'[c] \in {held[c], Null}
  /\ S \in SUBSET Names /\ heap' = [heap EXCEPT ![held[c]] = S]
  /\ UNCHANGED <<maps, kind>>

Drops(c, slot) ==
  /\ maps' = [maps EXCEPT ![slot[1]][slot[2]] = Null]
  /\ held'[c] \in {held[c], Null}
  /\ UNCHANGED <<heap, kind>>

(* The slot of a client that still holds a container after a step is the   *)
(* one it had before.                                                      *)
LEMMA SlotsStay ==
  ASSUME ClientsOK, NEW c \in Clients, Moves(c), NEW d \in Clients, held'[d] # Null
  PROVE  Slot(d)' = Slot(d) /\ pc[d] # "idle"
  <1>1. CASE d = c
    BY <1>1 DEF Moves, Slot
  <1>2. CASE d # c
    BY <1>2 DEF Moves, Others, Slot, ClientsOK, ClientOK
  <1> QED  BY <1>1, <1>2

LEMMA ReadsKeepHomes ==
  ASSUME ClientsOK, StoreOK, Homes, NEW c \in Clients, Moves(c), Reads(c)
  PROVE  StoreOK' /\ Homes'
  <1>1. StoreOK'
    BY DEF Reads, StoreOK
  <1>2. \A d \in Clients : held'[d] # Null =>
           /\ Slot(d)' = Slot(d) /\ Slot(d)[1] \in Types /\ Slot(d)[2] \in Keys
           /\ held'[d] \in {held[d], At(Slot(d))} /\ (d # c => held'[d] = held[d])
    BY SlotsStay, ClientFacts DEF Reads, Moves, Others
  <1>3. ASSUME NEW d \in Clients, held'[d] # Null
        PROVE  kind'[held'[d]] = Slot(d)'[1]
    BY <1>2, <1>3 DEF Reads, Homes, StoreOK, At
  <1>4. ASSUME NEW d \in Clients, NEW k \in Keys, held'[d] # Null, maps'[Slot(d)'[1]][k] = held'[d]
        PROVE  k = Slot(d)'[2]
    BY <1>2, <1>4 DEF Reads, Homes, StoreOK, At
  <1>5. ASSUME NEW d \in Clients, NEW e \in Clients, held[d] # Null, pc[e] # "idle", held[d] = At(Slot(e))
        PROVE  Slot(d) = Slot(e)
    <2>1. pc[d] # "idle"
      BY <1>5 DEF ClientsOK, ClientOK
    <2>2. Slot(e)[1] \in Types /\ Slot(e)[2] \in Keys
      BY <1>5, ClientFacts
    <2>3. Slot(d)[1] = Slot(e)[1]
      BY <1>5, <2>2 DEF Homes, StoreOK, At
    <2>4. Slot(d)[2] = Slot(e)[2]
      BY <1>5, <2>2, <2>3 DEF Homes, At
    <2>5. Slot(d) = <<Slot(d)[1], Slot(d)[2]>> /\ Slot(e) = <<Slot(e)[1], Slot(e)[2]>>
      BY <1>5, <2>1, ClientFacts
    <2> QED  BY <2>3, <2>4, <2>5
  <1>6. ASSUME NEW d \in Clients, NEW e \in Clients, held'[d] # Null, held'[d] = held'[e]
        PROVE  Slot(d)' = Slot(e)'
    <2>1. Slot(d)' = Slot(d) /\ Slot(e)' = Slot(e) /\ pc[d] # "idle" /\ pc[e] # "idle"
      BY <1>6, SlotsStay
    <2>2. CASE held'[d] = held[d] /\ held'[e] = held[e]
      <3>1. Slot(d) = Slot(e)
        BY <1>6, <2>2 DEF Homes
      <3> QED  BY <2>1, <3>1
    <2>3. CASE held'[d] = At(Slot(d)) /\ held'[e] = held[e]
      <3>1. Slot(e) = Slot(d)
        BY <1>5, <1>6, <2>1, <2>3
      <3> QED  BY <2>1, <3>1
    <2>4. CASE held'[d] = held[d] /\ held'[e] = At(Slot(e))
      <3>1. Slot(d) = Slot(e)
        BY <1>5, <1>6, <2>1, <2>4
      <3> QED  BY <2>1, <3>1
    <2>5. CASE d = e
      BY <2>5
    <2>6. \/ d = e
          \/ held'[d] \in {held[d], At(Slot(d))} /\ held'[e] = held[e]
          \/ held'[d] = held[d] /\ held'[e] \in {held[e], At(Slot(e))}
      BY <1>6 DEF Reads, Moves, Others
    <2> QED  BY <2>2, <2>3, <2>4, <2>5, <2>6
  <1> QED  BY <1>1, <1>3, <1>4, <1>6 DEF Homes

LEMMA CreatesKeepHomes ==
  ASSUME ClientsOK, StoreOK, Homes, NEW c \in Clients, pc[c] # "idle", Moves(c), Creates(c)
  PROVE  StoreOK' /\ Homes'
  <1> DEFINE t == Slot(c)[1]
             q == Slot(c)[2]
  <1>1. t \in Types /\ q \in Keys /\ Slot(c) = <<t, q>>
    BY ClientFacts
  <1>2. PICK o \in Containers :
          /\ kind[o] = Null /\ held'[c] = o
          /\ kind' = [kind EXCEPT ![o] = t]
          /\ maps' = [maps EXCEPT ![t][q] = o]
    BY DEF Creates
  <1> HIDE DEF t, q
  <1>3. /\ o # Null /\ t # Null /\ UNCHANGED heap
        /\ \A r \in Types, k \in Keys : maps[r][k] # o
        /\ \A d \in Clients : held[d] # o
    <2>1. o # Null /\ t # Null /\ UNCHANGED heap
      BY <1>1, JavaCollectionsAssumption DEF Creates
    <2>2. \A r \in Types, k \in Keys : maps[r][k] # o
      BY <1>2, <2>1, JavaCollectionsAssumption DEF StoreOK
    <2>3. ASSUME NEW d \in Clients, held[d] = o
          PROVE  FALSE
      <3>1. pc[d] # "idle" /\ kind[o] = Slot(d)[1]
        BY <2>1, <2>3 DEF Homes, ClientsOK, ClientOK
      <3> QED  BY <1>2, <3>1, ClientFacts, JavaCollectionsAssumption
    <2> QED  BY <2>1, <2>2, <2>3
  <1>4. \A r \in Types, k \in Keys : maps'[r][k] = IF r = t /\ k = q THEN o ELSE maps[r][k]
    BY <1>1, <1>2 DEF StoreOK
  <1>5. StoreOK'
    <2>1. maps' \in [Types -> [Keys -> Containers \cup {Null}]]
      BY <1>1, <1>2 DEF StoreOK
    <2>2. kind' \in [Containers -> Types \cup {Null}] /\ heap' \in [Containers -> SUBSET Names]
      BY <1>1, <1>2, <1>3 DEF StoreOK
    <2>3. \A p \in Containers : kind'[p] = IF p = o THEN t ELSE kind[p]
      BY <1>2 DEF StoreOK
    <2>4. \A p \in Containers : kind'[p] = Null => heap'[p] = {}
      BY <1>3, <2>3 DEF StoreOK
    <2>5. \A r \in Types, k \in Keys : maps'[r][k] # Null => kind'[maps'[r][k]] = r
      BY <1>3, <1>4, <2>3 DEF StoreOK
    <2>6. \A r \in Types, k \in Keys, l \in Keys : maps'[r][k] # Null /\ maps'[r][k] = maps'[r][l] => k = l
      BY <1>3, <1>4 DEF StoreOK
    <2> QED  BY <2>1, <2>2, <2>4, <2>5, <2>6 DEF StoreOK
  <1>6. \A d \in Clients : held'[d] # Null =>
           /\ Slot(d)' = Slot(d) /\ Slot(d)[1] \in Types /\ (d # c => held'[d] = held[d] /\ held'[d] # o)
    BY <1>3, SlotsStay, ClientFacts DEF Moves, Others
  <1>7. ASSUME NEW d \in Clients, held'[d] # Null
        PROVE  kind'[held'[d]] = Slot(d)'[1]
    <2>1. CASE d = c
      BY <1>2, <1>6, <1>7, <2>1 DEF t, StoreOK
    <2>2. CASE d # c
      BY <1>2, <1>6, <1>7, <2>2 DEF Homes, StoreOK, ClientsOK, Frames
    <2> QED  BY <2>1, <2>2
  <1>8. ASSUME NEW d \in Clients, NEW k \in Keys, held'[d] # Null, maps'[Slot(d)'[1]][k] = held'[d]
        PROVE  k = Slot(d)'[2]
    <2>1. CASE d = c
      BY <1>1, <1>2, <1>3, <1>4, <1>6, <1>8, <2>1 DEF t, q
    <2>2. CASE d # c
      BY <1>4, <1>6, <1>8, <2>2 DEF Homes
    <2> QED  BY <2>1, <2>2
  <1>9. ASSUME NEW d \in Clients, NEW e \in Clients, held'[d] # Null, held'[d] = held'[e]
        PROVE  Slot(d)' = Slot(e)'
    BY <1>2, <1>6, <1>9 DEF Homes
  <1> QED  BY <1>5, <1>7, <1>8, <1>9 DEF Homes

LEMMA ChangesKeepHomes ==
  ASSUME ClientsOK, StoreOK, Homes, NEW c \in Clients, Moves(c), NEW S, Changes(c, S)
  PROVE  StoreOK' /\ Homes'
  <1>1. held[c] \in Containers /\ pc[c] # "idle" /\ kind[held[c]] = Slot(c)[1]
    BY DEF Changes, ClientsOK, ClientOK, Frames, Homes
  <1>2. kind[held[c]] # Null
    BY <1>1, ClientFacts, JavaCollectionsAssumption
  <1>3. StoreOK'
    BY <1>1, <1>2 DEF Changes, StoreOK
  <1>4. \A d \in Clients : held'[d] # Null => Slot(d)' = Slot(d) /\ held'[d] = held[d]
    BY SlotsStay DEF Changes, Moves, Others
  <1> QED  BY <1>3, <1>4 DEF Homes, Changes

LEMMA DropsKeepHomes ==
  ASSUME ClientsOK, StoreOK, Homes, NEW c \in Clients, Moves(c),
         NEW slot \in Types \X Keys, Drops(c, slot)
  PROVE  StoreOK' /\ Homes'
  <1>1. \A t \in Types, k \in Keys : maps'[t][k] = IF slot = <<t, k>> THEN Null ELSE maps[t][k]
    BY DEF Drops, StoreOK
  <1>2. maps' \in [Types -> [Keys -> Containers \cup {Null}]]
    BY DEF Drops, StoreOK
  <1>3. StoreOK'
    BY <1>1, <1>2 DEF Drops, StoreOK
  <1>4. \A d \in Clients : held'[d] # Null =>
           Slot(d)' = Slot(d) /\ held'[d] = held[d] /\ Slot(d)[1] \in Types
    BY SlotsStay, ClientFacts DEF Drops, Moves, Others
  <1> QED  BY <1>1, <1>3, <1>4 DEF Homes, Drops
----------------------------------------------------------------------------
(* What others know of the names at their keys when one client steps. *)

LEMMA BystanderFacts ==
  ASSUME ClientsOK, NEW c \in Clients, Moves(c), NEW d \in Clients \ {c}, pc[d] # "idle"
  PROVE  /\ Slot(d)' = Slot(d) /\ Name(d)' = Name(d)
         /\ pc'[d] = pc[d] /\ held'[d] = held[d] /\ call'[d] = call[d]
         /\ Slot(d) \in Types \X Keys /\ Slot(d)[1] \in Types /\ Slot(d)[2] \in Keys
  <1>1. Slot(d)' = Slot(d) /\ Name(d)' = Name(d)
    BY DEF Moves, Others, Slot, Name
  <1> QED  BY <1>1, ClientFacts DEF Moves, Others

(* Two clients that have to do with the same container work on the same    *)
(* key.                                                                    *)
LEMMA SameSlot ==
  ASSUME ClientsOK, StoreOK, Homes, NEW c \in Clients, NEW d \in Clients, pc[d] # "idle",
         held[c] # Null, held[d] = held[c] \/ At(Slot(d)) = held[c]
  PROVE  Slot(d) = Slot(c)
  <1>1. CASE held[d] = held[c]
    BY <1>1 DEF Homes
  <1>2. CASE At(Slot(d)) = held[c]
    <2>1. pc[c] # "idle" /\ Slot(d)[1] \in Types /\ Slot(d)[2] \in Keys
      BY ClientFacts DEF ClientsOK, ClientOK
    <2>2. Slot(d)[1] = Slot(c)[1]
      BY <1>2, AtType DEF Homes
    <2>3. Slot(d)[2] = Slot(c)[2]
      BY <1>2, <2>1, <2>2 DEF Homes, At
    <2>4. Slot(d) = <<Slot(d)[1], Slot(d)[2]>> /\ Slot(c) = <<Slot(c)[1], Slot(c)[2]>>
      BY <2>1, ClientFacts
    <2> QED  BY <2>2, <2>3, <2>4
  <1> QED  BY <1>1, <1>2
----------------------------------------------------------------------------
(* The numbers of names, of puts and of removals not counted yet. *)

LEMMA TallyTypes ==
  ASSUME TallyOK
  PROVE  /\ Sizes \in [Containers -> Nat] /\ Adding \in [Containers -> Nat] /\ Taking \in [Containers -> Nat]
         /\ counter \in [Containers -> Int]
  <1>1. \A S \in SUBSET Clients : Cardinality(S) \in Nat
    BY FS_Subset, FS_CardinalityType, JavaCollectionsAssumption
  <1>2. \A o \in Containers : Cardinality(heap[o]) \in Nat
    BY FS_CardinalityType DEF TallyOK
  <1>3. Sizes \in [Containers -> Nat]
    BY <1>2 DEF Sizes
  <1>4. Adding \in [Containers -> Nat]
    BY <1>1 DEF Adding
  <1>5. Taking \in [Containers -> Nat]
    BY <1>1 DEF Taking
  <1> QED  BY <1>3, <1>4, <1>5 DEF TallyOK

LEMMA TallyTypesNext ==
  ASSUME TallyOK'
  PROVE  Sizes' \in [Containers -> Nat] /\ Adding' \in [Containers -> Nat] /\ Taking' \in [Containers -> Nat]
  <1>1. \A S \in SUBSET Clients : Cardinality(S) \in Nat
    BY FS_Subset, FS_CardinalityType, JavaCollectionsAssumption
  <1>2. \A o \in Containers : Cardinality(heap'[o]) \in Nat
    BY FS_CardinalityType DEF TallyOK
  <1>3. Sizes' \in [Containers -> Nat]
    BY <1>2 DEF Sizes
  <1>4. Adding' \in [Containers -> Nat]
    BY <1>1 DEF Adding
  <1>5. Taking' \in [Containers -> Nat]
    BY <1>1 DEF Taking
  <1> QED  BY <1>3, <1>4, <1>5

(* A client more, or less, among those of a crowd.                         *)
LEMMA CrowdMoves ==
  ASSUME NEW S \in SUBSET Clients, NEW T \in SUBSET Clients, NEW c \in Clients,
         \A d \in Clients \ {c} : d \in S <=> d \in T
  PROVE  /\ (c \in S <=> c \in T) => Cardinality(T) = Cardinality(S)
         /\ c \notin S /\ c \in T => Cardinality(T) = Cardinality(S) + 1
         /\ c \in S /\ c \notin T => Cardinality(T) = Cardinality(S) - 1
  <1>1. IsFiniteSet(S)
    BY FS_Subset, JavaCollectionsAssumption
  <1>2. (c \in S <=> c \in T) => T = S
    OBVIOUS
  <1>3. c \notin S /\ c \in T => T = S \cup {c}
    OBVIOUS
  <1>4. c \in S /\ c \notin T => T = S \ {c}
    OBVIOUS
  <1> QED  BY <1>1, <1>2, <1>3, <1>4, FS_AddElement, FS_RemoveElement

(* Who goes to the step before a counter is changed, and who leaves it.    *)
LEMMA AddingMoves ==
  ASSUME ClientsOK, NEW c \in Clients, Moves(c)
  PROVE  /\ pc[c] # "count" /\ pc'[c] # "count" => Adding' = Adding
         /\ pc[c] # "count" /\ pc'[c] = "count" => Adding' = [Adding EXCEPT ![held'[c]] = @ + 1]
         /\ pc[c] = "count" /\ pc'[c] # "count" => Adding' = [Adding EXCEPT ![held[c]] = @ - 1]
  <1> DEFINE S(o) == {d \in Clients : pc[d] = "count" /\ held[d] = o}
             T(o) == {d \in Clients : pc'[d] = "count" /\ held'[d] = o}
  <1>1. \A o \in Containers :
          /\ (c \in S(o) <=> c \in T(o)) => Cardinality(T(o)) = Cardinality(S(o))
          /\ c \notin S(o) /\ c \in T(o) => Cardinality(T(o)) = Cardinality(S(o)) + 1
          /\ c \in S(o) /\ c \notin T(o) => Cardinality(T(o)) = Cardinality(S(o)) - 1
    <2> TAKE o \in Containers
    <2>1. \A d \in Clients \ {c} : d \in S(o) <=> d \in T(o)
      BY DEF Moves, Others
    <2>2. S(o) \in SUBSET Clients /\ T(o) \in SUBSET Clients
      OBVIOUS
    <2> HIDE DEF S, T
    <2> QED  BY <2>1, <2>2, CrowdMoves
  <1>2. \A o : c \in S(o) <=> pc[c] = "count" /\ held[c] = o
    OBVIOUS
  <1>3. \A o : c \in T(o) <=> pc'[c] = "count" /\ held'[c] = o
    OBVIOUS
  <1>4. Adding = [o \in Containers |-> Cardinality(S(o))] /\ Adding' = [o \in Containers |-> Cardinality(T(o))]
    BY DEF Adding
  <1> HIDE DEF S, T
  <1> QED  BY <1>1, <1>2, <1>3, <1>4

LEMMA TakingMoves ==
  ASSUME ClientsOK, NEW c \in Clients, Moves(c)
  PROVE  /\ pc[c] # "uncount" /\ pc'[c] # "uncount" => Taking' = Taking
         /\ pc[c] # "uncount" /\ pc'[c] = "uncount" => Taking' = [Taking EXCEPT ![held'[c]] = @ + 1]
         /\ pc[c] = "uncount" /\ pc'[c] # "uncount" => Taking' = [Taking EXCEPT ![held[c]] = @ - 1]
  <1> DEFINE S(o) == {d \in Clients : pc[d] = "uncount" /\ held[d] = o}
             T(o) == {d \in Clients : pc'[d] = "uncount" /\ held'[d] = o}
  <1>1. \A o \in Containers :
          /\ (c \in S(o) <=> c \in T(o)) => Cardinality(T(o)) = Cardinality(S(o))
          /\ c \notin S(o) /\ c \in T(o) => Cardinality(T(o)) = Cardinality(S(o)) + 1
          /\ c \in S(o) /\ c \notin T(o) => Cardinality(T(o)) = Cardinality(S(o)) - 1
    <2> TAKE o \in Containers
    <2>1. \A d \in Clients \ {c} : d \in S(o) <=> d \in T(o)
      BY DEF Moves, Others
    <2>2. S(o) \in SUBSET Clients /\ T(o) \in SUBSET Clients
      OBVIOUS
    <2> HIDE DEF S, T
    <2> QED  BY <2>1, <2>2, CrowdMoves
  <1>2. \A o : c \in S(o) <=> pc[c] = "uncount" /\ held[c] = o
    OBVIOUS
  <1>3. \A o : c \in T(o) <=> pc'[c] = "uncount" /\ held'[c] = o
    OBVIOUS
  <1>4. Taking = [o \in Containers |-> Cardinality(S(o))] /\ Taking' = [o \in Containers |-> Cardinality(T(o))]
    BY DEF Taking
  <1> HIDE DEF S, T
  <1> QED  BY <1>1, <1>2, <1>3, <1>4

(* A container with a name more or less.                                   *)
LEMMA SizesGrow ==
  ASSUME StoreOK, TallyOK, NEW o \in Containers, NEW x, heap' = [heap EXCEPT ![o] = @ \cup {x}]
  PROVE  /\ \A p \in Containers : IsFiniteSet(heap'[p])
         /\ Sizes' = IF x \in heap[o] THEN Sizes ELSE [Sizes EXCEPT ![o] = @ + 1]
  <1>1. IsFiniteSet(heap[o])
    BY DEF TallyOK
  <1>2. /\ IsFiniteSet(heap[o] \cup {x})
        /\ Cardinality(heap[o] \cup {x}) = IF x \in heap[o] THEN Cardinality(heap[o]) ELSE Cardinality(heap[o]) + 1
    BY <1>1, FS_AddElement
  <1>3. \A p \in Containers : heap'[p] = IF p = o THEN heap[o] \cup {x} ELSE heap[p]
    BY DEF StoreOK
  <1>4. \A p \in Containers : IsFiniteSet(heap'[p])
    BY <1>2, <1>3 DEF TallyOK
  <1>5. \A p \in Containers : Cardinality(heap'[p]) = IF p = o /\ x \notin heap[o] THEN Cardinality(heap[o]) + 1
                                                      ELSE Cardinality(heap[p])
    BY <1>2, <1>3
  <1> QED  BY <1>4, <1>5 DEF Sizes

LEMMA SizesShrink ==
  ASSUME StoreOK, TallyOK, NEW o \in Containers, NEW x, heap' = [heap EXCEPT ![o] = @ \ {x}]
  PROVE  /\ \A p \in Containers : IsFiniteSet(heap'[p])
         /\ Sizes' = IF x \in heap[o] THEN [Sizes EXCEPT ![o] = @ - 1] ELSE Sizes
  <1>1. IsFiniteSet(heap[o])
    BY DEF TallyOK
  <1>2. /\ IsFiniteSet(heap[o] \ {x})
        /\ Cardinality(heap[o] \ {x}) = IF x \in heap[o] THEN Cardinality(heap[o]) - 1 ELSE Cardinality(heap[o])
    BY <1>1, FS_RemoveElement
  <1>3. \A p \in Containers : heap'[p] = IF p = o THEN heap[o] \ {x} ELSE heap[p]
    BY DEF StoreOK
  <1>4. \A p \in Containers : IsFiniteSet(heap'[p])
    BY <1>2, <1>3 DEF TallyOK
  <1>5. \A p \in Containers : Cardinality(heap'[p]) = IF p = o /\ x \in heap[o] THEN Cardinality(heap[o]) - 1
                                                      ELSE Cardinality(heap[p])
    BY <1>2, <1>3
  <1> QED  BY <1>4, <1>5 DEF Sizes
----------------------------------------------------------------------------
(* What the others know when one client steps. *)

(* A step of another may take away k names more from what a removal still  *)
(* counts, if it adds as much to the puts that the removal overlaps with.  *)
LEMMA BystanderKnows ==
  ASSUME Inv, TallyOK', NEW c \in Clients, Moves(c), NEW d \in Clients \ {c}, Removes(pc[d]),
         NEW k \in Nat, overlaps'[d] = overlaps[d] + k, sum'[d] \in Int,
         /\ Adding'[held[d]] <= Adding[held[d]] + k
         /\ Sizes'[held[d]] <= Sizes[held[d]] + k
         /\ pc[d] = "sum" =>
              Sizes'[held[d]] + Taking'[held[d]] + sum[d] <= Sizes[held[d]] + Taking[held[d]] + sum'[d] + k,
         \/ At(Slot(d))' = Null
         \/ At(Slot(d))' \in Containers /\ Sizes'[At(Slot(d))'] = 0
         \/ At(Slot(d))' = At(Slot(d)) /\ Sizes'[At(Slot(d))] <= Sizes[At(Slot(d))] + k
  PROVE  Knows(d)'
  <1>1. pc[d] \notin {"idle", "put"} /\ held[d] \in Containers /\ overlaps[d] \in Nat /\ sum[d] \in Int
    BY DEF Removes, Inv, ClientsOK, Frames, ClientOK
  <1>2. /\ Sizes[held[d]] \in Nat /\ Adding[held[d]] \in Nat /\ Taking[held[d]] \in Nat
        /\ Sizes'[held[d]] \in Nat /\ Adding'[held[d]] \in Nat /\ Taking'[held[d]] \in Nat
    BY <1>1, TallyTypes, TallyTypesNext DEF Inv
  <1>3. At(Slot(d)) \in Containers \cup {Null}
    BY <1>1, AtType DEF Inv
  <1>4. /\ At(Slot(d)) # Null => Sizes[At(Slot(d))] \in Nat /\ Sizes'[At(Slot(d))] \in Nat
    BY <1>3, TallyTypes, TallyTypesNext DEF Inv
  <1>5. RemovalKnows(d) /\ pc'[d] = pc[d] /\ held'[d] = held[d]
    BY DEF Inv, Knows, Moves, Others
  <1>6. pc'[d] \in {"remove", "uncount", "empty"} => Adding'[held'[d]] <= overlaps'[d]
    BY <1>1, <1>2, <1>5 DEF RemovalKnows
  <1>7. pc'[d] = "sum" => Sizes'[held'[d]] + Taking'[held'[d]] <= sum'[d] + overlaps'[d]
    BY <1>1, <1>2, <1>5 DEF RemovalKnows
  <1>8. pc'[d] = "discard" => Sizes'[held'[d]] <= overlaps'[d]
    BY <1>1, <1>2, <1>5 DEF RemovalKnows
  <1>9. At(Slot(d))' \in {held'[d], Null} \/ Sizes'[At(Slot(d))'] <= overlaps'[d]
    <2>1. CASE At(Slot(d))' = Null \/ (At(Slot(d))' \in Containers /\ Sizes'[At(Slot(d))'] = 0)
      BY <1>1, <2>1
    <2>2. CASE At(Slot(d))' = At(Slot(d)) /\ Sizes'[At(Slot(d))] <= Sizes[At(Slot(d))] + k
      BY <1>1, <1>3, <1>4, <1>5, <2>2 DEF RemovalKnows
    <2> QED  BY <2>1, <2>2
  <1>10. RemovalKnows(d)'
    BY <1>6, <1>7, <1>8, <1>9 DEF RemovalKnows
  <1>11. NxKnows(d)'
    BY <1>1, <1>5 DEF NxKnows
  <1> QED  BY <1>10, <1>11 DEF Knows

(* A client that is neither removing nor putting has nothing to know.      *)
LEMMA NothingToKnow ==
  ASSUME NEW c \in Clients, ~Removes(pc'[c]), pc'[c] # "put"
  PROVE  Knows(c)'
  BY DEF Knows, RemovalKnows, NxKnows, Removes

(* Nor does one that puts care for the containers' sizes.                  *)
LEMMA PutterKnows ==
  ASSUME Inv, NEW c \in Clients, Moves(c), NEW d \in Clients \ {c}, ~Removes(pc[d]),
         pc[d] = "put" => heap'[held[d]] \subseteq heap[held[d]] \cup fresh'[d],
         fresh[d] \subseteq fresh'[d]
  PROVE  Knows(d)'
  <1>1. pc'[d] = pc[d] /\ call'[d] = call[d] /\ held'[d] = held[d] /\ Name(d)' = Name(d)
    BY DEF Moves, Others, Name
  <1>2. NxKnows(d)'
    <2>1. NxKnows(d)
      BY DEF Inv, Knows
    <2> QED  BY <1>1, <2>1 DEF NxKnows
  <1>3. RemovalKnows(d)'
    BY <1>1 DEF RemovalKnows, Removes
  <1> QED  BY <1>2, <1>3 DEF Knows

(* A step that leaves the containers and their counters alone.             *)
Still(c) ==
  /\ UNCHANGED <<heap, counter, fresh>>
  /\ sum' \in [Clients -> Int] /\ overlaps' \in [Clients -> Nat]
  /\ \A d \in Clients \ {c} : sum'[d] = sum[d] /\ overlaps'[d] = overlaps[d]
  /\ {pc[c], pc'[c]} \cap {"count", "uncount"} = {}

LEMMA StillTallies ==
  ASSUME ClientsOK, TallyOK, NEW c \in Clients, Moves(c), Still(c)
  PROVE  TallyOK' /\ UNCHANGED <<Sizes, Adding, Taking>>
  <1>1. UNCHANGED <<heap, counter>> /\ pc[c] \notin {"count", "uncount"} /\ pc'[c] \notin {"count", "uncount"}
    BY DEF Still
  <1>2. Adding' = Adding /\ Taking' = Taking
    BY <1>1, AddingMoves, TakingMoves
  <1>3. Sizes' = Sizes
    BY <1>1 DEF Sizes
  <1> QED  BY <1>1, <1>2, <1>3 DEF TallyOK

LEMMA BystandersOfStill ==
  ASSUME Inv, TallyOK', NEW c \in Clients, Moves(c), Still(c), NEW d \in Clients \ {c},
         pc[d] # "idle" => \/ At(Slot(d))' \in {At(Slot(d)), Null}
                           \/ At(Slot(d))' \in Containers /\ Sizes[At(Slot(d))'] = 0
  PROVE  Knows(d)'
  <1>1. UNCHANGED <<Sizes, Adding, Taking>> /\ sum'[d] = sum[d] /\ overlaps'[d] = overlaps[d]
    BY StillTallies DEF Inv, Still
  <1>2. CASE Removes(pc[d])
    <2>1. pc[d] # "idle" /\ held[d] \in Containers /\ sum[d] \in Int /\ overlaps[d] \in Nat
      BY <1>2 DEF Removes, Inv, ClientsOK, Frames, ClientOK
    <2>2. Sizes[held[d]] \in Nat /\ Adding[held[d]] \in Nat /\ Taking[held[d]] \in Nat
      BY <2>1, TallyTypes DEF Inv
    <2>3. At(Slot(d)) \in Containers \cup {Null} /\ (At(Slot(d)) # Null => Sizes[At(Slot(d))] \in Nat)
      BY <2>1, AtType, TallyTypes DEF Inv
    <2>4. /\ overlaps'[d] = overlaps[d] + 0
          /\ Adding'[held[d]] <= Adding[held[d]] + 0
          /\ Sizes'[held[d]] <= Sizes[held[d]] + 0
          /\ Sizes'[held[d]] + Taking'[held[d]] + sum[d] <= Sizes[held[d]] + Taking[held[d]] + sum'[d] + 0
      BY <1>1, <2>1, <2>2
    <2>5. \/ At(Slot(d))' = Null
          \/ At(Slot(d))' \in Containers /\ Sizes'[At(Slot(d))'] = 0
          \/ At(Slot(d))' = At(Slot(d)) /\ Sizes'[At(Slot(d))] <= Sizes[At(Slot(d))] + 0
      BY <1>1, <2>1, <2>3
    <2> QED  BY <1>1, <1>2, <2>1, <2>4, <2>5, BystanderKnows
  <1>3. CASE ~Removes(pc[d])
    BY <1>3, PutterKnows DEF Still
  <1> QED  BY <1>2, <1>3
----------------------------------------------------------------------------
(* The invariant, one action at a time. *)

LEMMA FramesFollow ==
  ASSUME ClientsOK, NEW c \in Clients, Moves(c), fresh' \in [Clients -> SUBSET Names],
         sum' \in [Clients -> Int], overlaps' \in [Clients -> Nat]
  PROVE  ClientsOK'
  <1>1. ASSUME NEW d \in Clients \ {c}
        PROVE  ClientOK(d)'
    BY DEF ClientsOK, ClientOK, Moves, Others
  <1> QED  BY <1>1 DEF ClientsOK, Frames, Moves

LEMMA ReadingStep ==
  ASSUME Inv, NEW c \in Clients, Moves(c), Reads(c), Still(c), Knows(c)'
  PROVE  Inv'
  <1>1. fresh' \in [Clients -> SUBSET Names] /\ sum' \in [Clients -> Int] /\ overlaps' \in [Clients -> Nat]
    BY DEF Still, Inv, ClientsOK, Frames
  <1>2. ClientsOK' /\ StoreOK' /\ Homes'
    BY <1>1, FramesFollow, ReadsKeepHomes DEF Inv
  <1>3. TallyOK'
    BY StillTallies DEF Inv
  <1>4. ASSUME NEW d \in Clients \ {c}
        PROVE  Knows(d)'
    <2>1. pc[d] # "idle" => At(Slot(d))' = At(Slot(d))
      BY BystanderFacts DEF Inv, Reads, At
    <2> QED  BY <1>3, <2>1, BystandersOfStill
  <1> QED  BY <1>2, <1>3, <1>4 DEF Inv

LEMMA InvokeInv ==
  ASSUME Inv, NEW c \in Clients, NEW m \in Commands, Invoke(c, m)
  PROVE  Inv'
  <1>1. Moves(c) /\ Reads(c)
    BY InvokeMoves DEF Inv, Reads, Invoke
  <1>2. Still(c)
    BY InvokeMoves DEF Inv, Still, Invoke, histories, ClientsOK, Frames
  <1>3. Knows(c)'
    BY InvokeMoves, NothingToKnow DEF Inv, Removes
  <1> QED  BY <1>1, <1>2, <1>3, ReadingStep

LEMMA LookInv ==
  ASSUME Inv, NEW c \in Clients, Look(c)
  PROVE  Inv'
  <1>1. Moves(c)
    BY WorkMoves DEF Inv, Work
  <1>2. Reads(c) /\ pc[c] = "look" /\ pc'[c] \in {"create", "test"}
    BY DEF Look, Goto, Reads, Inv, ClientsOK, Frames
  <1>3. Still(c)
    BY <1>2 DEF Look, Still, Inv, ClientsOK, Frames
  <1> QED  BY <1>1, <1>2, <1>3, NothingToKnow, ReadingStep DEF Removes

LEMMA TestInv ==
  ASSUME Inv, NEW c \in Clients, Test(c)
  PROVE  Inv'
  <1>1. Moves(c)
    BY WorkMoves DEF Inv, Work
  <1>2. Reads(c) /\ pc[c] = "test" /\ pc'[c] \in {"idle", "create", "put"}
    BY ReturnMoves DEF Test, Reads, Inv, ClientsOK, Frames
  <1>3. Still(c)
    BY <1>2 DEF Test, Still, Inv, ClientsOK, Frames
  <1>4. Knows(c)'
    <2>1. CASE Return(c, 0)
      BY <2>1, ReturnMoves, NothingToKnow DEF Inv, Removes
    <2>2. CASE /\ call[c].name # "HSETNX" \/ Name(c) \notin heap[held[c]]
               /\ pc' = [pc EXCEPT ![c] = IF call[c].name = "HSET" THEN "create" ELSE "put"]
               /\ UNCHANGED <<call, step, held>>
      <3>1. Name(c)' = Name(c) /\ pc'[c] \in {"create", "put"} /\ UNCHANGED heap
        BY <2>2 DEF Test, Name, Inv, ClientsOK, Frames
      <3> QED  BY <2>2, <3>1 DEF Knows, RemovalKnows, NxKnows, Removes
    <2> QED  BY <2>1, <2>2 DEF Test
  <1> QED  BY <1>1, <1>2, <1>3, <1>4, ReadingStep

LEMMA CreateInv ==
  ASSUME Inv, NEW c \in Clients, Create(c)
  PROVE  Inv'
  <1>1. Moves(c)
    BY WorkMoves DEF Inv, Work
  <1>2. pc[c] = "create" /\ pc'[c] \in {"put", "test", "add"} /\ (pc'[c] = "put" => call'[c].name # "HSETNX")
    <2>1. call[c].name \in Comers("create")
      BY DEF Create, Inv, ClientsOK, ClientOK
    <2> QED  BY <2>1 DEF Create, Goto, Comers, Inv, ClientsOK, Frames
  <1>3. Knows(c)'
    BY <1>2 DEF Knows, RemovalKnows, NxKnows, Removes
  <1>4. Still(c) /\ UNCHANGED heap
    BY <1>2 DEF Create, Still, Inv, ClientsOK, Frames
  <1>5. CASE /\ At(Slot(c)) # Null /\ held' = [held EXCEPT ![c] = At(Slot(c))]
             /\ UNCHANGED <<maps, kind>>
    <2>1. Reads(c)
      BY <1>4, <1>5 DEF Reads, Inv, ClientsOK, Frames
    <2> QED  BY <1>1, <1>3, <1>4, <2>1, ReadingStep
  <1>6. CASE Creates(c)
    <2>1. ClientsOK' /\ StoreOK' /\ Homes' /\ TallyOK'
      BY <1>1, <1>2, <1>4, <1>6, FramesFollow, CreatesKeepHomes, StillTallies DEF Still, Inv, ClientsOK, Frames
    <2>2. PICK o \in Containers :
            /\ kind[o] = Null
            /\ maps' = [maps EXCEPT ![Slot(c)[1]][Slot(c)[2]] = o]
      BY <1>6 DEF Creates
    <2>3. Sizes[o] = 0
      BY <2>2, FS_EmptySet DEF Sizes, Inv, StoreOK
    <2>4. Slot(c)[1] \in Types /\ Slot(c)[2] \in Keys
      BY <1>2, ClientFacts DEF Inv
    <2>5. ASSUME NEW d \in Clients \ {c}
          PROVE  Knows(d)'
      <3>1. pc[d] # "idle" => At(Slot(d))' \in {At(Slot(d)), o}
        BY <1>1, <2>2, <2>4, BystanderFacts DEF Inv, StoreOK, At
      <3> QED  BY <1>1, <1>4, <2>1, <2>3, <3>1, BystandersOfStill
    <2> QED  BY <1>3, <2>1, <2>5 DEF Inv
  <1>7. Creates(c) \/ (/\ At(Slot(c)) # Null /\ held' = [held EXCEPT ![c] = At(Slot(c))]
                       /\ UNCHANGED <<maps, kind>>)
    BY <1>4 DEF Create, Creates, Inv, ClientsOK, Frames
  <1> QED  BY <1>5, <1>6, <1>7

(* Put and Add: a new name adds to what the removals at its key overlap    *)
(* with.                                                                   *)
LEMMA EnterInv ==
  ASSUME Inv, NEW c \in Clients, Put(c) \/ Add(c)
  PROVE  Inv'
  <1> DEFINE new == Name(c) \notin heap[held[c]]
  <1>1. PICK n : Enter(c, n)
    BY DEF Put, Add
  <1>2. Moves(c) /\ pc[c] \in {"put", "add"}
    BY WorkMoves DEF Inv, Work, Put, Add
  <1>3. Name(c) \in Names /\ held[c] \in Containers /\ held[c] # Null /\ call[c].name \in Comers(pc[c])
    BY <1>2, ClientFacts DEF Inv, ClientsOK, ClientOK, Frames
  <1>4. /\ new => pc'[c] = "count" /\ held'[c] = held[c]
        /\ ~new => pc'[c] \in {"idle", LoopStep(call[c].name)} /\ held'[c] \in {held[c], Null}
    <2>1. CASE ~new /\ NextName(c, hits[c], "return")
      BY <1>2, <2>1, NextNameMoves DEF Inv
    <2>2. CASE new /\ pc' = [pc EXCEPT ![c] = "count"] /\ UNCHANGED held
      BY <2>2 DEF Inv, ClientsOK, Frames
    <2> QED  BY <1>1, <2>1, <2>2 DEF Enter
  <1>5. heap' = [heap EXCEPT ![held[c]] = @ \cup {Name(c)}] /\ UNCHANGED <<maps, counter, kind, sum>>
    BY <1>1 DEF Enter
  <1>6. Changes(c, heap[held[c]] \cup {Name(c)})
    BY <1>3, <1>4, <1>5 DEF Changes, Inv, StoreOK
  <1>7. fresh' \in [Clients -> SUBSET Names] /\ overlaps' \in [Clients -> Nat] /\ sum' \in [Clients -> Int]
    BY <1>1, <1>3, <1>5 DEF Enter, Inv, ClientsOK, Frames
  <1>8. ClientsOK' /\ StoreOK' /\ Homes'
    BY <1>2, <1>6, <1>7, FramesFollow, ChangesKeepHomes DEF Inv
  <1>9. LoopStep(call[c].name) \in {"look", "create", "add", "test"}
    BY <1>2, <1>3 DEF Comers, LoopStep, FirstStep
  <1>10. pc'[c] \notin {"put", "uncount"} /\ ~Removes(pc'[c]) /\ (new <=> pc'[c] = "count")
    BY <1>4, <1>9 DEF Removes
  <1>11. Knows(c)'
    BY <1>10, NothingToKnow
  <1>12. /\ Adding' = IF new THEN [Adding EXCEPT ![held[c]] = @ + 1] ELSE Adding
         /\ Taking' = Taking
         /\ Sizes' = IF new THEN [Sizes EXCEPT ![held[c]] = @ + 1] ELSE Sizes
         /\ \A p \in Containers : IsFiniteSet(heap'[p])
    BY <1>2, <1>3, <1>4, <1>5, <1>10, AddingMoves, TakingMoves, SizesGrow DEF Inv
  <1>13. /\ Sizes \in [Containers -> Nat] /\ Adding \in [Containers -> Nat] /\ Taking \in [Containers -> Nat]
    BY TallyTypes DEF Inv
  <1>14. TallyOK'
    <2>1. \A o \in Containers : counter'[o] = Sizes'[o] - Adding'[o] + Taking'[o]
      BY <1>3, <1>5, <1>12, <1>13 DEF Inv, TallyOK
    <2> QED  BY <1>5, <1>12, <2>1 DEF Inv, TallyOK
  <1>15. ASSUME NEW d \in Clients \ {c}
         PROVE  Knows(d)'
    <2> DEFINE same == Slot(d) = Slot(c)
               k == IF new /\ same THEN 1 ELSE 0
    <2>1. /\ fresh'[d] = IF pc[d] = "put" /\ same THEN fresh[d] \cup {Name(c)} ELSE fresh[d]
          /\ Removes(pc[d]) => overlaps'[d] = IF new /\ same THEN overlaps[d] + 1 ELSE overlaps[d]
      BY <1>1 DEF Enter
    <2>2. pc[d] # "idle" /\ (held[d] = held[c] \/ At(Slot(d)) = held[c]) => same
      BY <1>3, SameSlot DEF Inv
    <2>3. CASE Removes(pc[d])
      <3>1. pc[d] # "idle" /\ held[d] \in Containers /\ sum[d] \in Int /\ overlaps[d] \in Nat
        BY <2>3 DEF Removes, Inv, ClientsOK, Frames, ClientOK
      <3>2. k \in Nat /\ overlaps'[d] = overlaps[d] + k /\ sum'[d] = sum[d]
        BY <1>5, <2>1, <2>3, <3>1
      <3>3. \A o \in Containers : (o = held[c] => same) =>
              /\ Adding'[o] <= Adding[o] + k /\ Sizes'[o] <= Sizes[o] + k /\ Taking'[o] = Taking[o]
              /\ Adding[o] \in Nat /\ Sizes[o] \in Nat /\ Taking[o] \in Nat /\ Sizes'[o] \in Nat
        <4> HIDE DEF new, same
        <4> QED  BY <1>3, <1>12, <1>13
      <3>4. At(Slot(d)) \in Containers \cup {Null} /\ At(Slot(d))' = At(Slot(d))
        BY <1>2, <1>5, <3>1, AtType, BystanderFacts DEF Inv, At
      <3>5. /\ Adding'[held[d]] <= Adding[held[d]] + k
            /\ Sizes'[held[d]] <= Sizes[held[d]] + k
            /\ Sizes'[held[d]] + Taking'[held[d]] + sum[d] <= Sizes[held[d]] + Taking[held[d]] + sum'[d] + k
        <4>1. held[d] = held[c] => same
          BY <2>2, <3>1
        <4> HIDE DEF new, same, k
        <4> QED  BY <3>1, <3>2, <3>3, <4>1
      <3>6. \/ At(Slot(d))' = Null
            \/ At(Slot(d))' = At(Slot(d)) /\ Sizes'[At(Slot(d))] <= Sizes[At(Slot(d))] + k
        <4>1. At(Slot(d)) = held[c] => same
          BY <2>2, <3>1
        <4> HIDE DEF new, same, k
        <4> QED  BY <3>3, <3>4, <4>1
      <3> HIDE DEF k
      <3> QED  BY <1>2, <1>14, <2>3, <3>1, <3>2, <3>5, <3>6, BystanderKnows
    <2>4. CASE ~Removes(pc[d])
      <3>1. pc[d] = "put" => held[d] \in Containers /\ pc[d] # "idle"
        BY DEF Inv, ClientsOK, ClientOK, Frames
      <3>2. pc[d] = "put" => heap'[held[d]] \subseteq heap[held[d]] \cup fresh'[d]
        BY <1>3, <1>5, <2>1, <2>2, <3>1 DEF Inv, StoreOK
      <3> QED  BY <1>2, <2>1, <2>4, <3>2, PutterKnows
    <2> QED  BY <2>3, <2>4
  <1> QED  BY <1>8, <1>11, <1>14, <1>15 DEF Inv

(* A counter is changed: who adds up the counters may have passed it.      *)
LEMMA SumsFollow ==
  ASSUME Inv, NEW c \in Clients, pc[c] # "sum", held[c] \in Containers, NEW n \in Int, AddCount(held[c], n)
  PROVE  /\ counter' = [counter EXCEPT ![held[c]] = @ + n] /\ counter' \in [Containers -> Int]
         /\ sum' \in [Clients -> Int] /\ sum'[c] = sum[c]
         /\ \A d \in Clients : \/ sum'[d] = sum[d]
                               \/ pc[d] = "sum" /\ held[d] = held[c] /\ sum'[d] = sum[d] + n
  <1>1. counter' = [counter EXCEPT ![held[c]] = @ + n] /\ counter' \in [Containers -> Int]
    BY TallyTypes DEF AddCount, Inv
  <1>2. PICK seen \in SUBSET {d \in Clients : pc[d] = "sum" /\ held[d] = held[c]} :
          sum' = [d \in Clients |-> IF d \in seen THEN sum[d] + n ELSE sum[d]]
    BY DEF AddCount
  <1>3. sum' \in [Clients -> Int]
    BY <1>2 DEF Inv, ClientsOK, Frames
  <1> QED  BY <1>1, <1>2, <1>3

LEMMA CountInv ==
  ASSUME Inv, NEW c \in Clients, Count(c)
  PROVE  Inv'
  <1>1. Moves(c) /\ pc[c] = "count" /\ AddCount(held[c], 1) /\ UNCHANGED <<maps, heap, kind, fresh, overlaps>>
    BY WorkMoves DEF Inv, Work, Count
  <1>2. held[c] \in Containers /\ held[c] # Null /\ call[c].name \in Comers("count")
    BY <1>1 DEF Inv, ClientsOK, ClientOK, Frames
  <1>3. pc'[c] \in {"idle", LoopStep(call[c].name)} /\ held'[c] \in {held[c], Null}
    BY <1>1, NextNameMoves DEF Count, Inv
  <1>4. LoopStep(call[c].name) \in {"look", "create", "add", "test"}
    BY <1>2 DEF Comers, LoopStep, FirstStep
  <1>5. pc'[c] \notin {"put", "count", "uncount"} /\ ~Removes(pc'[c])
    BY <1>3, <1>4 DEF Removes
  <1>6. /\ counter' = [counter EXCEPT ![held[c]] = @ + 1] /\ counter' \in [Containers -> Int]
        /\ sum' \in [Clients -> Int]
        /\ \A d \in Clients : sum'[d] = sum[d] \/ sum'[d] = sum[d] + 1
    BY <1>1, <1>2, SumsFollow
  <1>7. Adding' = [Adding EXCEPT ![held[c]] = @ - 1] /\ Taking' = Taking /\ Sizes' = Sizes
    BY <1>1, <1>5, AddingMoves, TakingMoves DEF Inv, Sizes
  <1>8. Sizes \in [Containers -> Nat] /\ Adding \in [Containers -> Nat] /\ Taking \in [Containers -> Nat]
    BY TallyTypes DEF Inv
  <1>9. Reads(c)
    BY <1>1, <1>3 DEF Reads
  <1>10. ClientsOK' /\ StoreOK' /\ Homes'
    BY <1>1, <1>6, <1>9, FramesFollow, ReadsKeepHomes DEF Inv, ClientsOK, Frames
  <1>11. TallyOK'
    <2>1. \A o \in Containers : counter'[o] = Sizes'[o] - Adding'[o] + Taking'[o]
      BY <1>2, <1>6, <1>7, <1>8 DEF Inv, TallyOK
    <2> QED  BY <1>1, <1>6, <2>1 DEF Inv, TallyOK
  <1>12. Knows(c)'
    BY <1>5, NothingToKnow
  <1>13. ASSUME NEW d \in Clients \ {c}
         PROVE  Knows(d)'
    <2>1. CASE Removes(pc[d])
      <3>1. pc[d] # "idle" /\ held[d] \in Containers /\ sum[d] \in Int /\ overlaps[d] \in Nat
        BY <2>1 DEF Removes, Inv, ClientsOK, Frames, ClientOK
      <3>2. At(Slot(d)) \in Containers \cup {Null} /\ At(Slot(d))' = At(Slot(d))
        BY <1>1, <3>1, AtType, BystanderFacts DEF Inv, At
      <3>3. overlaps'[d] = overlaps[d] + 0 /\ sum'[d] \in Int /\ sum[d] <= sum'[d]
        BY <1>1, <1>6, <3>1
      <3>4. /\ Adding'[held[d]] <= Adding[held[d]] + 0
            /\ Sizes'[held[d]] <= Sizes[held[d]] + 0
            /\ Sizes'[held[d]] + Taking'[held[d]] + sum[d] <= Sizes[held[d]] + Taking[held[d]] + sum'[d] + 0
        BY <1>2, <1>7, <1>8, <3>1, <3>3
      <3>5. \/ At(Slot(d))' = Null
            \/ At(Slot(d))' = At(Slot(d)) /\ Sizes'[At(Slot(d))] <= Sizes[At(Slot(d))] + 0
        BY <1>7, <1>8, <3>2
      <3> QED  BY <1>1, <1>11, <2>1, <3>3, <3>4, <3>5, BystanderKnows
    <2>2. CASE ~Removes(pc[d])
      BY <1>1, <2>2, PutterKnows
    <2> QED  BY <2>1, <2>2
  <1> QED  BY <1>10, <1>11, <1>12, <1>13 DEF Inv

LEMMA FindInv ==
  ASSUME Inv, NEW c \in Clients, Find(c)
  PROVE  Inv'
  <1>1. Moves(c) /\ pc[c] = "find"
    BY WorkMoves DEF Inv, Work, Find
  <1>2. Reads(c)
    BY DEF Find, Reads, Inv, ClientsOK, Frames
  <1>3. CASE At(Slot(c)) # Null /\ Goto(c, "remove")
             /\ overlaps' = [overlaps EXCEPT ![c] =
                  Cardinality({d \in Clients : pc[d] = "count" /\ held[d] = At(Slot(c))})]
    <2>1. At(Slot(c)) \in Containers
      BY <1>1, <1>3, AtType DEF Inv
    <2>2. overlaps' = [overlaps EXCEPT ![c] = Adding[At(Slot(c))]]
      BY <1>3, <2>1 DEF Adding
    <2>3. Adding[At(Slot(c))] \in Nat
      BY <2>1, TallyTypes DEF Inv
    <2>4. overlaps'[c] = Adding[At(Slot(c))]
      BY <2>2 DEF Inv, ClientsOK, Frames
    <2>5. At(Slot(c))' = At(Slot(c)) /\ held'[c] = At(Slot(c)) /\ pc'[c] = "remove"
      BY <1>3 DEF Find, Goto, At, Slot, Inv, ClientsOK, Frames
    <2>6. Still(c)
      BY <1>1, <2>2, <2>3, <2>5 DEF Find, Still, Inv, ClientsOK, Frames
    <2>7. Adding' = Adding
      BY <1>1, <2>6, StillTallies DEF Inv
    <2>8. Knows(c)'
      BY <2>3, <2>4, <2>5, <2>7 DEF Knows, RemovalKnows, NxKnows, Removes
    <2> QED  BY <1>1, <1>2, <2>6, <2>8, ReadingStep
  <1>4. CASE UNCHANGED overlaps /\ pc'[c] \in {"idle", "find"}
    <2>1. Still(c)
      BY <1>1, <1>4 DEF Find, Still, Inv, ClientsOK, Frames
    <2> QED  BY <1>1, <1>2, <1>4, <2>1, NothingToKnow, ReadingStep DEF Removes
  <1>5. ASSUME call[c].name = "HDEL", NextName(c, hits[c], "return")
        PROVE  pc'[c] \in {"idle", "find"}
    <2>1. LoopStep("HDEL") = "find"
      BY DEF LoopStep, FirstStep
    <2> QED  BY <1>1, <1>5, <2>1, NextNameMoves DEF Inv
  <1>6. ASSUME Return(c, 0)
        PROVE  pc'[c] = "idle"
    BY <1>6, ReturnMoves DEF Inv
  <1> QED  BY <1>3, <1>4, <1>5, <1>6 DEF Find

(* Where a removal goes after a name.                                      *)
LEMMA RemovedMoves ==
  ASSUME Inv, NEW c \in Clients, pc[c] \in {"remove", "uncount"}, Removed(c)
  PROVE  pc'[c] \in {"remove", "empty"} /\ UNCHANGED <<call, held>>
  <1>1. call[c].name \in {"HDEL", "SREM", "ZREM"}
    BY DEF Inv, ClientsOK, ClientOK, Comers
  <1>2. CASE call[c].name = "HDEL" /\ Goto(c, "empty") /\ UNCHANGED held
    BY <1>2 DEF Goto, Inv, ClientsOK, Frames
  <1>3. CASE call[c].name # "HDEL" /\ NextName(c, hits[c], "empty")
    <2>1. LoopStep(call[c].name) = "remove"
      BY <1>1, <1>3 DEF LoopStep
    <2>2. CASE step[c] = Len(call[c].names) /\ pc' = [pc EXCEPT ![c] = "empty"] /\ UNCHANGED <<call, held>>
      BY <2>2 DEF Inv, ClientsOK, Frames
    <2>3. CASE pc' = [pc EXCEPT ![c] = LoopStep(call[c].name)] /\ UNCHANGED <<call, held>>
      BY <2>1, <2>3 DEF Inv, ClientsOK, Frames
    <2> QED  BY <1>3, <2>2, <2>3 DEF NextName
  <1> QED  BY <1>2, <1>3 DEF Removed

(* A client that goes on with a removal knows what it knew, if no put came *)
(* in between.                                                             *)
LEMMA RemoverKnows ==
  ASSUME Inv, TallyOK', NEW c \in Clients, pc[c] \in {"remove", "uncount"},
         pc'[c] \in {"remove", "uncount", "empty"}, UNCHANGED <<maps, call, held, overlaps>>,
         \A o \in Containers : Adding'[o] <= Adding[o] /\ Sizes'[o] <= Sizes[o]
  PROVE  Knows(c)'
  <1>1. pc[c] # "idle" /\ held[c] \in Containers /\ overlaps[c] \in Nat
    BY DEF Removes, Inv, ClientsOK, Frames, ClientOK
  <1>2. At(Slot(c)) \in Containers \cup {Null} /\ At(Slot(c))' = At(Slot(c))
    BY <1>1, AtType DEF Inv, At, Slot
  <1>3. \A o \in Containers : Adding[o] \in Nat /\ Sizes[o] \in Nat /\ Adding'[o] \in Nat /\ Sizes'[o] \in Nat
    BY TallyTypes, TallyTypesNext DEF Inv
  <1>4. RemovalKnows(c)
    BY DEF Inv, Knows
  <1>5. Adding'[held'[c]] <= overlaps'[c]
    BY <1>1, <1>3, <1>4 DEF RemovalKnows, Removes
  <1>6. At(Slot(c))' \in {held'[c], Null} \/ Sizes'[At(Slot(c))'] <= overlaps'[c]
    <2>1. At(Slot(c)) \in {held[c], Null} \/ Sizes[At(Slot(c))] <= overlaps[c]
      BY <1>4 DEF RemovalKnows, Removes
    <2> QED  BY <1>1, <1>2, <1>3, <2>1
  <1> QED  BY <1>5, <1>6 DEF Knows, RemovalKnows, NxKnows

LEMMA RemoveInv ==
  ASSUME Inv, NEW c \in Clients, Remove(c)
  PROVE  Inv'
  <1> DEFINE there == Name(c) \in heap[held[c]]
  <1>1. /\ Moves(c) /\ pc[c] = "remove" /\ UNCHANGED <<maps, counter, kind, sum, fresh, overlaps>>
        /\ heap' = [heap EXCEPT ![held[c]] = @ \ {Name(c)}]
    BY WorkMoves DEF Inv, Work, Remove
  <1>2. held[c] \in Containers /\ held[c] # Null
    BY <1>1 DEF Inv, ClientsOK, ClientOK, Frames, Removes
  <1>3. /\ UNCHANGED <<call, held>>
        /\ there => pc'[c] = "uncount"
        /\ ~there => pc'[c] \in {"remove", "empty"}
    <2>1. CASE there /\ pc' = [pc EXCEPT ![c] = "uncount"] /\ UNCHANGED <<call, held>>
      BY <2>1 DEF Inv, ClientsOK, Frames
    <2>2. CASE ~there /\ Removed(c)
      BY <1>1, <2>2, RemovedMoves
    <2> QED  BY <2>1, <2>2 DEF Remove
  <1>4. Changes(c, heap[held[c]] \ {Name(c)})
    BY <1>1, <1>2, <1>3 DEF Changes, Inv, StoreOK
  <1>5. ClientsOK' /\ StoreOK' /\ Homes'
    BY <1>1, <1>4, FramesFollow, ChangesKeepHomes DEF Inv, ClientsOK, Frames
  <1>6. /\ Adding' = Adding
        /\ Taking' = IF there THEN [Taking EXCEPT ![held[c]] = @ + 1] ELSE Taking
        /\ Sizes' = IF there THEN [Sizes EXCEPT ![held[c]] = @ - 1] ELSE Sizes
        /\ \A p \in Containers : IsFiniteSet(heap'[p])
    BY <1>1, <1>2, <1>3, AddingMoves, TakingMoves, SizesShrink DEF Inv
  <1>7. /\ Sizes \in [Containers -> Nat] /\ Adding \in [Containers -> Nat] /\ Taking \in [Containers -> Nat]
    BY TallyTypes DEF Inv
  <1>8. TallyOK'
    <2>1. \A o \in Containers : counter'[o] = Sizes'[o] - Adding'[o] + Taking'[o]
      BY <1>1, <1>2, <1>6, <1>7 DEF Inv, TallyOK
    <2> QED  BY <1>1, <1>6, <2>1 DEF Inv, TallyOK
  <1>9. \A o \in Containers : /\ Adding'[o] <= Adding[o] /\ Sizes'[o] <= Sizes[o]
                              /\ Sizes'[o] + Taking'[o] = Sizes[o] + Taking[o]
    BY <1>2, <1>6, <1>7
  <1>10. Knows(c)'
    BY <1>1, <1>3, <1>8, <1>9, RemoverKnows
  <1>11. ASSUME NEW d \in Clients \ {c}
         PROVE  Knows(d)'
    <2>1. CASE Removes(pc[d])
      <3>1. pc[d] # "idle" /\ held[d] \in Containers /\ sum[d] \in Int /\ overlaps[d] \in Nat
        BY <2>1 DEF Removes, Inv, ClientsOK, Frames, ClientOK
      <3>2. At(Slot(d)) \in Containers \cup {Null} /\ At(Slot(d))' = At(Slot(d))
        BY <1>1, <3>1, AtType, BystanderFacts DEF Inv, At
      <3>3. overlaps'[d] = overlaps[d] + 0 /\ sum'[d] \in Int /\ sum[d] = sum'[d]
        BY <1>1, <3>1
      <3>4. \A o \in Containers : /\ Adding[o] \in Nat /\ Sizes[o] \in Nat /\ Taking[o] \in Nat
                                  /\ Adding'[o] \in Nat /\ Sizes'[o] \in Nat /\ Taking'[o] \in Nat
        BY <1>7, <1>8, TallyTypesNext
      <3>5. /\ Adding'[held[d]] <= Adding[held[d]] + 0
            /\ Sizes'[held[d]] <= Sizes[held[d]] + 0
            /\ Sizes'[held[d]] + Taking'[held[d]] + sum[d] <= Sizes[held[d]] + Taking[held[d]] + sum'[d] + 0
        BY <1>9, <3>1, <3>3, <3>4
      <3>6. \/ At(Slot(d))' = Null
            \/ At(Slot(d))' = At(Slot(d)) /\ Sizes'[At(Slot(d))] <= Sizes[At(Slot(d))] + 0
        BY <1>9, <3>2, <3>4
      <3> QED  BY <1>1, <1>8, <2>1, <3>3, <3>5, <3>6, BystanderKnows
    <2>2. CASE ~Removes(pc[d])
      <3>1. pc[d] = "put" => held[d] \in Containers
        BY DEF Inv, ClientsOK, ClientOK, Frames
      <3>2. pc[d] = "put" => heap'[held[d]] \subseteq heap[held[d]] \cup fresh'[d]
        BY <1>1, <1>2, <3>1 DEF Inv, StoreOK
      <3> QED  BY <1>1, <2>2, <3>2, PutterKnows
    <2> QED  BY <2>1, <2>2
  <1> QED  BY <1>5, <1>8, <1>10, <1>11 DEF Inv

LEMMA UncountInv ==
  ASSUME Inv, NEW c \in Clients, Uncount(c)
  PROVE  Inv'
  <1>1. /\ Moves(c) /\ pc[c] = "uncount" /\ AddCount(held[c], -1)
        /\ UNCHANGED <<maps, heap, kind, fresh, overlaps>>
    BY WorkMoves DEF Inv, Work, Uncount
  <1>2. held[c] \in Containers /\ held[c] # Null
    BY <1>1 DEF Inv, ClientsOK, ClientOK, Frames, Removes
  <1>3. pc'[c] \in {"remove", "empty"} /\ UNCHANGED <<call, held>>
    BY <1>1, RemovedMoves DEF Uncount
  <1>4. /\ counter' = [counter EXCEPT ![held[c]] = @ - 1] /\ counter' \in [Containers -> Int]
        /\ sum' \in [Clients -> Int]
        /\ \A d \in Clients : sum'[d] = sum[d] \/ (held[d] = held[c] /\ sum'[d] = sum[d] - 1)
    <2>0. PICK n \in Int : n = -1 /\ AddCount(held[c], n)
      BY <1>1
    <2>1. /\ counter' = [counter EXCEPT ![held[c]] = @ + n] /\ counter' \in [Containers -> Int]
          /\ sum' \in [Clients -> Int]
          /\ \A d \in Clients : sum'[d] = sum[d] \/ (held[d] = held[c] /\ sum'[d] = sum[d] + n)
      BY <1>1, <1>2, <2>0, SumsFollow
    <2>2. \A d \in Clients : sum[d] + n = sum[d] - 1
      BY <2>0 DEF Inv, ClientsOK, Frames
    <2>3. counter[held[c]] + n = counter[held[c]] - 1
      BY <1>2, <2>0, TallyTypes DEF Inv
    <2> QED  BY <2>1, <2>2, <2>3
  <1>5. Adding' = Adding /\ Taking' = [Taking EXCEPT ![held[c]] = @ - 1] /\ Sizes' = Sizes
    BY <1>1, <1>3, AddingMoves, TakingMoves DEF Inv, Sizes
  <1>6. Sizes \in [Containers -> Nat] /\ Adding \in [Containers -> Nat] /\ Taking \in [Containers -> Nat]
    BY TallyTypes DEF Inv
  <1>7. Reads(c)
    BY <1>1, <1>3 DEF Reads
  <1>8. ClientsOK' /\ StoreOK' /\ Homes'
    BY <1>1, <1>4, <1>7, FramesFollow, ReadsKeepHomes DEF Inv, ClientsOK, Frames
  <1>9. TallyOK'
    <2>1. \A o \in Containers : counter'[o] = Sizes'[o] - Adding'[o] + Taking'[o]
      BY <1>2, <1>4, <1>5, <1>6 DEF Inv, TallyOK
    <2> QED  BY <1>1, <1>4, <2>1 DEF Inv, TallyOK
  <1>10. Knows(c)'
    <2>1. \A o \in Containers : Adding'[o] <= Adding[o] /\ Sizes'[o] <= Sizes[o]
      BY <1>5, <1>6
    <2> QED  BY <1>1, <1>3, <1>9, <2>1, RemoverKnows
  <1>11. ASSUME NEW d \in Clients \ {c}
         PROVE  Knows(d)'
    <2>1. CASE Removes(pc[d])
      <3>1. pc[d] # "idle" /\ held[d] \in Containers /\ sum[d] \in Int /\ overlaps[d] \in Nat
        BY <2>1 DEF Removes, Inv, ClientsOK, Frames, ClientOK
      <3>2. At(Slot(d)) \in Containers \cup {Null} /\ At(Slot(d))' = At(Slot(d))
        BY <1>1, <3>1, AtType, BystanderFacts DEF Inv, At
      <3>3. overlaps'[d] = overlaps[d] + 0 /\ sum'[d] \in Int
        BY <1>1, <1>4, <3>1
      <3>4. Taking'[held[d]] + sum[d] <= Taking[held[d]] + sum'[d]
        BY <1>2, <1>4, <1>5, <1>6, <3>1
      <3>5. Taking'[held[d]] \in Nat /\ Taking[held[d]] \in Nat /\ Sizes[held[d]] \in Nat /\ Adding[held[d]] \in Nat
        BY <1>6, <1>9, <3>1, TallyTypesNext
      <3>6. /\ Adding'[held[d]] <= Adding[held[d]] + 0
            /\ Sizes'[held[d]] <= Sizes[held[d]] + 0
            /\ Sizes'[held[d]] + Taking'[held[d]] + sum[d] <= Sizes[held[d]] + Taking[held[d]] + sum'[d] + 0
        BY <1>5, <3>1, <3>3, <3>4, <3>5
      <3>7. \/ At(Slot(d))' = Null
            \/ At(Slot(d))' = At(Slot(d)) /\ Sizes'[At(Slot(d))] <= Sizes[At(Slot(d))] + 0
        BY <1>5, <1>6, <3>2
      <3> QED  BY <1>1, <1>9, <2>1, <3>3, <3>6, <3>7, BystanderKnows
    <2>2. CASE ~Removes(pc[d])
      BY <1>1, <2>2, PutterKnows
    <2> QED  BY <2>1, <2>2
  <1> QED  BY <1>8, <1>9, <1>10, <1>11 DEF Inv

(* The end of one field for HDEL, of the call for SREM and ZREM.           *)
LEMMA FinishMoves ==
  ASSUME Inv, NEW c \in Clients, pc[c] \in {"sum", "discard"}, Finish(c)
  PROVE  held'[c] \in {held[c], Null} /\ pc'[c] \in {"idle", "find"} /\ overlaps' = [overlaps EXCEPT ![c] = 0]
  <1>1. CASE call[c].name = "HDEL" /\ NextName(c, hits[c], "return")
    <2>1. LoopStep("HDEL") = "find"
      BY DEF LoopStep, FirstStep
    <2> QED  BY <1>1, <2>1, NextNameMoves DEF Inv, Finish
  <1>2. CASE Return(c, hits[c])
    BY <1>2, ReturnMoves DEF Inv, Finish
  <1> QED  BY <1>1, <1>2 DEF Finish

(* What is added up falls short of the names by the puts overlapped with.  *)
LEMMA AddUpInv ==
  ASSUME Inv, NEW c \in Clients, AddUp(c)
  PROVE  Inv'
  <1>1. /\ Moves(c) /\ pc[c] = "empty" /\ pc'[c] = "sum" /\ UNCHANGED <<maps, heap, kind, call, held, overlaps>>
        /\ sum' = [sum EXCEPT ![c] = counter[held[c]]]
    BY WorkMoves DEF Inv, Work, AddUp, Goto, ClientsOK, Frames
  <1>2. pc[c] # "idle" /\ held[c] \in Containers /\ overlaps[c] \in Nat
    BY <1>1 DEF Inv, ClientsOK, ClientOK, Frames, Removes
  <1>3. /\ Sizes[held[c]] \in Nat /\ Adding[held[c]] \in Nat /\ Taking[held[c]] \in Nat
        /\ counter[held[c]] \in Int
        /\ counter[held[c]] = Sizes[held[c]] - Adding[held[c]] + Taking[held[c]]
    BY <1>2, TallyTypes DEF Inv, TallyOK
  <1>4. Reads(c) /\ Still(c)
    BY <1>1, <1>3 DEF Reads, AddUp, Still, Inv, ClientsOK, Frames
  <1>5. UNCHANGED <<Sizes, Adding, Taking>>
    BY <1>1, <1>4, StillTallies DEF Inv
  <1>6. Knows(c)'
    <2>1. sum'[c] = counter[held[c]]
      BY <1>1 DEF Inv, ClientsOK, Frames
    <2>2. Adding[held[c]] <= overlaps[c]
      BY <1>1 DEF Inv, Knows, RemovalKnows, Removes
    <2>3. Sizes'[held'[c]] + Taking'[held'[c]] <= sum'[c] + overlaps'[c]
      BY <1>1, <1>2, <1>3, <1>5, <2>1, <2>2
    <2>4. At(Slot(c))' = At(Slot(c))
      BY <1>1 DEF At, Slot
    <2>5. At(Slot(c))' \in {held'[c], Null} \/ Sizes'[At(Slot(c))'] <= overlaps'[c]
      BY <1>1, <1>5, <2>4 DEF Inv, Knows, RemovalKnows, Removes
    <2> QED  BY <1>1, <2>3, <2>5 DEF Knows, RemovalKnows, NxKnows
  <1> QED  BY <1>1, <1>4, <1>6, ReadingStep

LEMMA IsEmptyInv ==
  ASSUME Inv, NEW c \in Clients, IsEmpty(c)
  PROVE  Inv'
  <1>1. /\ Moves(c) /\ pc[c] = "sum" /\ UNCHANGED <<maps, heap, counter, kind, fresh>>
        /\ sum' = [sum EXCEPT ![c] = 0]
    BY WorkMoves DEF Inv, Work, IsEmpty
  <1>2. CASE sum[c] <= 0 /\ Goto(c, "discard") /\ UNCHANGED <<held, overlaps>>
    <2>1. pc'[c] = "discard" /\ UNCHANGED call
      BY <1>1, <1>2 DEF Goto, Inv, ClientsOK, Frames
    <2>2. Reads(c) /\ Still(c)
      BY <1>1, <1>2, <2>1 DEF Reads, Still, Inv, ClientsOK, Frames
    <2>3. UNCHANGED <<Sizes, Adding, Taking>>
      BY <1>1, <2>2, StillTallies DEF Inv
    <2>4. held[c] \in Containers /\ overlaps[c] \in Nat /\ sum[c] \in Int
      BY <1>1 DEF Inv, ClientsOK, ClientOK, Frames, Removes
    <2>5. Sizes[held[c]] \in Nat /\ Taking[held[c]] \in Nat
      BY <2>4, TallyTypes DEF Inv
    <2>6. Sizes[held[c]] + Taking[held[c]] <= sum[c] + overlaps[c]
      BY <1>1 DEF Inv, Knows, RemovalKnows, Removes
    <2>7. Sizes'[held'[c]] <= overlaps'[c]
      BY <1>2, <2>3, <2>4, <2>5, <2>6
    <2>8. At(Slot(c))' = At(Slot(c))
      BY <1>1, <2>1 DEF At, Slot
    <2>9. At(Slot(c))' \in {held'[c], Null} \/ Sizes'[At(Slot(c))'] <= overlaps'[c]
      BY <1>1, <1>2, <2>3, <2>8 DEF Inv, Knows, RemovalKnows, Removes
    <2>10. Knows(c)'
      BY <2>1, <2>7, <2>9 DEF Knows, RemovalKnows, NxKnows
    <2> QED  BY <1>1, <2>2, <2>10, ReadingStep
  <1>3. CASE Finish(c)
    <2>1. held'[c] \in {held[c], Null} /\ pc'[c] \in {"idle", "find"} /\ overlaps' = [overlaps EXCEPT ![c] = 0]
      BY <1>1, <1>3, FinishMoves
    <2>2. Reads(c) /\ Knows(c)'
      BY <1>1, <2>1, NothingToKnow DEF Reads, Removes
    <2>3. Still(c)
      BY <1>1, <2>1 DEF Still, Inv, ClientsOK, Frames
    <2> QED  BY <1>1, <2>2, <2>3, ReadingStep
  <1> QED  BY <1>2, <1>3 DEF IsEmpty

LEMMA DroppingStep ==
  ASSUME Inv, NEW c \in Clients, Moves(c), NEW slot \in Types \X Keys, Drops(c, slot), Still(c), Knows(c)'
  PROVE  Inv'
  <1>1. fresh' \in [Clients -> SUBSET Names] /\ sum' \in [Clients -> Int] /\ overlaps' \in [Clients -> Nat]
    BY DEF Still, Inv, ClientsOK, Frames
  <1>2. ClientsOK' /\ StoreOK' /\ Homes'
    BY <1>1, FramesFollow, DropsKeepHomes DEF Inv
  <1>3. TallyOK'
    BY StillTallies DEF Inv
  <1>4. ASSUME NEW d \in Clients \ {c}
        PROVE  Knows(d)'
    <2>1. pc[d] # "idle" => At(Slot(d))' \in {At(Slot(d)), Null}
      BY BystanderFacts DEF Inv, StoreOK, Drops, At
    <2> QED  BY <1>3, <2>1, BystandersOfStill
  <1> QED  BY <1>2, <1>3, <1>4 DEF Inv

LEMMA DiscardInv ==
  ASSUME Inv, NEW c \in Clients, Discard(c)
  PROVE  Inv'
  <1>1. Moves(c) /\ pc[c] = "discard" /\ Finish(c) /\ UNCHANGED <<heap, counter, kind, sum, fresh>>
    BY WorkMoves DEF Inv, Work, Discard
  <1>2. Slot(c) \in Types \X Keys
    BY <1>1, ClientFacts DEF Inv
  <1>3. held'[c] \in {held[c], Null} /\ pc'[c] \in {"idle", "find"} /\ overlaps' = [overlaps EXCEPT ![c] = 0]
    BY <1>1, FinishMoves
  <1>4. Drops(c, Slot(c)) /\ Knows(c)'
    BY <1>1, <1>3, NothingToKnow DEF Drops, Discard, Removes
  <1>5. Still(c)
    BY <1>1, <1>3 DEF Still, Inv, ClientsOK, Frames
  <1> QED  BY <1>1, <1>2, <1>4, <1>5, DroppingStep

LEMMA DeleteInv ==
  ASSUME Inv, NEW c \in Clients, Delete(c)
  PROVE  Inv'
  <1> DEFINE slot == call[c].slots[step[c]]
  <1>1. Moves(c) /\ pc[c] = "delete" /\ UNCHANGED <<heap, counter, kind, sum, fresh, overlaps>>
    BY WorkMoves DEF Inv, Work, Delete
  <1>2. slot \in Types \X Keys
    BY <1>1, ClientFacts DEF Inv
  <1>3. Drops(c, slot) /\ pc'[c] \in {"idle", "delete"}
    BY <1>1, ReturnMoves DEF Drops, Delete, Inv
  <1>4. Knows(c)'
    BY <1>3, NothingToKnow DEF Removes
  <1>5. Still(c)
    BY <1>1, <1>3 DEF Still, Inv, ClientsOK, Frames
  <1> HIDE DEF slot
  <1> QED  BY <1>1, <1>2, <1>3, <1>4, <1>5, DroppingStep
----------------------------------------------------------------------------
LEMMA InitInv == Init => Inv
  <1> SUFFICES ASSUME Init PROVE Inv
    OBVIOUS
  <1>1. ClientsOK
    BY DEF Init, ClientsOK, Frames, ClientOK, Steps, Removes
  <1>2. StoreOK
    BY DEF Init, StoreOK
  <1>3. Homes /\ \A c \in Clients : Knows(c)
    BY DEF Init, Homes, Knows, RemovalKnows, NxKnows, Removes
  <1>4. TallyOK
    <2>1. /\ \A o : {c \in Clients : pc[c] = "count" /\ held[c] = o} = {}
          /\ \A o : {c \in Clients : pc[c] = "uncount" /\ held[c] = o} = {}
      BY DEF Init
    <2>2. \A o \in Containers : Sizes[o] = 0 /\ Adding[o] = 0 /\ Taking[o] = 0
      BY <2>1, FS_EmptySet DEF Init, Sizes, Adding, Taking
    <2> QED  BY <2>2, FS_EmptySet DEF Init, TallyOK
  <1> QED  BY <1>1, <1>2, <1>3, <1>4 DEF Inv

LEMMA StutterInv == Inv /\ UNCHANGED vars => Inv'
  <1> SUFFICES ASSUME Inv, UNCHANGED vars PROVE Inv'
    OBVIOUS
  <1>1. UNCHANGED <<maps, heap, counter, kind, pc, call, step, held, sum, fresh, overlaps>>
    BY DEF vars, histories
  <1>2. ClientsOK'
    BY <1>1 DEF Inv, ClientsOK, Frames, ClientOK
  <1>3. StoreOK' /\ Homes'
    BY <1>1 DEF Inv, StoreOK, Homes, Slot
  <1>4. ASSUME NEW c \in Clients
        PROVE  Knows(c)'
    <2>1. /\ At(Slot(c))' = At(Slot(c)) /\ Name(c)' = Name(c)
          /\ UNCHANGED <<Sizes, Adding, Taking>>
      BY <1>1 DEF At, Slot, Name, Sizes, Adding, Taking
    <2> QED  BY <1>1, <2>1 DEF Inv, Knows, RemovalKnows, NxKnows
  <1>5. TallyOK'
    BY <1>1 DEF Inv, TallyOK, Sizes, Adding, Taking
  <1> QED  BY <1>2, <1>3, <1>4, <1>5 DEF Inv

LEMMA NextInv == Inv /\ [Next]_vars => Inv'
  <1> SUFFICES ASSUME Inv, [Next]_vars PROVE Inv'
    OBVIOUS
  <1>1. ASSUME NEW c \in Clients, Work(c)
        PROVE  Inv'
    BY <1>1, LookInv, TestInv, CreateInv, EnterInv, CountInv, FindInv, RemoveInv, UncountInv,
       AddUpInv, IsEmptyInv, DiscardInv, DeleteInv DEF Work
  <1>2. ASSUME NEW c \in Clients, NEW m \in Commands, Invoke(c, m)
        PROVE  Inv'
    BY <1>2, InvokeInv
  <1> QED  BY <1>1, <1>2, StutterInv DEF Next

LEMMA Invariance == Spec => []Inv
  BY InitInv, NextInv, PTL DEF Spec

LEMMA InvIsTyped == Inv => TypeOK
  <1> SUFFICES ASSUME Inv PROVE TypeOK
    OBVIOUS
  <1>1. ASSUME NEW c \in Clients
        PROVE  /\ pc[c] = "idle" <=> call[c] = Null
               /\ pc[c] \notin {"idle", "delete"} => step[c] \in DOMAIN call[c].names
    BY CommandFacts, JavaCollectionsAssumption DEF Inv, ClientsOK, ClientOK
  <1>2. ASSUME NEW c \in Clients, pc[c] \in {"put", "add", "count", "test"} \/ Removes(pc[c])
        PROVE  held[c] \in Containers /\ kind[held[c]] = Slot(c)[1]
    BY <1>2 DEF Inv, ClientsOK, Frames, ClientOK, Homes
  <1> QED  BY <1>1, <1>2 DEF TypeOK, Inv, ClientsOK, Frames, StoreOK, TallyOK

(* A thread that works on a container holds one that was created for its   *)
(* type, and only such containers are in the maps, however many threads    *)
(* discard and create them at a time (Database.java, HashCommands.java,    *)
(* SetCommands.java, ZSetCommands.java).                                   *)
THEOREM TypeCorrect == Spec => []TypeOK
  BY Invariance, InvIsTyped, PTL

LEMMA LossStep ==
  ASSUME Inv, [Next]_vars, NEW t \in Types, NEW k \in Keys,
         Contents(<<t, k>>) \ Contents(<<t, k>>)' # {}
  PROVE  \E c \in Clients : Acts(c) /\ Takes(c, <<t, k>>, Contents(<<t, k>>) \ Contents(<<t, k>>)')
  <1> DEFINE slot == <<t, k>>
             lost == Contents(slot) \ Contents(slot)'
  <1>1. At(slot) = maps[t][k] /\ At(slot)' = maps'[t][k] /\ At(slot) \in Containers /\ At(slot) # Null
    BY DEF At, Contents, Inv, StoreOK
  <1>2. lost \subseteq heap[At(slot)] /\ (At(slot)' = At(slot) => lost \cap heap'[At(slot)] = {})
    BY <1>1 DEF Contents
  <1> HIDE DEF slot, lost
  <1>10. lost # {}
    BY DEF slot, lost
  <1>3. ASSUME UNCHANGED <<maps, heap>>
        PROVE  FALSE
    BY <1>1, <1>2, <1>3, <1>10
  <1>4. ASSUME NEW c \in Clients, Create(c)
        PROVE  FALSE
    <2>1. At(slot)' = At(slot) /\ UNCHANGED heap
      <3>1. \/ UNCHANGED maps
            \/ /\ maps[Slot(c)[1]][Slot(c)[2]] = Null
               /\ \E o \in Containers : maps' = [maps EXCEPT ![Slot(c)[1]][Slot(c)[2]] = o]
        BY <1>4 DEF Create, At
      <3>2. maps'[t][k] = maps[t][k]
        <4>1. CASE UNCHANGED maps
          BY <4>1
        <4>2. ASSUME maps[Slot(c)[1]][Slot(c)[2]] = Null,
                     NEW o \in Containers, maps' = [maps EXCEPT ![Slot(c)[1]][Slot(c)[2]] = o]
              PROVE  maps'[t][k] = maps[t][k]
          <5>1. ~(Slot(c)[1] = t /\ Slot(c)[2] = k)
            BY <1>1, <4>2
          <5> QED  BY <4>2, <5>1 DEF Inv, StoreOK
        <4> QED  BY <3>1, <4>1, <4>2
      <3> QED  BY <1>1, <1>4, <3>2 DEF Create
    <2> QED  BY <1>2, <1>10, <2>1
  <1>5. ASSUME NEW c \in Clients, Put(c) \/ Add(c)
        PROVE  FALSE
    BY <1>1, <1>2, <1>5, <1>10 DEF Put, Add, Enter, Inv, StoreOK
  <1>6. ASSUME NEW c \in Clients, Remove(c)
        PROVE  Acts(c) /\ Takes(c, slot, lost)
    <2>1. pc[c] = "remove" /\ held[c] \in Containers /\ held[c] # Null
      BY <1>6 DEF Remove, Inv, ClientsOK, ClientOK, Frames, Removes
    <2>2. held[c] = At(slot) /\ lost = {Name(c)}
      <3>1. /\ \A o \in Containers : heap'[o] = IF o = held[c] THEN heap[o] \ {Name(c)} ELSE heap[o]
            /\ At(slot)' = At(slot)
        BY <1>1, <1>6, <2>1 DEF Remove, Inv, StoreOK
      <3>2. lost \subseteq heap[At(slot)] \ heap'[At(slot)]
        BY <1>2, <3>1
      <3>3. held[c] = At(slot)
        BY <1>1, <1>10, <3>1, <3>2
      <3>4. lost \subseteq {Name(c)}
        BY <1>1, <3>1, <3>2, <3>3
      <3> QED  BY <1>10, <3>3, <3>4
    <2>3. Slot(c)[1] = t
      BY <1>1, <2>1, <2>2 DEF Inv, Homes, StoreOK
    <2>4. Slot(c)[2] = k
      BY <1>1, <2>1, <2>2, <2>3 DEF Inv, Homes
    <2>5. Slot(c) = slot
      BY <2>1, <2>3, <2>4, ClientFacts DEF slot, Inv
    <2>6. Acts(c)
      <3>1. CASE pc' = [pc EXCEPT ![c] = "uncount"]
        BY <2>1, <3>1 DEF Acts, Inv, ClientsOK, Frames
      <3>2. CASE Goto(c, "empty")
        BY <2>1, <3>2 DEF Acts, Goto, Inv, ClientsOK, Frames
      <3>3. CASE NextName(c, hits[c], "empty")
        BY <2>1, <3>3 DEF Acts, NextName, Return, Inv, ClientsOK, Frames
      <3> QED  BY <1>6, <3>1, <3>2, <3>3 DEF Remove, Removed
    <2> QED  BY <2>1, <2>2, <2>5, <2>6 DEF Takes
  <1>7. ASSUME NEW c \in Clients, Discard(c)
        PROVE  Acts(c) /\ Takes(c, slot, lost)
    <2>1. pc[c] = "discard" /\ Finish(c)
      BY <1>7 DEF Discard
    <2>2. Slot(c) = slot
      <3>1. Slot(c) = <<Slot(c)[1], Slot(c)[2]>>
        BY <2>1, ClientFacts DEF Inv
      <3>2. Slot(c)[1] = t /\ Slot(c)[2] = k
        BY <1>1, <1>2, <1>7, <1>10 DEF Discard, Inv, StoreOK
      <3> QED  BY <3>1, <3>2 DEF slot
    <2>3. Sizes[At(slot)] <= overlaps[c]
      <3>1. RemovalKnows(c)
        BY DEF Inv, Knows
      <3>2. Sizes[held[c]] <= overlaps[c] /\ (At(slot) \in {held[c], Null} \/ Sizes[At(slot)] <= overlaps[c])
        BY <2>1, <2>2, <3>1 DEF RemovalKnows, Removes
      <3> QED  BY <1>1, <3>2
    <2>5. Cardinality(lost) <= overlaps[c]
      <3>1. IsFiniteSet(heap[At(slot)]) /\ Sizes[At(slot)] = Cardinality(heap[At(slot)])
        BY <1>1 DEF Inv, TallyOK, Sizes
      <3>2. Cardinality(lost) <= Sizes[At(slot)] /\ Cardinality(lost) \in Nat /\ Sizes[At(slot)] \in Nat
        BY <1>2, <3>1, FS_Subset, FS_CardinalityType
      <3>3. overlaps[c] \in Nat
        BY DEF Inv, ClientsOK, Frames
      <3> QED  BY <2>3, <3>2, <3>3
    <2>4. Acts(c)
      BY <2>1, FinishMoves DEF Acts
    <2> QED  BY <2>1, <2>2, <2>4, <2>5 DEF Takes
  <1>8. ASSUME NEW c \in Clients, Delete(c)
        PROVE  Acts(c) /\ Takes(c, slot, lost)
    <2>1. pc[c] = "delete" /\ call[c].slots[step[c]] \in Types \X Keys
      BY <1>8, ClientFacts DEF Delete, Inv
    <2>2. call[c].slots[step[c]] = slot
      <3> DEFINE s == call[c].slots[step[c]]
      <3>1. maps' = [maps EXCEPT ![s[1]][s[2]] = Null] /\ UNCHANGED heap
        BY <1>8 DEF Delete
      <3>2. s = <<s[1], s[2]>>
        BY <2>1
      <3> HIDE DEF s
      <3>3. s[1] = t /\ s[2] = k
        BY <1>1, <1>2, <1>10, <3>1 DEF Inv, StoreOK
      <3> QED  BY <3>2, <3>3 DEF slot, s
    <2>3. Acts(c)
      BY <1>8, <2>1 DEF Acts, Delete, Return, Inv, ClientsOK, Frames
    <2> QED  BY <2>1, <2>2, <2>3 DEF Takes
  <1>9. UNCHANGED <<maps, heap>>
        \/ \E c \in Clients : Create(c) \/ Put(c) \/ Add(c) \/ Remove(c) \/ Discard(c) \/ Delete(c)
    BY DEF Next, Work, vars, Look, Test, Count, Find, Uncount, AddUp, IsEmpty, Invoke
  <1> QED  BY <1>3, <1>4, <1>5, <1>6, <1>7, <1>8, <1>9 DEF slot, lost

(* However puts, removals and isEmpty tests interleave, a container that   *)
(* is discarded takes away no more names than there were puts by others    *)
(* that overlapped with the removal (hset, hdel, sadd, srem, zadd, zrem of *)
(* Database.java); it can be any names, also some put long before.         *)
THEOREM OnlyOverlapsLose == Spec => LossesOverlap
  <1>1. Inv /\ [Next]_vars =>
          [\A t \in Types, k \in Keys :
             LET lost == Contents(<<t, k>>) \ Contents(<<t, k>>)'
             IN  lost # {} => \E c \in Clients : Acts(c) /\ Takes(c, <<t, k>>, lost)]_vars
    BY LossStep
  <1> QED  BY <1>1, Invariance, PTL DEF Spec, LossesOverlap

(* HSETNX puts over no field but one put there since it looked (hsetnx of  *)
(* Database.java).                                                         *)
THEOREM NxIsBlindOnlyToFresh == Spec => NxOverridesFreshOnly
  <1>1. Inv /\ [Next]_vars =>
          [\A c \in Clients :
             /\ pc[c] = "put" /\ call[c].name = "HSETNX" /\ pc'[c] = "idle"
             /\ Name(c) \in heap[held[c]]
             => Name(c) \in fresh[c]]_vars
    BY DEF Inv, Knows, NxKnows
  <1> QED  BY <1>1, Invariance, PTL DEF Spec, NxOverridesFreshOnly
----------------------------------------------------------------------------
(* Counting.  What SADD and SREM have counted, in flight or answered, is   *)
(* what the sets have: a step that counts a member adds or removes one,    *)
(* and who returns answers what it counted.                                *)
Balance == answered + Total(InFlight("SADD")) - Total(InFlight("SREM"))

SumsOK ==
  /\ hits \in [Clients -> Nat] /\ answered \in Int
  /\ \A c \in Clients : pc[c] = "find" /\ call[c].name = "SREM" => hits[c] = 0
  /\ \A c \in Clients : pc[c] = "idle" => hits[c] = 0
  /\ \A name \in {"SADD", "SREM"} : IsFiniteSet(Columns(InFlight(name), Clients))
  /\ IsFiniteSet(Members)

SumInv == SumsOK /\ SetCountsAddUp

LEMMA TotalFacts ==
  ASSUME SumsOK, NEW name \in {"SADD", "SREM"}
  PROVE  /\ InFlight(name) \in [Clients -> Nat]
         /\ Total(InFlight(name)) = Cardinality(Columns(InFlight(name), Clients))
         /\ Total(InFlight(name)) \in Nat
  <1>1. InFlight(name) \in [Clients -> Nat]
    BY DEF InFlight, SumsOK
  <1>2. Total(InFlight(name)) = Cardinality(Columns(InFlight(name), Clients))
    BY <1>1 DEF Total, Columns
  <1>3. IsFiniteSet(Columns(InFlight(name), Clients))
    BY DEF SumsOK
  <1> QED  BY <1>1, <1>2, <1>3, FS_CardinalityType

(* What c has counted is n by now, and it answers that if it returns.      *)
Counts(c, n) ==
  /\ \A d \in Clients \ {c} : hits'[d] = hits[d]
  /\ hits' \in [Clients -> Nat]
  /\ \/ /\ pc'[c] = "idle" /\ hits'[c] = 0
        /\ answered' = CASE call[c].name = "SADD" -> answered + n
                         [] call[c].name = "SREM" -> answered - n
                         [] OTHER                 -> answered
     \/ /\ pc'[c] # "idle" /\ call'[c] = call[c] /\ hits'[c] = n /\ answered' = answered

(* What that adds to the balance.                                          *)
Gain(c, n) ==
  CASE call[c].name = "SADD" -> n - hits[c]
    [] call[c].name = "SREM" -> hits[c] - n
    [] OTHER                 -> 0

LEMMA TallyMoves ==
  ASSUME SumsOK, NEW c \in Clients, Others(c), NEW name \in {"SADD", "SREM"},
         \A d \in Clients \ {c} : hits'[d] = hits[d], hits' \in [Clients -> Nat]
  PROVE  /\ IsFiniteSet(Columns(InFlight(name), Clients)')
         /\ Total(InFlight(name)') \in Nat /\ Total(InFlight(name)) \in Nat
         /\ Total(InFlight(name)') = Total(InFlight(name)) - InFlight(name)[c] + InFlight(name)'[c]
  <1> DEFINE f == InFlight(name)
             g == InFlight(name)'
  <1>1. f \in [Clients -> Nat] /\ g \in [Clients -> Nat]
    BY DEF InFlight, SumsOK
  <1>2. \A d \in Clients \ {c} : g[d] = f[d]
    BY DEF InFlight, Others
  <1>3. IsFiniteSet(Columns(f, Clients))
    BY DEF SumsOK
  <1>4. Total(f) = Cardinality(Columns(f, Clients)) /\ Total(g) = Cardinality(Columns(g, Clients))
    BY <1>1 DEF Total, Columns
  <1>5. Columns(InFlight(name), Clients)' = Columns(g, Clients)
    BY DEF Columns
  <1> HIDE DEF f, g
  <1>6. /\ IsFiniteSet(Columns(g, Clients))
        /\ Cardinality(Columns(f, Clients)) \in Nat /\ Cardinality(Columns(g, Clients)) \in Nat
        /\ Cardinality(Columns(g, Clients)) = Cardinality(Columns(f, Clients)) - f[c] + g[c]
    BY <1>1, <1>2, <1>3, ColumnChanges
  <1> QED  BY <1>4, <1>5, <1>6 DEF f, g

LEMMA BalanceMoves ==
  ASSUME SumsOK, NEW c \in Clients, Others(c), pc[c] # "idle",
         NEW n \in Nat, Counts(c, n)
  PROVE  /\ \A name \in {"SADD", "SREM"} : IsFiniteSet(Columns(InFlight(name), Clients)')
         /\ Balance \in Int /\ Gain(c, n) \in Int /\ answered' \in Int
         /\ Balance' = Balance + Gain(c, n)
  <1>1. \A d \in Clients \ {c} : hits'[d] = hits[d]
    BY DEF Counts
  <1>2. hits' \in [Clients -> Nat] /\ hits[c] \in Nat /\ answered \in Int /\ answered' \in Int
    BY DEF Counts, SumsOK
  <1>3. \A name \in {"SADD", "SREM"} : IsFiniteSet(Columns(InFlight(name), Clients)')
    BY <1>1, <1>2, TallyMoves
  <1> DEFINE T(name) == Total(InFlight(name))
             U(name) == Total(InFlight(name)')
             x(name) == IF call[c].name = name THEN hits[c] ELSE 0
             y(name) == IF pc'[c] # "idle" /\ call'[c].name = name THEN hits'[c] ELSE 0
  <1>4. \A name : InFlight(name)[c] = x(name) /\ InFlight(name)'[c] = y(name)
    BY DEF InFlight
  <1>5. \A name \in {"SADD", "SREM"} :
          T(name) \in Nat /\ U(name) \in Nat /\ U(name) = T(name) - x(name) + y(name)
    BY <1>1, <1>2, <1>4, TallyMoves
  <1>6. Balance = answered + T("SADD") - T("SREM") /\ Balance' = answered' + U("SADD") - U("SREM")
    BY DEF Balance
  <1> HIDE DEF T, U
  <1>7. /\ x("SADD") \in Nat /\ y("SADD") \in Nat /\ x("SREM") \in Nat /\ y("SREM") \in Nat
        /\ T("SADD") \in Nat /\ U("SADD") \in Nat /\ U("SADD") = T("SADD") - x("SADD") + y("SADD")
        /\ T("SREM") \in Nat /\ U("SREM") \in Nat /\ U("SREM") = T("SREM") - x("SREM") + y("SREM")
    BY <1>2, <1>5
  <1>8. CASE call[c].name = "SADD"
    <2>1. x("SADD") = hits[c] /\ x("SREM") = 0 /\ y("SREM") = 0 /\ Gain(c, n) = n - hits[c]
      BY <1>8 DEF Counts, Gain
    <2>2. answered' + y("SADD") = answered + n
      BY <1>2, <1>8 DEF Counts
    <2> HIDE DEF x, y
    <2> QED  BY <1>2, <1>3, <1>6, <1>7, <2>1, <2>2
  <1>9. CASE call[c].name = "SREM"
    <2>1. x("SREM") = hits[c] /\ x("SADD") = 0 /\ y("SADD") = 0 /\ Gain(c, n) = hits[c] - n
      BY <1>9 DEF Counts, Gain
    <2>2. answered' - y("SREM") = answered - n
      BY <1>2, <1>9 DEF Counts
    <2> HIDE DEF x, y
    <2> QED  BY <1>2, <1>3, <1>6, <1>7, <2>1, <2>2
  <1>10. CASE call[c].name \notin {"SADD", "SREM"}
    <2>1. /\ x("SREM") = 0 /\ x("SADD") = 0 /\ y("SADD") = 0 /\ y("SREM") = 0 /\ Gain(c, n) = 0
          /\ answered' = answered
      BY <1>10 DEF Counts, Gain
    <2> HIDE DEF x, y
    <2> QED  BY <1>2, <1>3, <1>6, <1>7, <2>1
  <1> QED  BY <1>2, <1>3, <1>8, <1>9, <1>10

(* A step that counts what it adds to the sets and what it takes from them. *)
LEMMA CountedStep ==
  ASSUME Inv, Inv', SumInv, NEW c \in Clients, Moves(c), pc[c] # "idle", NEW n \in Nat, Counts(c, n),
         IsFiniteSet(Members'), Cardinality(Members') = Cardinality(Members) + Gain(c, n),
         pc'[c] # "find" \/ call'[c].name # "SREM"
  PROVE  SumInv'
  <1>1. /\ \A name \in {"SADD", "SREM"} : IsFiniteSet(Columns(InFlight(name), Clients)')
        /\ Balance \in Int /\ Gain(c, n) \in Int /\ answered' \in Int
        /\ Balance' = Balance + Gain(c, n)
    BY BalanceMoves DEF SumInv, Moves
  <1>2. Balance' = Cardinality(Members')
    BY <1>1 DEF SumInv, SetCountsAddUp, Balance
  <1>3. hits' \in [Clients -> Nat] /\ pc'[c] = "idle" => hits'[c] = 0
    BY DEF Counts
  <1>4. \A d \in Clients \ {c} : hits'[d] = hits[d] /\ pc'[d] = pc[d] /\ call'[d] = call[d]
    BY DEF Counts, Moves, Others
  <1>5. /\ \A d \in Clients : pc'[d] = "find" /\ call'[d].name = "SREM" => hits'[d] = 0
        /\ \A d \in Clients : pc'[d] = "idle" => hits'[d] = 0
    BY <1>3, <1>4 DEF SumInv, SumsOK, Counts
  <1>6. SumsOK'
    BY <1>1, <1>5 DEF SumsOK, Counts
  <1> QED  BY <1>2, <1>6 DEF SumInv, SetCountsAddUp, Balance

(* What a step does to the sets that there are.                            *)
LEMMA MembersStay ==
  ASSUME StoreOK, \A o \in Containers : kind'[o] = kind[o] \/ (kind[o] = Null /\ kind'[o] # Null),
         UNCHANGED heap
  PROVE  Members' = Members
  BY DEF StoreOK, Members

LEMMA MembersGrow ==
  ASSUME StoreOK, IsFiniteSet(Members), NEW o \in Containers, NEW x,
         heap' = [heap EXCEPT ![o] = @ \cup {x}], UNCHANGED kind
  PROVE  /\ IsFiniteSet(Members') /\ Cardinality(Members) \in Nat
         /\ Cardinality(Members') = IF kind[o] = "set" /\ x \notin heap[o]
                                    THEN Cardinality(Members) + 1 ELSE Cardinality(Members)
  <1>1. CASE kind[o] = "set"
    <2>1. Members' = Members \cup {<<o, x>>}
      BY <1>1 DEF StoreOK, Members
    <2>2. <<o, x>> \in Members <=> x \in heap[o]
      BY <1>1 DEF Members
    <2> QED  BY <1>1, <2>1, <2>2, FS_AddElement, FS_CardinalityType
  <1>2. CASE kind[o] # "set"
    <2>1. Members' = Members
      BY <1>2 DEF StoreOK, Members
    <2> QED  BY <1>2, <2>1, FS_CardinalityType
  <1> QED  BY <1>1, <1>2

LEMMA MembersShrink ==
  ASSUME StoreOK, IsFiniteSet(Members), NEW o \in Containers, NEW x,
         heap' = [heap EXCEPT ![o] = @ \ {x}], UNCHANGED kind
  PROVE  /\ IsFiniteSet(Members') /\ Cardinality(Members) \in Nat
         /\ Cardinality(Members') = IF kind[o] = "set" /\ x \in heap[o]
                                    THEN Cardinality(Members) - 1 ELSE Cardinality(Members)
  <1>1. CASE kind[o] = "set"
    <2>1. Members' = Members \ {<<o, x>>}
      BY <1>1 DEF StoreOK, Members
    <2>2. <<o, x>> \in Members <=> x \in heap[o]
      BY <1>1 DEF Members
    <2> QED  BY <1>1, <2>1, <2>2, FS_RemoveElement, FS_CardinalityType
  <1>2. CASE kind[o] # "set"
    <2>1. Members' = Members
      BY <1>2 DEF StoreOK, Members
    <2> QED  BY <1>2, <2>1, FS_CardinalityType
  <1> QED  BY <1>1, <1>2

(* The container a client works on is a set if the client runs SADD or SREM. *)
LEMMA HeldKind ==
  ASSUME Inv, NEW c \in Clients, pc[c] \in {"add", "put", "remove"}
  PROVE  /\ held[c] \in Containers /\ call[c] \in Commands
         /\ kind[held[c]] = "set" <=> call[c].name \in {"SADD", "SREM"}
  <1>1. held[c] \in Containers /\ kind[held[c]] = Slot(c)[1] /\ call[c] \in Commands
    BY DEF Inv, ClientsOK, ClientOK, Frames, Homes, Removes
  <1>2. /\ call[c].name \in {"HSET", "HMSET", "HSETNX", "HDEL", "SADD", "SREM", "ZADD", "ZREM"}
        /\ Slot(c)[1] = TypeOf(call[c].name)
    BY <1>1, JavaCollectionsAssumption DEF Inv, ClientsOK, ClientOK, Comers, Slot
  <1> QED  BY <1>1, <1>2 DEF TypeOf

(* The ways in which a client counts.                                      *)
LEMMA ReturnCounts ==
  ASSUME ClientsOK, SumsOK, NEW c \in Clients, NEW n, Return(c, n)
  PROVE  Counts(c, n)
  BY DEF Return, Counts, SumsOK, ClientsOK, Frames

LEMMA NextNameCounts ==
  ASSUME ClientsOK, SumsOK, NEW c \in Clients, NEW n \in Nat, NEW last \in {"return", "empty"},
         NextName(c, n, last), pc[c] # "idle"
  PROVE  Counts(c, n)
  <1>1. CASE Return(c, n)
    BY <1>1, ReturnCounts
  <1>2. CASE pc' = [pc EXCEPT ![c] = "empty"] /\ hits' = [hits EXCEPT ![c] = n] /\ UNCHANGED <<call, answered>>
    BY <1>2 DEF Counts, SumsOK, ClientsOK, Frames
  <1>3. CASE /\ pc' = [pc EXCEPT ![c] = LoopStep(call[c].name)]
             /\ hits' = [hits EXCEPT ![c] = n] /\ UNCHANGED <<call, answered>>
    <2>1. call[c] \in Commands
      BY DEF ClientsOK, ClientOK
    <2>2. LoopStep(call[c].name) # "idle"
      BY <2>1, CommandFacts DEF LoopStep, FirstStep
    <2> QED  BY <1>3, <2>2 DEF Counts, SumsOK, ClientsOK, Frames
  <1> QED  BY <1>1, <1>2, <1>3 DEF NextName

LEMMA GotoCounts ==
  ASSUME ClientsOK, SumsOK, NEW c \in Clients, NEW s, Goto(c, s), s # "idle"
  PROVE  Counts(c, hits[c])
  BY DEF Goto, Counts, SumsOK, ClientsOK, Frames

LEMMA NextNameLeavesFind ==
  ASSUME ClientsOK, NEW c \in Clients, NEW n, NEW last \in {"return", "empty"}, NextName(c, n, last),
         pc[c] # "idle"
  PROVE  pc'[c] # "find" \/ call'[c].name # "SREM"
  <1>1. call[c] \in Commands
    BY DEF ClientsOK, ClientOK
  <1>2. call[c].name = "SREM" => LoopStep(call[c].name) = "remove"
    BY DEF LoopStep
  <1>3. CASE Return(c, n)
    BY <1>3 DEF Return, ClientsOK, Frames
  <1>4. CASE pc' = [pc EXCEPT ![c] = last]
    BY <1>4 DEF ClientsOK, Frames
  <1>5. CASE pc' = [pc EXCEPT ![c] = LoopStep(call[c].name)] /\ UNCHANGED call
    BY <1>2, <1>5 DEF ClientsOK, Frames
  <1> QED  BY <1>3, <1>4, <1>5 DEF NextName

LEMMA RemovedCounts ==
  ASSUME ClientsOK, SumsOK, NEW c \in Clients, Removed(c), pc[c] # "idle"
  PROVE  Counts(c, hits[c]) /\ (pc'[c] # "find" \/ call'[c].name # "SREM")
  <1>1. hits[c] \in Nat
    BY DEF SumsOK
  <1>2. CASE Goto(c, "empty")
    BY <1>2, GotoCounts DEF Goto, ClientsOK, Frames
  <1>3. CASE NextName(c, hits[c], "empty")
    BY <1>1, <1>3, NextNameCounts, NextNameLeavesFind
  <1> QED  BY <1>2, <1>3 DEF Removed

LEMMA SumInit ==
  ASSUME Init
  PROVE  SumInv
  <1>1. \A name : \A c \in Clients : InFlight(name)[c] = 0
    <2>1. \A c \in Clients : pc[c] = "idle"
      BY DEF Init
    <2> TAKE name
    <2> TAKE c \in Clients
    <2>2. pc[c] = "idle"
      BY <2>1
    <2> QED  BY <2>2 DEF InFlight
  <1>2. \A name : DOMAIN InFlight(name) = Clients
    BY DEF InFlight
  <1>3. \A name : Columns(InFlight(name), Clients) = {} /\ Total(InFlight(name)) = Cardinality({})
    <2>1. \A name : \A c \in Clients : {c} \X (1 .. InFlight(name)[c]) = {}
      BY <1>1
    <2>2. \A name : UNION {{c} \X (1 .. InFlight(name)[c]) : c \in Clients} = {}
      BY <2>1
    <2> QED  BY <1>2, <2>2 DEF Columns, Total
  <1>4. Members = {}
    BY DEF Init, Members
  <1>5. IsFiniteSet({}) /\ Cardinality({}) = 0
    BY FS_EmptySet
  <1>6. SumsOK
    <2>1. \A name \in {"SADD", "SREM"} : IsFiniteSet(Columns(InFlight(name), Clients))
      BY <1>3, <1>5, Zenon
    <2>2. IsFiniteSet(Members)
      BY <1>4, <1>5, Zenon
    <2> QED  BY <2>1, <2>2 DEF Init, SumsOK
  <1> QED  BY <1>3, <1>4, <1>5, <1>6 DEF Init, SumInv, SetCountsAddUp

(* Steps that change no set and count nothing that SADD or SREM answer.    *)
LEMMA UncountedStep ==
  ASSUME Inv, Inv', SumInv, NEW c \in Clients, Moves(c), pc[c] # "idle", NEW n \in Nat, Counts(c, n),
         Members' = Members, n = hits[c] \/ call[c].name \notin {"SADD", "SREM"},
         pc'[c] # "find" \/ call'[c].name # "SREM"
  PROVE  SumInv'
  <1>1. IsFiniteSet(Members') /\ Cardinality(Members) \in Nat
    BY FS_CardinalityType DEF SumInv, SumsOK
  <1>2. Gain(c, n) = 0
    BY DEF Gain, SumInv, SumsOK
  <1>3. Cardinality(Members') = Cardinality(Members) + Gain(c, n)
    BY <1>1, <1>2
  <1> QED  BY <1>1, <1>3, CountedStep

LEMMA InvokeSums ==
  ASSUME Inv, Inv', SumInv, NEW c \in Clients, NEW m \in Commands, Invoke(c, m)
  PROVE  SumInv'
  <1>1. pc[c] = "idle" /\ hits[c] = 0 /\ UNCHANGED <<hits, answered>>
    BY DEF Invoke, SumInv, SumsOK, histories
  <1>2. \A d \in Clients \ {c} : pc'[d] = pc[d] /\ call'[d] = call[d]
    BY DEF Invoke, Inv, ClientsOK, Frames
  <1>3. \A name : InFlight(name)' = InFlight(name)
    <2> TAKE name
    <2>1. \A d \in Clients : InFlight(name)'[d] = InFlight(name)[d]
      BY <1>1, <1>2 DEF InFlight
    <2> QED  BY <2>1 DEF InFlight
  <1>4. Members' = Members
    BY DEF Invoke, Members
  <1>5. SumsOK'
    <2>1. \A name : Columns(InFlight(name), Clients)' = Columns(InFlight(name), Clients)
      BY <1>3 DEF Columns
    <2>2. \A name \in {"SADD", "SREM"} : IsFiniteSet(Columns(InFlight(name), Clients)')
      BY <2>1 DEF SumInv, SumsOK
    <2>3. \A d \in Clients : pc'[d] = "find" /\ call'[d].name = "SREM" => hits'[d] = 0
      BY <1>1, <1>2 DEF SumInv, SumsOK
    <2>4. \A d \in Clients : pc'[d] = "idle" => hits'[d] = 0
      BY <1>1, <1>2 DEF SumInv, SumsOK
    <2> QED  BY <1>1, <1>4, <2>2, <2>3, <2>4 DEF SumInv, SumsOK
  <1> QED  BY <1>1, <1>3, <1>4, <1>5 DEF SumInv, SetCountsAddUp, Total

LEMMA WorkSums ==
  ASSUME Inv, Inv', SumInv, NEW c \in Clients, Work(c)
  PROVE  SumInv'
  <1>1. /\ Moves(c) /\ ClientsOK /\ StoreOK /\ SumsOK /\ IsFiniteSet(Members)
        /\ hits \in [Clients -> Nat] /\ pc \in [Clients -> Steps]
    BY WorkMoves DEF Inv, SumInv, SumsOK, ClientsOK, Frames
  <1>2. pc[c] # "idle" /\ call[c] \in Commands /\ call[c].name \in Comers(pc[c])
    BY <1>1 DEF Work, Look, Test, Create, Put, Add, Count, Find, Remove, Uncount, AddUp, IsEmpty,
                Discard, Delete, ClientsOK, ClientOK
  <1>3. CASE Look(c)
    <2>1. PICK n \in Nat : hits' = [hits EXCEPT ![c] = n]
      BY <1>1, <1>3 DEF Look, Goto
    <2>2. Counts(c, n) /\ pc'[c] \in {"create", "test"}
      BY <1>1, <1>3, <2>1 DEF Look, Goto, Counts, SumsOK
    <2>3. call[c].name = "HSET" /\ Members' = Members
      BY <1>2, <1>3 DEF Look, Comers, Members
    <2> QED  BY <1>1, <1>2, <2>2, <2>3, UncountedStep
  <1>4. CASE Test(c)
    <2>1. call[c].name \notin {"SADD", "SREM"} /\ Members' = Members
      BY <1>2, <1>4 DEF Test, Comers, Members
    <2>2. CASE Return(c, 0)
      <3>1. Counts(c, 0) /\ pc'[c] # "find"
        BY <1>1, <2>2, ReturnCounts DEF Return
      <3> QED  BY <1>1, <1>2, <2>1, <3>1, UncountedStep
    <2>3. CASE ~ Return(c, 0)
      <3>1. PICK n \in Nat : hits' = [hits EXCEPT ![c] = n]
        BY <1>1, <1>4, <2>3 DEF Test
      <3>2. Counts(c, n) /\ pc'[c] \in {"create", "put"}
        BY <1>1, <1>4, <2>3, <3>1 DEF Test, Counts, SumsOK
      <3> QED  BY <1>1, <1>2, <2>1, <3>2, UncountedStep
    <2> QED  BY <2>2, <2>3
  <1>5. CASE Create(c)
    <2>1. PICK s \in {"put", "test", "add"} : Goto(c, s)
      BY <1>2, <1>5 DEF Create, Comers
    <2>2. Counts(c, hits[c]) /\ pc'[c] = s /\ hits[c] \in Nat
      BY <1>1, <2>1, GotoCounts DEF Goto
    <2>3. Slot(c)[1] # Null
      BY <1>1, <1>2, ClientFacts, JavaCollectionsAssumption
    <2>4. Members' = Members
      BY <1>1, <1>5, <2>3, MembersStay DEF Create, StoreOK
    <2> QED  BY <1>1, <1>2, <2>2, <2>4, UncountedStep
  <1>6. CASE Put(c) \/ Add(c)
    <2> DEFINE n == IF pc[c] = "add" /\ Name(c) \notin heap[held[c]] THEN hits[c] + 1 ELSE hits[c]
    <2>1. /\ held[c] \in Containers
          /\ kind[held[c]] = "set" <=> call[c].name \in {"SADD", "SREM"}
          /\ pc[c] = "add" <=> call[c].name = "SADD"
          /\ call[c].name # "SREM"
      BY <1>2, <1>6, HeldKind DEF Put, Add, Comers
    <2>2. n \in Nat
      BY <1>1
    <2>3. Counts(c, n) /\ (pc'[c] # "find" \/ call'[c].name # "SREM")
      <3>1. CASE NextName(c, hits[c], "return") /\ n = hits[c]
        BY <1>1, <1>2, <2>2, <3>1, NextNameCounts, NextNameLeavesFind
      <3>2. CASE pc' = [pc EXCEPT ![c] = "count"] /\ hits' = [hits EXCEPT ![c] = n] /\ UNCHANGED <<call, answered>>
        <4> HIDE DEF n
        <4> QED  BY <1>1, <2>2, <3>2 DEF Counts, SumsOK
      <3> QED  BY <1>6, <3>1, <3>2 DEF Put, Add, Enter
    <2>4. heap' = [heap EXCEPT ![held[c]] = @ \cup {Name(c)}] /\ UNCHANGED kind
      BY <1>6 DEF Put, Add, Enter
    <2>5. /\ IsFiniteSet(Members') /\ Cardinality(Members) \in Nat
          /\ Cardinality(Members') = IF kind[held[c]] = "set" /\ Name(c) \notin heap[held[c]]
                                     THEN Cardinality(Members) + 1 ELSE Cardinality(Members)
      BY <1>1, <2>1, <2>4, MembersGrow
    <2>6. Cardinality(Members') = Cardinality(Members) + Gain(c, n)
      BY <1>1, <2>1, <2>5 DEF Gain
    <2> HIDE DEF n
    <2> QED  BY <1>1, <1>2, <2>2, <2>3, <2>5, <2>6, CountedStep
  <1>7. CASE Find(c)
    <2>1. Members' = Members
      BY <1>7 DEF Find, Members
    <2>2. call[c].name = "SREM" => hits[c] = 0
      BY <1>7 DEF Find, SumInv, SumsOK
    <2>3. CASE Goto(c, "remove")
      <3>1. Counts(c, hits[c]) /\ pc'[c] = "remove"
        BY <1>1, <2>3, GotoCounts DEF Goto
      <3> QED  BY <1>1, <1>2, <2>1, <3>1, UncountedStep
    <2>4. CASE call[c].name = "HDEL" /\ NextName(c, hits[c], "return")
      <3>1. Counts(c, hits[c]) /\ (pc'[c] # "find" \/ call'[c].name # "SREM")
        BY <1>1, <1>2, <2>4, NextNameCounts, NextNameLeavesFind
      <3> QED  BY <1>1, <1>2, <2>1, <3>1, UncountedStep
    <2>5. CASE Return(c, 0)
      <3>1. Counts(c, 0) /\ pc'[c] = "idle"
        BY <1>1, <2>5, ReturnCounts DEF Return
      <3>2. 0 = hits[c] \/ call[c].name \notin {"SADD", "SREM"}
        BY <1>2, <1>7, <2>2 DEF Find, Comers
      <3> QED  BY <1>1, <1>2, <2>1, <3>1, <3>2, UncountedStep
    <2> QED  BY <1>7, <2>3, <2>4, <2>5 DEF Find
  <1>8. CASE Remove(c)
    <2> DEFINE n == IF Name(c) \in heap[held[c]] THEN hits[c] + 1 ELSE hits[c]
    <2>1. /\ held[c] \in Containers
          /\ kind[held[c]] = "set" <=> call[c].name \in {"SADD", "SREM"}
          /\ call[c].name # "SADD"
      BY <1>2, <1>8, HeldKind DEF Remove, Comers
    <2>2. n \in Nat
      BY <1>1
    <2>3. Counts(c, n) /\ (pc'[c] # "find" \/ call'[c].name # "SREM")
      <3>1. CASE /\ pc' = [pc EXCEPT ![c] = "uncount"] /\ hits' = [hits EXCEPT ![c] = n]
                 /\ UNCHANGED <<call, answered>>
        <4> HIDE DEF n
        <4> QED  BY <1>1, <2>2, <3>1 DEF Counts, SumsOK
      <3>2. CASE Removed(c) /\ n = hits[c]
        BY <1>1, <1>2, <2>2, <3>2, RemovedCounts
      <3> QED  BY <1>8, <3>1, <3>2 DEF Remove
    <2>4. heap' = [heap EXCEPT ![held[c]] = @ \ {Name(c)}] /\ UNCHANGED kind
      BY <1>8 DEF Remove
    <2>5. /\ IsFiniteSet(Members') /\ Cardinality(Members) \in Nat
          /\ Cardinality(Members') = IF kind[held[c]] = "set" /\ Name(c) \in heap[held[c]]
                                     THEN Cardinality(Members) - 1 ELSE Cardinality(Members)
      BY <1>1, <2>1, <2>4, MembersShrink
    <2>6. Cardinality(Members') = Cardinality(Members) + Gain(c, n)
      BY <1>1, <2>1, <2>5 DEF Gain
    <2> HIDE DEF n
    <2> QED  BY <1>1, <1>2, <2>2, <2>3, <2>5, <2>6, CountedStep
  <1>9. CASE Count(c) \/ Uncount(c) \/ AddUp(c) \/ IsEmpty(c) \/ Discard(c)
    <2>1. Members' = Members
      BY <1>9 DEF Count, Uncount, AddUp, IsEmpty, Discard, Members
    <2>2. Counts(c, hits[c]) /\ (pc'[c] # "find" \/ call'[c].name # "SREM")
      <3>1. CASE Goto(c, "discard") \/ Goto(c, "sum")
        BY <1>1, <3>1, GotoCounts DEF Goto
      <3>4. CASE Removed(c)
        BY <1>1, <1>2, <3>4, RemovedCounts
      <3>2. CASE NextName(c, hits[c], "return")
        BY <1>1, <1>2, <3>2, NextNameCounts, NextNameLeavesFind
      <3>3. CASE Return(c, hits[c])
        BY <1>1, <3>3, ReturnCounts DEF Return
      <3> QED  BY <1>9, <3>1, <3>2, <3>3, <3>4 DEF Count, Uncount, AddUp, IsEmpty, Discard, Finish
    <2> QED  BY <1>1, <1>2, <2>1, <2>2, UncountedStep
  <1>10. CASE Delete(c)
    <2>1. Members' = Members /\ call[c].name \notin {"SADD", "SREM"}
      BY <1>2, <1>10 DEF Delete, Members, Comers
    <2>2. CASE Return(c, 0)
      <3>1. Counts(c, 0) /\ pc'[c] = "idle"
        BY <1>1, <2>2, ReturnCounts DEF Return
      <3> QED  BY <1>1, <1>2, <2>1, <3>1, UncountedStep
    <2>3. CASE UNCHANGED <<pc, call, hits, held, answered>>
      <3>1. Counts(c, hits[c]) /\ pc'[c] = "delete"
        BY <1>1, <1>2, <1>10, <2>3 DEF Counts, SumsOK, Delete
      <3> QED  BY <1>1, <1>2, <2>1, <3>1, UncountedStep
    <2> QED  BY <1>10, <2>2, <2>3 DEF Delete
  <1> QED  BY <1>3, <1>4, <1>5, <1>6, <1>7, <1>8, <1>9, <1>10 DEF Work

LEMMA SumStep ==
  ASSUME Inv, Inv', SumInv, [Next]_vars
  PROVE  SumInv'
  <1>1. CASE UNCHANGED vars
    <2>1. \A name : InFlight(name)' = InFlight(name)
      BY <1>1 DEF vars, InFlight
    <2>2. Members' = Members
      BY <1>1 DEF vars, Members
    <2> QED  BY <1>1, <2>1, <2>2 DEF vars, histories, SumInv, SumsOK, SetCountsAddUp, Total, Columns
  <1> QED  BY <1>1, InvokeSums, WorkSums DEF Next

(* Whatever SADD and SREM of any number of clients do to a set between     *)
(* each other's lookup, add or remove, isEmpty test and removal from the   *)
(* map (Database.java, sadd and srem), they answer what was really added   *)
(* and removed, in the sets the map still has or in discarded ones.        *)
THEOREM SetAnswersAddUp == Spec => []SetCountsAddUp
  <1>1. Inv /\ Inv' /\ SumInv /\ [Next]_vars => SumInv'
    BY SumStep
  <1>2. SumInv => SetCountsAddUp
    BY DEF SumInv
  <1> QED  BY <1>1, <1>2, SumInit, Invariance, PTL DEF Spec
=============================================================================
