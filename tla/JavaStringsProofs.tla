-------------------------- MODULE JavaStringsProofs --------------------------
(***************************************************************************)
(* For any number of keys, clients, entry objects and calls: no thread of  *)
(* the Java server dereferences a missing or uncreated entry, and a key    *)
(* that never had a deadline is removed by DEL only.                       *)
(*                                                                         *)
(* The argument.  All threads that have an entry object in hand, and the   *)
(* map, have it for one and the same key (Homes), since an object is       *)
(* created for a key and never moved.  So EXPIRE, which marks the key of   *)
(* its call as mortal, marks the key of every thread that will find the    *)
(* deadline it wrote (Marked), and who is about to drop a key has found a  *)
(* deadline there (DropsMortals).                                          *)
(***************************************************************************)
EXTENDS JavaStrings, Counting

(* The calls that come to a step.                                          *)
Comers(s) ==
  CASE s \in {"look", "check", "drop"} -> {"GET", "MGET", "EXISTS", "SET", "INCRBY"}
    [] s = "put"                       -> {"SET", "INCRBY", "MSET"}
    [] s = "remove"                    -> {"DEL"}
    [] s = "find"                      -> {"EXPIRE", "TTL"}
    [] s = "retime"                    -> {"EXPIRE"}
    [] s = "ttl"                       -> {"TTL"}
    [] OTHER                           -> {}

Frames ==
  /\ now \in Epoch .. MaxTime
  /\ pc \in [Threads -> Steps]
  /\ call \in [Clients -> Commands \cup {NoCall}]
  /\ step \in [Clients -> Nat \ {0}]
  /\ entry \in [Threads -> EntryIds \cup {Null}]
  /\ found \in [Clients -> Seq(Values \cup {Nil})]
  /\ num \in [Clients -> Int]
  /\ todo \subseteq Keys /\ at \in Keys \cup {Null}
  /\ reply \in [Clients -> Replies(Keys, Values)]
  /\ mortal \subseteq Keys /\ asked \in Int

ClientOK(c) ==
  /\ pc[c] = "idle" => call[c] = NoCall /\ step[c] = 1
  /\ pc[c] # "idle" => call[c] \in Commands /\ call[c].name \in Comers(pc[c])
  /\ pc[c] # "idle" /\ call[c].name # "SET" => step[c] \in 1 .. Len(call[c].keys)
  /\ pc[c] = "put" /\ call[c].name = "INCRBY" => num[c] \in Counters

ThreadsOK ==
  /\ Frames
  /\ \A c \in Clients : ClientOK(c)
  /\ pc[Sweeper] \in {"look", "check", "drop"}
  /\ pc[Sweeper] # "look" => at \in Keys
  /\ \A t \in Threads : entry[t] # Null <=> pc[t] \in {"check", "retime", "ttl"}

StoreOK ==
  /\ strings \in [Keys -> EntryIds \cup {Null}]
  /\ heap \in [EntryIds -> Entries \cup {Unused}]

(* The key a thread works on, and whether the map or a thread has an       *)
(* object for a key.                                                       *)
KeyOf(t) == IF t = Sweeper THEN at ELSE Key(t)
Has(e, k) == strings[k] = e \/ \E t \in Threads : entry[t] = e /\ KeyOf(t) = k

Homes == \A e \in EntryIds, k \in Keys, q \in Keys : Has(e, k) /\ Has(e, q) => k = q
Marked ==
  \A e \in EntryIds, k \in Keys :
    Has(e, k) => heap[e] \in Entries /\ (heap[e].expiry # 0 => k \in mortal)
DropsMortals == \A t \in Threads : pc[t] = "drop" => KeyOf(t) \in mortal

Inv == ThreadsOK /\ StoreOK /\ Homes /\ Marked /\ DropsMortals
----------------------------------------------------------------------------
(* What calls are made of, and what is answered. *)

LEMMA CommandFacts ==
  ASSUME NEW m \in Commands
  PROVE  /\ m.keys \in Seq(Keys) /\ m.values \in Seq(Values)
         /\ 1 \in 1 .. Len(m.keys) /\ Len(m.values) = Len(m.keys)
         /\ m.ttl \in Int /\ m.by \in Int
         /\ m.name \in {"SET", "GET", "MGET", "EXISTS", "DEL", "EXPIRE", "TTL", "INCRBY", "MSET"}
  <1>1. m \in Calls
    BY JavaStringsAssumption
  <1>2. m.keys \in Seq(Keys) /\ m.values \in Seq(Values)
    BY <1>1 DEF Calls
  <1>3. m.keys # <<>> /\ Len(m.values) = Len(m.keys)
    BY JavaStringsAssumption
  <1>4. 1 \in 1 .. Len(m.keys)
    BY <1>2, <1>3
  <1> QED  BY <1>1, <1>2, <1>3, <1>4 DEF Calls

(* A thread at work has a key.                                             *)
LEMMA KeyFacts ==
  ASSUME ThreadsOK
  PROVE  /\ \A c \in Clients : c \in Threads /\ KeyOf(c) = Key(c)
         /\ \A c \in Clients : pc[c] # "idle" => Key(c) \in Keys
         /\ KeyOf(Sweeper) = at
         /\ \A t \in Threads : pc[t] \in {"check", "drop", "retime", "ttl"} => KeyOf(t) \in Keys
  <1>1. \A c \in Clients : c \in Threads /\ KeyOf(c) = Key(c)
    BY JavaStringsAssumption DEF Threads, KeyOf
  <1>2. ASSUME NEW c \in Clients, pc[c] # "idle"
        PROVE  Key(c) \in Keys
    <2>1. call[c] \in Commands
      BY <1>2 DEF ThreadsOK, ClientOK
    <2>2. call[c].name # "SET" => step[c] \in 1 .. Len(call[c].keys)
      BY <1>2 DEF ThreadsOK, ClientOK
    <2> QED  BY <2>1, <2>2, CommandFacts DEF Key
  <1>3. KeyOf(Sweeper) = at
    BY DEF KeyOf
  <1> QED  BY <1>1, <1>2, <1>3 DEF ThreadsOK, Threads

LEMMA ReplyTypes ==
  /\ NullReply \in Replies(Keys, Values) /\ Error \in Replies(Keys, Values)
  /\ OK \in Replies(Keys, Values)
  /\ \A n \in Int : Integer(n) \in Replies(Keys, Values)
  /\ \A fs \in Seq(Values \cup {Nil}) : Array(fs) \in Replies(Keys, Values)
  /\ \A v \in Values \cup {Nil} : BulkOrNull(v) \in Replies(Keys, Values)
  BY DEF Replies, NullReply, Error, OK, Simple, Integer, Array, BulkOrNull, Bulk

LEMMA AnswerType ==
  ASSUME NEW name, NEW fs \in Seq(Values \cup {Nil}), fs # <<>>
  PROVE  Answer(name, fs) \in Replies(Keys, Values)
  <1>1. fs[1] \in Values \cup {Nil}
    OBVIOUS
  <1>2. Cardinality({i \in DOMAIN fs : fs[i] # Nil}) \in Int
    <2>1. IsFiniteSet(DOMAIN fs)
      BY FS_Interval
    <2> QED  BY <2>1, FS_Subset, FS_CardinalityType
  <1> QED  BY <1>1, <1>2, ReplyTypes DEF Answer

LEMMA ToIntType ==
  ASSUME NEW n \in Int
  PROVE  ToInt(n) \in Int
  <1>1. IntSpan \div 2 \in Int
    BY JavaStringsAssumption
  <1>2. (n + IntSpan \div 2) % IntSpan \in Int
    BY <1>1, JavaStringsAssumption
  <1> QED  BY <1>1, <1>2 DEF ToInt

LEMMA SecondsLeftType ==
  ASSUME NEW ms \in Int
  PROVE  SecondsLeft(ms) \in Int
  BY JavaStringsAssumption DEF SecondsLeft
----------------------------------------------------------------------------
(* Where a client goes. *)

(* Client c moves on, with no object in hand, and the others stay.         *)
Answers(c) ==
  /\ pc' \in [Threads -> Steps] /\ call' \in [Clients -> Commands \cup {NoCall}]
  /\ step' \in [Clients -> Nat \ {0}] /\ num' \in [Clients -> Int]
  /\ found' \in [Clients -> Seq(Values \cup {Nil})]
  /\ reply' \in [Clients -> Replies(Keys, Values)]
  /\ ClientOK(c)' /\ pc'[c] \notin {"check", "drop", "retime", "ttl"}
  /\ \A t \in Threads \ {c} : pc'[t] = pc[t]
  /\ \A d \in Clients \ {c} : call'[d] = call[d] /\ step'[d] = step[d] /\ num'[d] = num[d]

LEMMA ReturnAnswers ==
  ASSUME ThreadsOK, NEW c \in Clients, NEW r \in Replies(Keys, Values), Return(c, r)
  PROVE  Answers(c)
  BY KeyFacts DEF Return, Answers, ThreadsOK, ClientOK, Frames, Steps

(* On to the next key of a call on many.                                   *)
LEMMA NextKeyAnswers ==
  ASSUME ThreadsOK, NEW c \in Clients, NEW s, GotoNext(c, s), ~LastKey(c),
         found' \in [Clients -> Seq(Values \cup {Nil})],
         pc[c] # "idle", call[c].name # "SET", call[c].name # "INCRBY",
         s \in {"look", "put", "remove"}, call[c].name \in Comers(s)
  PROVE  Answers(c)
  <1>1. call[c] \in Commands /\ step[c] \in 1 .. Len(call[c].keys)
    BY DEF ThreadsOK, ClientOK
  <1>2. step[c] + 1 \in 1 .. Len(call[c].keys) /\ step[c] + 1 \in Nat \ {0}
    BY <1>1, CommandFacts DEF LastKey
  <1>3. ClientOK(c)'
    BY <1>1, <1>2, KeyFacts DEF GotoNext, ThreadsOK, ClientOK, Frames
  <1> QED  BY <1>1, <1>2, <1>3, KeyFacts DEF GotoNext, Answers, ThreadsOK, Frames, Steps

LEMMA GatherAnswers ==
  ASSUME ThreadsOK, NEW c \in Clients, NEW x \in Values \cup {Nil}, Gather(c, x),
         pc[c] # "idle", call[c].name \in {"GET", "MGET", "EXISTS", "DEL"}
  PROVE  Answers(c)
  <1> DEFINE fs == Append(found[c], x)
  <1>1. fs \in Seq(Values \cup {Nil}) /\ fs # <<>>
    <2>1. found[c] \in Seq(Values \cup {Nil})
      BY DEF ThreadsOK, Frames
    <2>2. fs \in Seq(Values \cup {Nil}) /\ Len(fs) = Len(found[c]) + 1
      BY <2>1
    <2>3. Len(fs) # 0
      BY <2>1, <2>2
    <2> QED  BY <2>2, <2>3
  <1> HIDE DEF fs
  <1>2. CASE LastKey(c) /\ Return(c, Answer(call[c].name, fs))
    BY <1>1, <1>2, AnswerType, ReturnAnswers
  <1>3. CASE ~LastKey(c) /\ found' = [found EXCEPT ![c] = fs] /\ GotoNext(c, FirstStep(call[c]))
    <2>1. found' \in [Clients -> Seq(Values \cup {Nil})]
      BY <1>1, <1>3 DEF ThreadsOK, Frames
    <2>2. FirstStep(call[c]) \in {"look", "remove"} /\ call[c].name \in Comers(FirstStep(call[c]))
      BY DEF FirstStep, Comers
    <2> QED  BY <1>3, <2>1, <2>2, NextKeyAnswers
  <1> QED  BY <1>2, <1>3 DEF Gather, fs

LEMMA FoundAnswers ==
  ASSUME ThreadsOK, NEW c \in Clients, NEW x \in Values \cup {Nil}, Found(c, x),
         pc[c] \in {"look", "check", "drop"}
  PROVE  Answers(c)
  <1>1. call[c] \in Commands /\ call[c].name \in Comers("look")
    BY DEF ThreadsOK, ClientOK, Comers
  <1>2. CASE call[c].name \in {"GET", "MGET", "EXISTS"} /\ Gather(c, x)
    BY <1>2, GatherAnswers
  <1>3. CASE call[c].name = "SET" /\ Test(c, x)
    <2>1. CASE Return(c, NullReply)
      BY <2>1, ReplyTypes, ReturnAnswers
    <2>2. CASE GotoNext(c, "look") /\ UNCHANGED found
      <3>1. ClientOK(c)'
        BY <1>1, <1>3, <2>2, KeyFacts DEF GotoNext, ThreadsOK, ClientOK, Frames, Comers
      <3> QED  BY <1>1, <2>2, <3>1, KeyFacts DEF GotoNext, Answers, ThreadsOK, Frames, Steps
    <2>3. CASE Goto(c, "put")
      BY <1>1, <1>3, <2>3, KeyFacts DEF Goto, Answers, ThreadsOK, ClientOK, Frames, Steps, Comers
    <2> QED  BY <1>3, <2>1, <2>2, <2>3 DEF Test
  <1>4. CASE call[c].name = "INCRBY" /\ Increase(c, x)
    <2>1. CASE Return(c, Error)
      BY <2>1, ReplyTypes, ReturnAnswers
    <2>2. CASE /\ Number(x) + call[c].by \in Counters
               /\ num' = [num EXCEPT ![c] = Number(x) + call[c].by]
               /\ pc' = [pc EXCEPT ![c] = "put"]
               /\ UNCHANGED <<call, step, found, reply>>
      <3>1. Number(x) + call[c].by \in Int
        BY <2>2, JavaStringsAssumption
      <3>2. PICK n \in Int : n \in Counters /\ num' = [num EXCEPT ![c] = n]
        BY <2>2, <3>1
      <3> QED  BY <1>1, <1>4, <2>2, <3>2, KeyFacts DEF Answers, ThreadsOK, ClientOK, Frames, Steps, Comers
    <2> QED  BY <1>4, <2>1, <2>2 DEF Increase
  <1> QED  BY <1>2, <1>3, <1>4 DEF Found
----------------------------------------------------------------------------
(* Who has which object. *)

(* A step of client c, or of the sweeper, that gives no one an object they *)
(* did not have and leaves the ones they have alone.                       *)
LEMMA HomesStay ==
  ASSUME Homes, Marked, mortal \subseteq mortal',
         \A e \in EntryIds, k \in Keys : Has(e, k)' => Has(e, k) /\ heap'[e] = heap[e]
  PROVE  Homes' /\ Marked'
  BY DEF Homes, Marked

LEMMA CollectedKeeps ==
  ASSUME NEW h, heap' = Collected(h), NEW e \in EntryIds, NEW k \in Keys, Has(e, k)'
  PROVE  heap'[e] = h[e]
  <1>1. e # Null
    BY JavaStringsAssumption
  <1>2. e \in Reachable'
    BY <1>1 DEF Has, Reachable
  <1> QED  BY <1>2 DEF Collected

LEMMA CollectedType ==
  ASSUME StoreOK, heap' = Collected(heap)
  PROVE  heap' \in [EntryIds -> Entries \cup {Unused}]
  BY DEF StoreOK, Collected

(* What a step of client c leaves to the other threads.                    *)
Others(c) ==
  /\ \A t \in Threads \ {c} : entry'[t] = entry[t] /\ pc'[t] = pc[t]
  /\ \A d \in Clients \ {c} : call'[d] = call[d] /\ step'[d] = step[d] /\ num'[d] = num[d]
  /\ UNCHANGED sweepVars

LEMMA OthersKeys ==
  ASSUME NEW c \in Clients, Others(c), NEW t \in Threads \ {c}
  PROVE  KeyOf(t)' = KeyOf(t)
  BY DEF Others, KeyOf, Key, Threads, sweepVars

(* With no object in hand, c has no more than the map had.                 *)
LEMMA LetsGo ==
  ASSUME NEW c \in Clients, Others(c), entry'[c] = Null,
         NEW e \in EntryIds, NEW k \in Keys, Has(e, k)'
  PROVE  strings'[k] = e \/ Has(e, k)
  <1>1. CASE strings'[k] = e
    BY <1>1
  <1>2. ASSUME NEW t \in Threads, entry'[t] = e, KeyOf(t)' = k
        PROVE  Has(e, k)
    <2>1. t # c
      BY <1>2, JavaStringsAssumption
    <2> QED  BY <1>2, <2>1, OthersKeys DEF Has, Others
  <1> QED  BY <1>1, <1>2 DEF Has

(* Taking an object from the map at one's own key.                         *)
LEMMA TakesHold ==
  ASSUME NEW c \in Clients, Others(c), UNCHANGED <<strings, call, step>>,
         entry'[c] = strings[Key(c)], Key(c) \in Keys,
         NEW e \in EntryIds, NEW k \in Keys, Has(e, k)'
  PROVE  Has(e, k)
  <1>1. CASE strings'[k] = e
    BY <1>1 DEF Has
  <1>2. ASSUME NEW t \in Threads, entry'[t] = e, KeyOf(t)' = k
        PROVE  Has(e, k)
    <2>1. CASE t # c
      BY <1>2, <2>1, OthersKeys DEF Has, Others
    <2>2. CASE t = c
      <3>1. KeyOf(c)' = Key(c)
        BY JavaStringsAssumption DEF KeyOf, Key
      <3> QED  BY <1>2, <2>2, <3>1 DEF Has
    <2> QED  BY <2>1, <2>2
  <1> QED  BY <1>1, <1>2 DEF Has

(* The threads after a step that ends in Answers.                          *)
LEMMA AnswersKeepThreads ==
  ASSUME ThreadsOK, DropsMortals, NEW c \in Clients, Answers(c), Others(c), entry'[c] = Null,
         entry' \in [Threads -> EntryIds \cup {Null}], UNCHANGED now,
         mortal \subseteq mortal', mortal' \subseteq Keys, asked' \in Int
  PROVE  ThreadsOK' /\ DropsMortals'
  <1>1. Frames'
    BY DEF ThreadsOK, Frames, Answers, Others, sweepVars
  <1>2. ASSUME NEW d \in Clients
        PROVE  ClientOK(d)'
    <2>1. CASE d = c
      BY <2>1 DEF Answers
    <2>2. CASE d # c
      <3>1. pc'[d] = pc[d] /\ call'[d] = call[d] /\ step'[d] = step[d] /\ num'[d] = num[d]
        BY <2>2, KeyFacts DEF Others
      <3> QED  BY <3>1 DEF ThreadsOK, ClientOK
    <2> QED  BY <2>1, <2>2
  <1>3. Sweeper \in Threads \ {c}
    BY JavaStringsAssumption DEF Threads
  <1>4. pc'[Sweeper] = pc[Sweeper] /\ at' = at
    BY <1>3 DEF Others, sweepVars
  <1>5. \A t \in Threads : entry'[t] # Null <=> pc'[t] \in {"check", "retime", "ttl"}
    BY DEF ThreadsOK, Answers, Others
  <1>6. DropsMortals'
    BY OthersKeys DEF DropsMortals, Answers, Others
  <1> QED  BY <1>1, <1>2, <1>4, <1>5, <1>6 DEF ThreadsOK

(* The threads after a step of c to where its object is looked at.         *)
LEMMA GoesKeepThreads ==
  ASSUME ThreadsOK, DropsMortals, NEW c \in Clients, NEW s, Goto(c, s), pc[c] # "idle",
         call[c].name \in Comers(s), s \in {"check", "drop", "retime", "ttl"},
         NEW e \in EntryIds \cup {Null}, entry' = [entry EXCEPT ![c] = e],
         e # Null <=> s # "drop", s = "drop" => Key(c) \in mortal,
         UNCHANGED <<now, sweepVars, histories>>
  PROVE  ThreadsOK' /\ DropsMortals' /\ Others(c)
  <1>1. c \in Threads /\ Sweeper \in Threads /\ c # Sweeper
    BY JavaStringsAssumption DEF Threads
  <1>2. Frames'
    BY <1>1 DEF ThreadsOK, Frames, Goto, Steps, sweepVars, histories
  <1>3. Others(c)
    BY <1>1 DEF Others, Goto, ThreadsOK, Frames
  <1>4. \A d \in Clients : ClientOK(d)'
    BY <1>1 DEF ThreadsOK, ClientOK, Goto, Frames
  <1>5. pc'[Sweeper] = pc[Sweeper] /\ at' = at
    BY <1>1, <1>3 DEF Others, sweepVars
  <1>6. \A t \in Threads : entry'[t] # Null <=> pc'[t] \in {"check", "retime", "ttl"}
    BY <1>1 DEF ThreadsOK, Goto, Frames
  <1>7. KeyOf(c)' = Key(c) /\ pc'[c] = s
    BY <1>1 DEF KeyOf, Key, Goto, ThreadsOK, Frames
  <1>8. DropsMortals'
    BY <1>3, <1>7, OthersKeys DEF DropsMortals, Others, histories
  <1> QED  BY <1>2, <1>3, <1>4, <1>5, <1>6, <1>8 DEF ThreadsOK
----------------------------------------------------------------------------
(* The invariant, step by step. *)

LEMMA ObjectFacts ==
  ASSUME Inv, NEW t \in Threads, entry[t] # Null
  PROVE  /\ entry[t] \in EntryIds /\ KeyOf(t) \in Keys /\ Has(entry[t], KeyOf(t))
         /\ heap[entry[t]] \in Entries
         /\ IsExpired(entry[t]) => KeyOf(t) \in mortal
  <1>1. entry[t] \in EntryIds /\ KeyOf(t) \in Keys
    BY KeyFacts DEF Inv, ThreadsOK, Frames
  <1>2. Has(entry[t], KeyOf(t))
    BY DEF Has
  <1> QED  BY <1>1, <1>2 DEF Inv, Marked, IsExpired, Entries

(* An object that no one lets go of when the map drops it.                 *)
LEMMA UnmapsHomes ==
  ASSUME Inv, NEW c \in Clients, Others(c), entry'[c] = Null, UNCHANGED mortal,
         heap' = Collected(heap), NEW q \in Keys,
         strings' = strings \/ strings' = [strings EXCEPT ![q] = Null]
  PROVE  StoreOK' /\ Homes' /\ Marked'
  <1>1. StoreOK'
    BY CollectedType DEF Inv, StoreOK
  <1>2. ASSUME NEW e \in EntryIds, NEW k \in Keys, Has(e, k)'
        PROVE  Has(e, k) /\ heap'[e] = heap[e]
    <2>1. heap'[e] = heap[e]
      BY <1>2, CollectedKeeps
    <2>2. strings'[k] = e => strings[k] = e
      BY JavaStringsAssumption DEF Inv, StoreOK
    <2> QED  BY <1>2, <2>1, <2>2, LetsGo DEF Has
  <1> QED  BY <1>1, <1>2, HomesStay DEF Inv

LEMMA HoldsHomes ==
  ASSUME Inv, NEW c \in Clients, Others(c), UNCHANGED <<strings, heap, call, step, mortal>>,
         entry'[c] = strings[Key(c)], Key(c) \in Keys
  PROVE  StoreOK' /\ Homes' /\ Marked'
  <1>1. StoreOK'
    BY DEF Inv, StoreOK
  <1>2. \A e \in EntryIds, k \in Keys : Has(e, k)' => Has(e, k) /\ heap'[e] = heap[e]
    BY TakesHold
  <1> QED  BY <1>1, <1>2, HomesStay DEF Inv

LEMMA KeepsHomes ==
  ASSUME Inv, NEW c \in Clients, Others(c), UNCHANGED <<strings, heap, mortal>>, entry'[c] = Null
  PROVE  StoreOK' /\ Homes' /\ Marked'
  <1>1. StoreOK'
    BY DEF Inv, StoreOK
  <1>2. \A e \in EntryIds, k \in Keys : Has(e, k)' => Has(e, k) /\ heap'[e] = heap[e]
    BY LetsGo DEF Has
  <1> QED  BY <1>1, <1>2, HomesStay DEF Inv

(* What Answers leaves to the others, when entry changes at c at most.     *)
LEMMA AnswersOthers ==
  ASSUME ThreadsOK, NEW c \in Clients, Answers(c), UNCHANGED sweepVars,
         entry' = entry \/ entry' = [entry EXCEPT ![c] = Null]
  PROVE  Others(c) /\ entry' \in [Threads -> EntryIds \cup {Null}]
  BY DEF Answers, Others, ThreadsOK, Frames

(* A client without an object in hand.                                     *)
LEMMA EmptyHanded ==
  ASSUME ThreadsOK, NEW c \in Clients, pc[c] \notin {"check", "retime", "ttl"}
  PROVE  entry[c] = Null
  BY KeyFacts DEF ThreadsOK

LEMMA LastStep ==
  ASSUME ThreadsOK, NEW c \in Clients, entry' = [entry EXCEPT ![c] = Null]
  PROVE  entry'[c] = Null
  BY KeyFacts DEF ThreadsOK, Frames

LEMMA InvokeStep ==
  ASSUME Inv, NEW c \in Clients, NEW m \in Commands, Invoke(c, m)
  PROVE  Inv'
  <1>1. pc[c] = "idle" /\ step[c] = 1
    BY DEF Invoke, Inv, ThreadsOK, ClientOK
  <1>2. /\ FirstStep(m) \in {"look", "put", "remove", "find"}
        /\ m.name \in Comers(FirstStep(m))
        /\ FirstStep(m) = "put" => m.name # "INCRBY"
    BY CommandFacts DEF FirstStep, Comers
  <1>3. ClientOK(c)'
    BY <1>1, <1>2, CommandFacts, KeyFacts DEF Invoke, Inv, ThreadsOK, ClientOK, Frames
  <1>4. Answers(c)
    BY <1>2, <1>3, KeyFacts, ReplyTypes DEF Invoke, Answers, Inv, ThreadsOK, Frames, Steps
  <1>5. Others(c) /\ entry'[c] = Null /\ entry' \in [Threads -> EntryIds \cup {Null}]
    BY <1>1, <1>4, AnswersOthers, EmptyHanded DEF Invoke, Inv, sweepVars
  <1>6. asked' \in Int
    BY CommandFacts DEF Invoke, Inv, ThreadsOK, Frames
  <1>7. ThreadsOK' /\ DropsMortals'
    BY <1>4, <1>5, <1>6, AnswersKeepThreads DEF Invoke, Inv, ThreadsOK, Frames
  <1>8. StoreOK' /\ Homes' /\ Marked'
    BY <1>5, KeepsHomes DEF Invoke
  <1> QED  BY <1>7, <1>8 DEF Inv

LEMMA LookStep ==
  ASSUME Inv, NEW c \in Clients, Look(c)
  PROVE  Inv'
  <1>1. pc[c] = "look" /\ Key(c) \in Keys /\ call[c].name \in Comers("look")
    BY KeyFacts DEF Look, Inv, ThreadsOK, ClientOK
  <1>2. CASE strings[Key(c)] = Null /\ Found(c, Nil) /\ UNCHANGED entry
    <2>1. Answers(c)
      BY <1>1, <1>2, FoundAnswers DEF Inv
    <2>2. Others(c) /\ entry'[c] = Null /\ entry' \in [Threads -> EntryIds \cup {Null}]
      BY <1>1, <1>2, <2>1, AnswersOthers, EmptyHanded DEF Look, Inv, sweepVars
    <2>3. ThreadsOK' /\ DropsMortals'
      BY <2>1, <2>2, AnswersKeepThreads DEF Look, Inv, ThreadsOK, Frames, histories
    <2>4. StoreOK' /\ Homes' /\ Marked'
      BY <2>2, KeepsHomes DEF Look, histories
    <2> QED  BY <2>3, <2>4 DEF Inv
  <1>3. CASE /\ strings[Key(c)] # Null
             /\ entry' = [entry EXCEPT ![c] = strings[Key(c)]]
             /\ Goto(c, "check")
    <2>1. strings[Key(c)] \in EntryIds /\ call[c].name \in Comers("check")
      BY <1>1, <1>3 DEF Inv, StoreOK, Comers
    <2>2. ThreadsOK' /\ DropsMortals' /\ Others(c)
      <3>1. PICK e \in EntryIds \cup {Null} : e # Null /\ entry' = [entry EXCEPT ![c] = e]
        BY <1>3, <2>1
      <3>2. UNCHANGED <<now, sweepVars, histories>>
        BY DEF Look
      <3>3. PICK s \in {"check"} : call[c].name \in Comers(s) /\ Goto(c, s)
        BY <1>3, <2>1
      <3> QED  BY <1>1, <3>1, <3>2, <3>3, GoesKeepThreads DEF Inv
    <2>3. entry'[c] = strings[Key(c)]
      BY <1>3, KeyFacts DEF Inv, ThreadsOK, Frames
    <2>4. StoreOK' /\ Homes' /\ Marked'
      BY <1>1, <1>3, <2>2, <2>3, HoldsHomes DEF Look, Goto, histories
    <2> QED  BY <2>2, <2>4 DEF Inv
  <1> QED  BY <1>2, <1>3 DEF Look

LEMMA CheckStep ==
  ASSUME Inv, NEW c \in Clients, Check(c)
  PROVE  Inv'
  <1>1. /\ pc[c] = "check" /\ Key(c) \in Keys /\ call[c].name \in Comers("check")
        /\ c \in Threads /\ KeyOf(c) = Key(c) /\ entry[c] # Null
    BY KeyFacts DEF Check, Inv, ThreadsOK, ClientOK
  <1>2. entry'[c] = Null
    BY LastStep DEF Check, Inv
  <1>3. CASE IsExpired(entry[c]) /\ Goto(c, "drop")
    <2>1. Key(c) \in mortal /\ call[c].name \in Comers("drop")
      BY <1>1, <1>3, ObjectFacts DEF Comers
    <2>2. ThreadsOK' /\ DropsMortals' /\ Others(c)
      BY <1>1, <1>3, <2>1, GoesKeepThreads DEF Check, Inv
    <2>3. StoreOK' /\ Homes' /\ Marked'
      BY <1>1, <1>2, <2>2, UnmapsHomes DEF Check, histories
    <2> QED  BY <2>2, <2>3 DEF Inv
  <1>4. CASE ~IsExpired(entry[c]) /\ Found(c, heap[entry[c]].value)
    <2>1. heap[entry[c]].value \in Values
      BY <1>1, ObjectFacts DEF Entries
    <2>2. Answers(c)
      BY <1>1, <1>4, <2>1, FoundAnswers DEF Inv
    <2>3. Others(c) /\ entry' \in [Threads -> EntryIds \cup {Null}]
      BY <2>2, AnswersOthers DEF Check, Inv, sweepVars
    <2>4. ThreadsOK' /\ DropsMortals'
      BY <1>2, <2>2, <2>3, AnswersKeepThreads DEF Check, Inv, ThreadsOK, Frames, histories
    <2>5. StoreOK' /\ Homes' /\ Marked'
      BY <1>1, <1>2, <2>3, UnmapsHomes DEF Check, histories
    <2> QED  BY <2>4, <2>5 DEF Inv
  <1> QED  BY <1>3, <1>4 DEF Check

(* A step that removes the key and answers: Drop and Remove.               *)
LEMMA RemovalStep ==
  ASSUME Inv, NEW c \in Clients, pc[c] \in {"drop", "remove"}, Answers(c),
         strings' = [strings EXCEPT ![Key(c)] = Null],
         UNCHANGED <<now, entry, sweepVars, histories>>, heap' = Collected(heap)
  PROVE  Inv'
  <1>1. Key(c) \in Keys
    BY KeyFacts DEF Inv
  <1>2. Others(c) /\ entry'[c] = Null /\ entry' \in [Threads -> EntryIds \cup {Null}]
    BY AnswersOthers, EmptyHanded DEF Inv, sweepVars
  <1>3. ThreadsOK' /\ DropsMortals'
    BY <1>2, AnswersKeepThreads DEF Inv, ThreadsOK, Frames, histories
  <1>4. StoreOK' /\ Homes' /\ Marked'
    BY <1>1, <1>2, UnmapsHomes DEF histories
  <1> QED  BY <1>3, <1>4 DEF Inv

LEMMA DropStep ==
  ASSUME Inv, NEW c \in Clients, Drop(c)
  PROVE  Inv'
  <1>1. Answers(c)
    BY FoundAnswers DEF Drop, Inv
  <1> QED  BY <1>1, RemovalStep DEF Drop

LEMMA RemoveStep ==
  ASSUME Inv, NEW c \in Clients, Remove(c)
  PROVE  Inv'
  <1>1. pc[c] = "remove" /\ Key(c) \in Keys /\ call[c].name = "DEL"
    BY KeyFacts DEF Remove, Inv, ThreadsOK, ClientOK, Comers
  <1> DEFINE x == IF strings[Key(c)] = Null THEN Nil ELSE heap[strings[Key(c)]].value
  <1>2. x \in Values \cup {Nil}
    <2> SUFFICES ASSUME strings[Key(c)] # Null
                 PROVE  heap[strings[Key(c)]].value \in Values
      OBVIOUS
    <2>1. strings[Key(c)] \in EntryIds /\ Has(strings[Key(c)], Key(c))
      BY <1>1 DEF Inv, StoreOK, Has
    <2> QED  BY <1>1, <2>1 DEF Inv, Marked, Entries
  <1> HIDE DEF x
  <1>3. Answers(c)
    BY <1>1, <1>2, GatherAnswers DEF Remove, Inv, x
  <1> QED  BY <1>1, <1>3, RemovalStep DEF Remove

LEMMA NewEntryType ==
  ASSUME Inv, NEW v \in Values, NEW ttl \in Int
  PROVE  NewEntry(v, ttl) \in Entries /\ (NewEntry(v, ttl).expiry # 0 => ttl > 0)
  <1>1. now \in Int
    BY JavaStringsAssumption DEF Inv, ThreadsOK, Frames
  <1> QED  BY <1>1 DEF NewEntry, Entries

(* SET, MSET and INCRBY store a text.                                      *)
LEMMA PutValueType ==
  ASSUME ThreadsOK, NEW c \in Clients, pc[c] = "put"
  PROVE  PutValue(c) \in Values
  <1>1. call[c] \in Commands /\ call[c].name \in {"SET", "INCRBY", "MSET"}
    BY DEF ThreadsOK, ClientOK, Comers
  <1>2. call[c].name = "INCRBY" => num[c] \in Counters
    BY DEF ThreadsOK, ClientOK
  <1>3. call[c].name = "MSET" => step[c] \in 1 .. Len(call[c].keys)
    BY DEF ThreadsOK, ClientOK
  <1> QED  BY <1>1, <1>2, <1>3, CommandFacts, JavaStringsAssumption DEF PutValue

LEMMA PutAnswers ==
  ASSUME ThreadsOK, NEW c \in Clients, Put(c)
  PROVE  Answers(c)
  <1>1. pc[c] = "put" /\ num[c] \in Int
    BY DEF Put, ThreadsOK, Frames
  <1>2. CASE Return(c, Integer(ToInt(num[c])))
    BY <1>1, <1>2, ToIntType, ReplyTypes, ReturnAnswers
  <1>3. CASE Return(c, OK)
    BY <1>3, ReplyTypes, ReturnAnswers
  <1>4. CASE call[c].name = "MSET" /\ ~LastKey(c) /\ GotoNext(c, "put") /\ UNCHANGED found
    <2>1. found' \in [Clients -> Seq(Values \cup {Nil})]
      BY <1>4 DEF ThreadsOK, Frames
    <2> QED  BY <1>1, <1>4, <2>1, NextKeyAnswers DEF Comers
  <1> QED  BY <1>2, <1>3, <1>4 DEF Put

LEMMA PutStep ==
  ASSUME Inv, NEW c \in Clients, Put(c)
  PROVE  Inv'
  <1>1. pc[c] = "put" /\ Key(c) \in Keys /\ call[c] \in Commands
    BY KeyFacts DEF Put, Inv, ThreadsOK, ClientOK
  <1>2. Answers(c)
    BY PutAnswers DEF Inv
  <1>3. Others(c) /\ entry'[c] = Null /\ entry' \in [Threads -> EntryIds \cup {Null}]
    BY <1>1, <1>2, AnswersOthers, EmptyHanded DEF Put, Inv, sweepVars
  <1>4. /\ UNCHANGED <<now, asked>> /\ mortal \subseteq mortal' /\ mortal' \subseteq Keys
        /\ call[c].ttl > 0 => Key(c) \in mortal'
    BY <1>1 DEF Put, Inv, ThreadsOK, Frames
  <1>5. ThreadsOK' /\ DropsMortals'
    BY <1>2, <1>3, <1>4, AnswersKeepThreads DEF Inv, ThreadsOK, Frames
  <1> DEFINE new == NewEntry(PutValue(c), call[c].ttl)
  <1>6. new \in Entries /\ (new.expiry # 0 => Key(c) \in mortal')
    BY <1>1, <1>4, PutValueType, CommandFacts, NewEntryType DEF Inv
  <1>7. PICK n \in EntryIds \ Reachable :
          /\ strings' = [strings EXCEPT ![Key(c)] = n]
          /\ heap' = Collected([heap EXCEPT ![n] = new])
    BY DEF Put
  <1> HIDE DEF new
  <1>8. n # Null /\ \A k \in Keys : ~Has(n, k)
    BY <1>7, JavaStringsAssumption DEF Has, Reachable
  <1>9. StoreOK'
    BY <1>1, <1>6, <1>7 DEF Inv, StoreOK, Collected
  <1>10. ASSUME NEW e \in EntryIds, NEW k \in Keys, Has(e, k)'
         PROVE  IF e = n THEN k = Key(c) /\ heap'[e] = new ELSE Has(e, k) /\ heap'[e] = heap[e]
    <2>1. heap'[e] = IF e = n THEN new ELSE heap[e]
      BY <1>7, <1>10, CollectedKeeps DEF Inv, StoreOK
    <2>2. strings'[k] = IF k = Key(c) THEN n ELSE strings[k]
      BY <1>7 DEF Inv, StoreOK
    <2>3. strings'[k] = e \/ Has(e, k)
      BY <1>3, <1>10, LetsGo
    <2> QED  BY <1>8, <2>1, <2>2, <2>3 DEF Has
  <1>11. Homes'
    BY <1>10 DEF Inv, Homes
  <1>12. Marked'
    BY <1>4, <1>6, <1>10 DEF Inv, Marked
  <1> QED  BY <1>5, <1>9, <1>11, <1>12 DEF Inv

LEMMA FindStep ==
  ASSUME Inv, NEW c \in Clients, Find(c)
  PROVE  Inv'
  <1>1. pc[c] = "find" /\ Key(c) \in Keys /\ call[c].name \in {"EXPIRE", "TTL"}
    BY KeyFacts DEF Find, Inv, ThreadsOK, ClientOK, Comers
  <1>2. CASE /\ Return(c, Integer(IF call[c].name = "TTL" THEN -2 ELSE 0))
             /\ UNCHANGED entry
    <2>1. Answers(c)
      BY <1>2, ReplyTypes, ReturnAnswers DEF Inv
    <2>2. Others(c) /\ entry'[c] = Null /\ entry' \in [Threads -> EntryIds \cup {Null}]
      BY <1>1, <1>2, <2>1, AnswersOthers, EmptyHanded DEF Find, Inv, sweepVars
    <2>3. ThreadsOK' /\ DropsMortals'
      BY <2>1, <2>2, AnswersKeepThreads DEF Find, Inv, ThreadsOK, Frames, histories
    <2>4. StoreOK' /\ Homes' /\ Marked'
      BY <2>2, KeepsHomes DEF Find, histories
    <2> QED  BY <2>3, <2>4 DEF Inv
  <1>3. CASE /\ strings[Key(c)] # Null
             /\ entry' = [entry EXCEPT ![c] = strings[Key(c)]]
             /\ Goto(c, IF call[c].name = "TTL" THEN "ttl" ELSE "retime")
    <2>1. strings[Key(c)] \in EntryIds
      BY <1>1, <1>3 DEF Inv, StoreOK
    <2>2. PICK s \in {"ttl", "retime"} : call[c].name \in Comers(s) /\ Goto(c, s)
      BY <1>1, <1>3 DEF Comers
    <2>3. ThreadsOK' /\ DropsMortals' /\ Others(c)
      <3>1. PICK e \in EntryIds \cup {Null} : e # Null /\ entry' = [entry EXCEPT ![c] = e]
        BY <1>3, <2>1
      <3>2. UNCHANGED <<now, sweepVars, histories>>
        BY DEF Find
      <3> QED  BY <1>1, <2>2, <3>1, <3>2, GoesKeepThreads DEF Inv
    <2>4. entry'[c] = strings[Key(c)]
      BY <1>3, KeyFacts DEF Inv, ThreadsOK, Frames
    <2>5. StoreOK' /\ Homes' /\ Marked'
      BY <1>1, <2>2, <2>3, <2>4, HoldsHomes DEF Find, Goto, histories
    <2> QED  BY <2>3, <2>5 DEF Inv
  <1> QED  BY <1>2, <1>3 DEF Find

(* EXPIRE writes into its object wherever that is by now: no one has it    *)
(* for another key than the one EXPIRE marks.                              *)
LEMMA RetimeStep ==
  ASSUME Inv, NEW c \in Clients, Retime(c)
  PROVE  Inv'
  <1>1. /\ pc[c] = "retime" /\ Key(c) \in Keys /\ call[c] \in Commands
        /\ c \in Threads /\ KeyOf(c) = Key(c) /\ entry[c] # Null
    BY KeyFacts DEF Retime, Inv, ThreadsOK, ClientOK
  <1>2. entry'[c] = Null
    BY LastStep DEF Retime, Inv
  <1>3. Answers(c)
    BY ReplyTypes, ReturnAnswers DEF Retime, Inv
  <1>4. Others(c) /\ entry' \in [Threads -> EntryIds \cup {Null}]
    BY <1>3, AnswersOthers DEF Retime, Inv, sweepVars
  <1>5. /\ UNCHANGED <<now, asked, strings>> /\ mortal \subseteq mortal' /\ mortal' \subseteq Keys
        /\ Key(c) \in mortal'
    BY <1>1 DEF Retime, Inv, ThreadsOK, Frames
  <1>6. ThreadsOK' /\ DropsMortals'
    BY <1>2, <1>3, <1>4, <1>5, AnswersKeepThreads DEF Inv, ThreadsOK, Frames
  <1>7. PICK o \in EntryIds, n \in Int :
          /\ o = entry[c] /\ Has(o, Key(c)) /\ heap[o] \in Entries
          /\ heap' = Collected([heap EXCEPT ![o].expiry = n])
    <2>1. now + call[c].ttl \in Int
      BY <1>1, CommandFacts, JavaStringsAssumption DEF Inv, ThreadsOK, Frames
    <2> QED  BY <1>1, <2>1, ObjectFacts DEF Retime
  <1> DEFINE new == [heap[o] EXCEPT !.expiry = n]
  <1>8. new \in Entries /\ heap' = Collected([heap EXCEPT ![o] = new])
    BY <1>7 DEF Entries
  <1> HIDE DEF new
  <1>9. StoreOK'
    BY <1>5, <1>8 DEF Inv, StoreOK, Collected
  <1>10. ASSUME NEW e \in EntryIds, NEW k \in Keys, Has(e, k)'
         PROVE  Has(e, k) /\ heap'[e] = IF e = o THEN new ELSE heap[e]
    <2>1. heap'[e] = IF e = o THEN new ELSE heap[e]
      BY <1>8, <1>10, CollectedKeeps DEF Inv, StoreOK
    <2>2. Has(e, k)
      BY <1>2, <1>4, <1>5, <1>10, LetsGo DEF Has
    <2> QED  BY <2>1, <2>2
  <1>11. Homes'
    BY <1>10 DEF Inv, Homes
  <1>12. ASSUME NEW e \in EntryIds, NEW k \in Keys, Has(e, k)'
         PROVE  heap'[e] \in Entries /\ (heap'[e].expiry # 0 => k \in mortal')
    <2>1. CASE e = o
      <3>1. k = Key(c)
        BY <1>1, <1>7, <1>10, <1>12, <2>1 DEF Inv, Homes
      <3> QED  BY <1>5, <1>8, <1>10, <1>12, <2>1, <3>1
    <2>2. CASE e # o
      BY <1>5, <1>10, <1>12, <2>2 DEF Inv, Marked
    <2> QED  BY <2>1, <2>2
  <1>13. Marked'
    BY <1>12 DEF Marked
  <1> QED  BY <1>6, <1>9, <1>11, <1>13 DEF Inv

LEMMA TtlStep ==
  ASSUME Inv, NEW c \in Clients, Ttl(c)
  PROVE  Inv'
  <1> DEFINE left == SecondsLeft(heap[entry[c]].expiry - now)
             n == IF heap[entry[c]].expiry = 0 THEN -1 ELSE IF left >= 0 THEN left ELSE -2
  <1>1. /\ pc[c] = "ttl" /\ Key(c) \in Keys
        /\ c \in Threads /\ KeyOf(c) = Key(c) /\ entry[c] # Null
    BY KeyFacts DEF Ttl, Inv, ThreadsOK
  <1>2. heap[entry[c]].expiry - now \in Int
    BY <1>1, ObjectFacts, JavaStringsAssumption DEF Inv, ThreadsOK, Frames, Entries
  <1>3. left \in Int
    BY <1>2, SecondsLeftType
  <1> HIDE DEF left
  <1>4. n \in Int
    BY <1>3
  <1> HIDE DEF n
  <1>5. Answers(c)
    BY <1>4, ReplyTypes, ReturnAnswers DEF Ttl, Inv, n, left
  <1>6. entry'[c] = Null
    BY LastStep DEF Ttl, Inv
  <1>7. Others(c) /\ entry' \in [Threads -> EntryIds \cup {Null}]
    BY <1>5, AnswersOthers DEF Ttl, Inv, sweepVars
  <1>8. ThreadsOK' /\ DropsMortals'
    BY <1>5, <1>6, <1>7, AnswersKeepThreads DEF Ttl, Inv, ThreadsOK, Frames, histories
  <1>9. StoreOK' /\ Homes' /\ Marked'
    BY <1>1, <1>6, <1>7, UnmapsHomes DEF Ttl, histories
  <1> QED  BY <1>8, <1>9 DEF Inv
----------------------------------------------------------------------------
(* The sweeper and the clock. *)

(* A step of the sweeper leaves the clients where they are.                *)
ClientsStay ==
  /\ \A c \in Clients : pc'[c] = pc[c] /\ entry'[c] = entry[c]
  /\ UNCHANGED <<clientVars, histories>>

LEMMA SweeperHas ==
  ASSUME ThreadsOK, ClientsStay, NEW e \in EntryIds, NEW k \in Keys, Has(e, k)',
         \A q \in Keys : strings'[q] = e => strings[q] = e,
         \/ entry'[Sweeper] = Null
         \/ entry'[Sweeper] = strings[at'] \/ (entry'[Sweeper] = entry[Sweeper] /\ at' = at)
  PROVE  Has(e, k)
  <1>1. CASE strings'[k] = e
    BY <1>1 DEF Has
  <1>2. ASSUME NEW t \in Threads, entry'[t] = e, KeyOf(t)' = k
        PROVE  Has(e, k)
    <2>1. CASE t \in Clients
      <3>1. entry[t] = e /\ KeyOf(t) = k
        BY <1>2, <2>1, JavaStringsAssumption DEF ClientsStay, clientVars, KeyOf, Key
      <3> QED  BY <3>1 DEF Has
    <2>2. CASE t = Sweeper
      BY <1>2, <2>2, JavaStringsAssumption DEF Has, KeyOf
    <2> QED  BY <2>1, <2>2 DEF Threads
  <1> QED  BY <1>1, <1>2 DEF Has

LEMMA SweepThreads ==
  ASSUME ThreadsOK, DropsMortals, ClientsStay, UNCHANGED now,
         pc' \in [Threads -> Steps], entry' \in [Threads -> EntryIds \cup {Null}],
         todo' \subseteq Keys, at' \in Keys \cup {Null},
         pc'[Sweeper] \in {"look", "check", "drop"}, pc'[Sweeper] # "look" => at' \in Keys,
         entry'[Sweeper] # Null <=> pc'[Sweeper] = "check",
         pc'[Sweeper] = "drop" => at' \in mortal
  PROVE  ThreadsOK' /\ DropsMortals'
  <1>1. Frames'
    BY DEF ThreadsOK, Frames, ClientsStay, clientVars, histories
  <1>2. \A c \in Clients : ClientOK(c)'
    BY DEF ThreadsOK, ClientOK, ClientsStay, clientVars
  <1>3. \A t \in Threads : entry'[t] # Null <=> pc'[t] \in {"check", "retime", "ttl"}
    BY KeyFacts DEF Threads, ThreadsOK, ClientsStay
  <1>4. ASSUME NEW t \in Threads, pc'[t] = "drop"
        PROVE  KeyOf(t)' \in mortal'
    <2>1. CASE t = Sweeper
      BY <1>4, <2>1 DEF KeyOf, ClientsStay, histories
    <2>2. CASE t \in Clients
      <3>1. pc[t] = "drop" /\ KeyOf(t)' = KeyOf(t)
        BY <1>4, <2>2, JavaStringsAssumption DEF ClientsStay, clientVars, KeyOf, Key
      <3> QED  BY <3>1 DEF DropsMortals, ClientsStay, histories
    <2> QED  BY <2>1, <2>2 DEF Threads
  <1> QED  BY <1>1, <1>2, <1>3, <1>4 DEF ThreadsOK, DropsMortals

LEMMA SweepStep ==
  ASSUME Inv, Sweep
  PROVE  Inv'
  <1>1. /\ Sweeper \in Threads /\ \A c \in Clients : c \in Threads /\ c # Sweeper
        /\ ThreadsOK /\ DropsMortals /\ StoreOK
    BY JavaStringsAssumption DEF Threads, Inv
  <1>2. ASSUME NEW k \in Keys, SweepLook(k)
        PROVE  Inv'
    <2>1. ClientsStay
      BY <1>1, <1>2 DEF SweepLook, ClientsStay, ThreadsOK, Frames
    <2>2. /\ todo' \subseteq Keys /\ UNCHANGED <<strings, heap, now, mortal>>
          /\ pc[Sweeper] = "look" /\ entry[Sweeper] = Null
      BY <1>1, <1>2 DEF SweepLook, ThreadsOK, Frames, histories
    <2>3. \/ UNCHANGED <<pc, entry, at>>
          \/ /\ at' = k /\ pc' = [pc EXCEPT ![Sweeper] = "check"]
             /\ entry' = [entry EXCEPT ![Sweeper] = strings[k]]
             /\ strings[k] \in EntryIds /\ strings[k] # Null
      BY <1>1, <1>2 DEF SweepLook, StoreOK
    <2>4. ThreadsOK' /\ DropsMortals'
      BY <1>1, <2>1, <2>2, <2>3, SweepThreads DEF ThreadsOK, Frames, Steps
    <2>5. StoreOK'
      BY <1>1, <2>2 DEF StoreOK
    <2>6. \/ entry'[Sweeper] = Null
          \/ entry'[Sweeper] = strings[at'] \/ (entry'[Sweeper] = entry[Sweeper] /\ at' = at)
      BY <1>1, <2>2, <2>3 DEF ThreadsOK, Frames
    <2>7. ASSUME NEW e \in EntryIds, NEW q \in Keys, Has(e, q)'
          PROVE  Has(e, q) /\ heap'[e] = heap[e]
      <3>1. strings' = strings /\ heap' = heap
        BY <2>2
      <3>2. \A p \in Keys : strings'[p] = e => strings[p] = e
        BY <3>1
      <3>3. Has(e, q)
        BY <1>1, <2>1, <2>6, <2>7, <3>2, SweeperHas
      <3> QED  BY <3>1, <3>3
    <2> QED  BY <2>2, <2>4, <2>5, <2>7, HomesStay DEF Inv
  <1>3. CASE SweepCheck
    <2>1. ClientsStay
      BY <1>1, <1>3 DEF SweepCheck, ClientsStay, ThreadsOK, Frames
    <2>2. entry[Sweeper] # Null /\ KeyOf(Sweeper) = at /\ at \in Keys
      BY <1>1, <1>3, KeyFacts DEF SweepCheck, ThreadsOK
    <2>3. IsExpired(entry[Sweeper]) => at \in mortal
      BY <1>1, <2>2, ObjectFacts
    <2>4. entry' = [entry EXCEPT ![Sweeper] = Null] /\ entry'[Sweeper] = Null
      BY <1>1, <1>3 DEF SweepCheck, ThreadsOK, Frames
    <2>5. ThreadsOK' /\ DropsMortals'
      BY <1>1, <1>3, <2>1, <2>2, <2>3, <2>4, SweepThreads DEF SweepCheck, ThreadsOK, Frames, Steps
    <2>6. StoreOK'
      BY <1>1, <1>3, CollectedType DEF SweepCheck, StoreOK
    <2>7. ASSUME NEW e \in EntryIds, NEW q \in Keys, Has(e, q)'
          PROVE  Has(e, q) /\ heap'[e] = heap[e]
      <3>1. UNCHANGED strings /\ heap' = Collected(heap)
        BY <1>3 DEF SweepCheck
      <3> QED  BY <1>1, <2>1, <2>4, <2>7, <3>1, SweeperHas, CollectedKeeps
    <2> QED  BY <1>3, <2>5, <2>6, <2>7, HomesStay DEF Inv, SweepCheck, histories
  <1>4. CASE SweepDrop
    <2>1. ClientsStay
      BY <1>1, <1>4 DEF SweepDrop, ClientsStay, ThreadsOK, Frames
    <2>2. at \in Keys /\ entry[Sweeper] = Null /\ entry'[Sweeper] = Null
      BY <1>1, <1>4 DEF SweepDrop, ThreadsOK
    <2>3. ThreadsOK' /\ DropsMortals'
      BY <1>1, <1>4, <2>1, <2>2, SweepThreads DEF SweepDrop, ThreadsOK, Frames, Steps
    <2>4. StoreOK'
      BY <1>1, <1>4, CollectedType DEF SweepDrop, StoreOK
    <2>5. \A e \in EntryIds, q \in Keys : strings'[q] = e => strings[q] = e
      BY <1>1, <1>4, <2>2, JavaStringsAssumption DEF SweepDrop, StoreOK
    <2>6. \A e \in EntryIds, q \in Keys : Has(e, q)' => Has(e, q) /\ heap'[e] = heap[e]
      BY <1>1, <1>4, <2>1, <2>2, <2>5, SweeperHas, CollectedKeeps DEF SweepDrop
    <2> QED  BY <1>4, <2>3, <2>4, <2>6, HomesStay DEF Inv, SweepDrop, histories
  <1> QED  BY <1>2, <1>3, <1>4 DEF Sweep

LEMMA TickStep ==
  ASSUME Inv, Tick
  PROVE  Inv'
  <1>1. now' \in Epoch .. MaxTime
    BY JavaStringsAssumption DEF Tick, Inv, ThreadsOK, Frames
  <1>2. UNCHANGED <<strings, heap, pc, entry, todo, at, call, step, found, num, reply, mortal, asked>>
    BY DEF Tick, sweepVars, clientVars, histories
  <1>3. \A t : KeyOf(t)' = KeyOf(t)
    BY <1>2 DEF KeyOf, Key
  <1>4. \A e, k : Has(e, k)' <=> Has(e, k)
    BY <1>2, <1>3 DEF Has
  <1>5. ThreadsOK'
    BY <1>1, <1>2 DEF Inv, ThreadsOK, Frames, ClientOK
  <1> QED  BY <1>2, <1>3, <1>4, <1>5 DEF Inv, StoreOK, Homes, Marked, DropsMortals
----------------------------------------------------------------------------
LEMMA InitInv ==
  ASSUME Init
  PROVE  Inv
  <1>1. Sweeper \in Threads /\ \A c \in Clients : c \in Threads /\ c # Sweeper
    BY JavaStringsAssumption DEF Threads
  <1>2. ThreadsOK
    <2>1. Frames
      BY JavaStringsAssumption, ReplyTypes DEF Init, Frames, Steps
    <2> QED  BY <1>1, <2>1 DEF Init, ThreadsOK, ClientOK
  <1>3. StoreOK
    BY DEF Init, StoreOK
  <1>4. \A e \in EntryIds, k \in Keys : ~Has(e, k)
    BY JavaStringsAssumption DEF Init, Has
  <1>5. DropsMortals
    BY DEF Init, DropsMortals
  <1> QED  BY <1>2, <1>3, <1>4, <1>5 DEF Inv, Homes, Marked

LEMMA InvStep ==
  ASSUME Inv, [Next]_vars
  PROVE  Inv'
  <1>1. CASE UNCHANGED vars
    <2>1. UNCHANGED <<strings, heap, now, pc, entry, todo, at, call, step, found, num, reply, mortal, asked>>
      BY <1>1 DEF vars, sweepVars, clientVars, histories
    <2>2. \A t : KeyOf(t)' = KeyOf(t)
      BY <2>1 DEF KeyOf, Key
    <2>3. \A e, k : Has(e, k)' <=> Has(e, k)
      BY <2>1, <2>2 DEF Has
    <2>4. ThreadsOK'
      BY <2>1 DEF Inv, ThreadsOK, Frames, ClientOK
    <2> QED  BY <2>1, <2>2, <2>3, <2>4 DEF Inv, StoreOK, Homes, Marked, DropsMortals
  <1>2. ASSUME NEW c \in Clients, NEW m \in Commands, Invoke(c, m)
        PROVE  Inv'
    BY <1>2, InvokeStep
  <1>3. ASSUME NEW c \in Clients, Work(c)
        PROVE  Inv'
    BY <1>3, LookStep, CheckStep, DropStep, PutStep, RemoveStep, FindStep, RetimeStep, TtlStep DEF Work
  <1>4. CASE Sweep
    BY <1>4, SweepStep
  <1>5. CASE Tick
    BY <1>5, TickStep
  <1> QED  BY <1>1, <1>2, <1>3, <1>4, <1>5 DEF Next

LEMMA Invariance == Spec => []Inv
  BY InitInv, InvStep, PTL DEF Spec

LEMMA InvTypeOK ==
  ASSUME Inv
  PROVE  TypeOK
  <1>1. ASSUME NEW e \in Reachable
        PROVE  heap[e] \in Entries
    <2>1. CASE \E k \in Keys : strings[k] = e
      <3>1. PICK k \in Keys : strings[k] = e
        BY <2>1
      <3>2. e \in EntryIds /\ Has(e, k)
        BY <3>1 DEF Inv, StoreOK, Reachable, Has
      <3> QED  BY <3>2 DEF Inv, Marked
    <2>2. CASE \E t \in Threads : entry[t] = e
      <3>1. PICK t \in Threads : entry[t] = e
        BY <2>2
      <3>2. entry[t] # Null
        BY <3>1 DEF Reachable
      <3> QED  BY <3>1, <3>2, ObjectFacts
    <2> QED  BY <2>1, <2>2 DEF Reachable
  <1>2. \A t \in Threads : pc[t] \in {"check", "retime", "ttl"} => entry[t] # Null
    BY DEF Inv, ThreadsOK
  <1> QED  BY <1>1, <1>2 DEF Inv, ThreadsOK, Frames, StoreOK, TypeOK

(* Whatever clients and sweeper do to the same keys, a key maps to a       *)
(* created entry, a thread that reads or writes an entry has one           *)
(* (Database.java, getString, existsKey, expireKey; sweepExpired), and     *)
(* what is answered is a reply.                                            *)
THEOREM TypeCorrect == Spec => []TypeOK
  BY Invariance, InvTypeOK, PTL

(* Who removes a key: DEL, or a thread that is about to drop it.           *)
LEMMA WhoUnmaps ==
  ASSUME Inv, [Next]_vars, NEW k \in Keys, Unmap(k)
  PROVE  (\E c \in Clients : Remove(c)) \/ k \in mortal
  <1>1. strings'[k] # strings[k]
    BY DEF Unmap
  <1>2. CASE UNCHANGED vars
    BY <1>1, <1>2 DEF vars
  <1>3. ASSUME NEW c \in Clients, NEW m \in Commands, Invoke(c, m)
        PROVE  FALSE
    BY <1>1, <1>3 DEF Invoke
  <1>4. ASSUME NEW c \in Clients, Put(c)
        PROVE  FALSE
    <2>1. PICK e \in EntryIds : strings' = [strings EXCEPT ![Key(c)] = e]
      BY <1>4 DEF Put
    <2> QED  BY <1>1, <2>1, JavaStringsAssumption DEF Unmap, Inv, StoreOK
  <1>5. ASSUME NEW c \in Clients, Drop(c)
        PROVE  k \in mortal
    <2>1. k = Key(c)
      BY <1>1, <1>5 DEF Drop, Inv, StoreOK
    <2> QED  BY <1>5, <2>1, KeyFacts DEF Drop, Inv, DropsMortals
  <1>6. CASE SweepDrop
    <2>1. k = at
      BY <1>1, <1>6 DEF SweepDrop, Inv, StoreOK
    <2>2. Sweeper \in Threads
      BY DEF Threads
    <2> QED  BY <1>6, <2>1, <2>2, KeyFacts DEF SweepDrop, Inv, DropsMortals
  <1>7. CASE Tick \/ SweepCheck \/ \E q \in Keys : SweepLook(q)
    BY <1>1, <1>7 DEF Tick, SweepCheck, SweepLook
  <1>8. ASSUME NEW c \in Clients, Look(c) \/ Check(c) \/ Find(c) \/ Retime(c) \/ Ttl(c)
        PROVE  FALSE
    BY <1>1, <1>8 DEF Look, Check, Find, Retime, Ttl
  <1> QED  BY <1>2, <1>3, <1>4, <1>5, <1>6, <1>7, <1>8 DEF Next, Work, Sweep

(* A key that was never given a deadline does not vanish by a lazy         *)
(* deletion (getString, existsKey) or a sweep (it.remove()), whatever      *)
(* became of it since they looked; only DEL removes it.                    *)
THEOREM OnlyMortalsVanish == Spec => OnlyMortalKeysVanish
  <1>1. ASSUME Inv, [Next]_vars
        PROVE  [\A k \in Keys \ mortal : Unmap(k) => \E c \in Clients : Remove(c)]_vars
    BY <1>1, WhoUnmaps
  <1> QED  BY <1>1, Invariance, PTL DEF Spec, OnlyMortalKeysVanish
----------------------------------------------------------------------------
(* Counters.  What a client in an INCRBY has asked for is owed until the   *)
(* call is over; Owed holds one element per unit of it, so that its size   *)
(* is a sum.  No number in the map, or in an object someone has in hand,   *)
(* is greater than what was asked for and is no longer owed; and what      *)
(* INCRBY is about to store exceeds that by its own increment only.        *)
Debt(c) == IF call[c].name = "INCRBY" THEN call[c].by ELSE 0
Owed == UNION {{c} \X (1 .. Debt(c)) : c \in Clients}
Done == asked - Cardinality(Owed)
NotAhead(v) == ParseLong(v) = NaN \/ ParseLong(v) <= Done

CountInv ==
  /\ IsFiniteSet(Owed)
  /\ Done >= 0
  /\ \A e \in Reachable : NotAhead(heap[e].value)
  /\ \A c \in Clients :
       pc[c] = "put" /\ call[c].name = "INCRBY" => num[c] - call[c].by <= Done

(* Only INCRBY writes numbers, and it adds.                                *)
OnlyIncrCounts ==
  \A m \in Commands :
    /\ m.name = "INCRBY" => m.by >= 0
    /\ m.name \in {"SET", "MSET"} => \A i \in 1 .. Len(m.values) : ParseLong(m.values[i]) = NaN

(* What an INCRBY owes.                                                    *)
LEMMA DebtFacts ==
  ASSUME Inv, OnlyIncrCounts, NEW c \in Clients
  PROVE  Debt(c) \in Nat
  <1>1. CASE call[c] = NoCall
    BY <1>1 DEF Debt, NoCall
  <1>2. CASE call[c] \in Commands
    BY <1>2, CommandFacts DEF Debt, OnlyIncrCounts
  <1> QED  BY <1>1, <1>2 DEF Inv, ThreadsOK, Frames

LEMMA DoneType ==
  ASSUME Inv, IsFiniteSet(Owed)
  PROVE  Cardinality(Owed) \in Nat /\ asked \in Int /\ Done \in Int
  BY FS_CardinalityType DEF Done, Inv, ThreadsOK, Frames

(* No call begins or ends.                                                 *)
LEMMA Owing ==
  ASSUME UNCHANGED <<call, asked>>
  PROVE  Owed' = Owed /\ Done' = Done
  BY DEF Owed, Done, Debt

(* A call ends: what it asked for is no longer owed.                       *)
LEMMA Settling ==
  ASSUME Inv, OnlyIncrCounts, IsFiniteSet(Owed), NEW c \in Clients,
         call' = [call EXCEPT ![c] = NoCall], UNCHANGED asked
  PROVE  IsFiniteSet(Owed') /\ Done' = Done + Debt(c)
  <1>1. Debt(c) \in Nat
    BY DebtFacts
  <1>2. \A d \in Clients : Debt(d)' = IF d = c THEN 0 ELSE Debt(d)
    BY DEF Debt, NoCall, Inv, ThreadsOK, Frames
  <1>3. Owed' \subseteq Owed
    BY <1>1, <1>2 DEF Owed
  <1>4. IsFiniteSet(Owed')
    BY <1>3, FS_Subset
  <1>5. Owed = Owed' \cup ({c} \X (1 .. Debt(c))) /\ Owed' \cap ({c} \X (1 .. Debt(c))) = {}
    BY <1>1, <1>2 DEF Owed
  <1>6. Cardinality(Owed') \in Nat /\ Cardinality(Owed) = Cardinality(Owed') + Debt(c)
    BY <1>1, <1>4, <1>5, GainsColumn
  <1> QED  BY <1>1, <1>4, <1>6, DoneType DEF Done

(* A call begins: all it asks for is owed.                                 *)
LEMMA Borrowing ==
  ASSUME Inv, OnlyIncrCounts, IsFiniteSet(Owed), NEW c \in Clients, NEW m \in Commands,
         Invoke(c, m)
  PROVE  IsFiniteSet(Owed') /\ Done' = Done
  <1>1. Debt(c)' \in Nat /\ asked' = asked + Debt(c)'
    <2>1. call'[c] = m /\ asked \in Int
      BY DEF Invoke, Inv, ThreadsOK, Frames
    <2> QED  BY <2>1, CommandFacts DEF Invoke, Debt, OnlyIncrCounts
  <1>2. \A d \in Clients : d # c => Debt(d)' = Debt(d)
    BY DEF Debt, Invoke, Inv, ThreadsOK, Frames
  <1>3. Debt(c) = 0
    BY DEF Debt, Invoke, Inv, ThreadsOK, ClientOK, NoCall
  <1>4. Owed' = Owed \cup ({c} \X (1 .. Debt(c)')) /\ Owed \cap ({c} \X (1 .. Debt(c)')) = {}
    BY <1>1, <1>2, <1>3 DEF Owed
  <1>5. IsFiniteSet(Owed') /\ Cardinality(Owed') = Cardinality(Owed) + Debt(c)'
    BY <1>1, <1>4, GainsColumn
  <1> QED  BY <1>1, <1>5, DoneType DEF Done

(* The clients other than c stay where they are, and c goes on with its    *)
(* call or is through with it.                                             *)
Moves(c) ==
  /\ \A d \in Clients \ {c} : pc'[d] = pc[d] /\ call'[d] = call[d] /\ num'[d] = num[d]
  /\ UNCHANGED call \/ call' = [call EXCEPT ![c] = NoCall]

LEMMA GatherMoves ==
  ASSUME ThreadsOK, NEW c \in Clients, NEW x, Gather(c, x)
  PROVE  Moves(c)
  <1>1. c \in Threads
    BY DEF Threads
  <1>2. CASE Return(c, Answer(call[c].name, Append(found[c], x)))
    BY <1>1, <1>2 DEF Return, Moves, ThreadsOK, Frames
  <1>3. CASE GotoNext(c, FirstStep(call[c]))
    BY <1>1, <1>3 DEF GotoNext, Moves, ThreadsOK, Frames
  <1> QED  BY <1>2, <1>3 DEF Gather

LEMMA FoundMoves ==
  ASSUME ThreadsOK, NEW c \in Clients, NEW x, Found(c, x)
  PROVE  Moves(c)
  <1>1. /\ c \in Threads /\ pc \in [Threads -> Steps] /\ num \in [Clients -> Int]
        /\ call \in [Clients -> Commands \cup {NoCall}]
        /\ \A d \in Clients : d \in Threads
    BY DEF Threads, ThreadsOK, Frames
  <1>2. CASE Gather(c, x)
    BY <1>2, GatherMoves
  <1>3. CASE Test(c, x)
    BY <1>1, <1>3 DEF Test, Return, Goto, GotoNext, Moves
  <1>4. CASE Increase(c, x)
    <2>1. CASE Return(c, Error)
      BY <1>1, <2>1 DEF Return, Moves
    <2>2. CASE /\ num' = [num EXCEPT ![c] = Number(x) + call[c].by]
               /\ pc' = [pc EXCEPT ![c] = "put"]
               /\ UNCHANGED call
      BY <1>1, <2>2 DEF Moves
    <2> QED  BY <1>4, <2>1, <2>2 DEF Increase
  <1> QED  BY <1>2, <1>3, <1>4 DEF Found

LEMMA WorkMoves ==
  ASSUME ThreadsOK, NEW c \in Clients, Work(c)
  PROVE  Moves(c) /\ UNCHANGED asked
  <1>1. /\ c \in Threads /\ pc \in [Threads -> Steps] /\ num \in [Clients -> Int]
        /\ call \in [Clients -> Commands \cup {NoCall}]
        /\ \A d \in Clients : d \in Threads
    BY DEF Threads, ThreadsOK, Frames
  <1>2. ASSUME NEW s, Goto(c, s) \/ GotoNext(c, s)
        PROVE  Moves(c)
    BY <1>1, <1>2 DEF Goto, GotoNext, Moves
  <1>3. ASSUME NEW r, Return(c, r)
        PROVE  Moves(c)
    BY <1>1, <1>3 DEF Return, Moves
  <1>4. CASE Look(c) \/ Check(c) \/ Drop(c)
    BY <1>2, <1>4, FoundMoves DEF Look, Check, Drop, histories
  <1>5. CASE Put(c)
    BY <1>2, <1>3, <1>5 DEF Put
  <1>6. CASE Remove(c)
    BY <1>6, GatherMoves DEF Remove, histories
  <1>7. CASE Find(c) \/ Retime(c) \/ Ttl(c)
    BY <1>2, <1>3, <1>7 DEF Find, Retime, Ttl, histories
  <1> QED  BY <1>4, <1>5, <1>6, <1>7 DEF Work

(* No thread gets at an object that no one had.                            *)
LEMMA Reaches ==
  ASSUME \A k \in Keys : strings'[k] \in {Null, strings[k]},
         \A t \in Threads : \/ entry'[t] \in {Null, entry[t]}
                            \/ \E k \in Keys : entry'[t] = strings[k]
  PROVE  Reachable' \subseteq Reachable
  BY DEF Reachable

LEMMA ReachableKept ==
  ASSUME NEW h, heap' = Collected(h), NEW e \in Reachable', e \in EntryIds
  PROVE  heap'[e] = h[e]
  BY DEF Collected

LEMMA ReachableIds ==
  ASSUME StoreOK, ThreadsOK
  PROVE  Reachable \subseteq EntryIds
  BY DEF StoreOK, ThreadsOK, Frames, Reachable

(* A client that works on what was there: what it owes can only shrink.    *)
LEMMA CountStays ==
  ASSUME Inv, Inv', OnlyIncrCounts, CountInv, NEW c \in Clients, Moves(c), UNCHANGED asked,
         Reachable' \subseteq Reachable,
         \A e \in Reachable' : heap'[e].value = heap[e].value,
         pc'[c] = "put" /\ call'[c].name = "INCRBY" => num'[c] - call'[c].by <= Done
  PROVE  CountInv'
  <1>1. Done \in Int /\ IsFiniteSet(Owed)
    BY DoneType DEF CountInv
  <1>2. IsFiniteSet(Owed') /\ Done' \in Int /\ Done' >= Done
    <2>1. CASE UNCHANGED call
      <3>1. Owed' = Owed /\ Done' = Done
        BY <2>1, Owing
      <3> QED  BY <1>1, <3>1
    <2>2. CASE call' = [call EXCEPT ![c] = NoCall]
      <3>1. Debt(c) \in Nat
        BY DebtFacts
      <3>2. IsFiniteSet(Owed') /\ Done' = Done + Debt(c)
        BY <1>1, <2>2, Settling
      <3> QED  BY <1>1, <3>1, <3>2
    <2> QED  BY <2>1, <2>2 DEF Moves
  <1>3. ASSUME NEW e \in Reachable'
        PROVE  NotAhead(heap[e].value)'
    <2>1. NotAhead(heap[e].value) /\ heap'[e].value = heap[e].value
      BY DEF CountInv
    <2>2. heap[e].value \in Values
      BY InvTypeOK DEF TypeOK, Entries
    <2> QED  BY <1>1, <1>2, <2>1, <2>2, JavaStringsAssumption DEF NotAhead
  <1>4. ASSUME NEW d \in Clients, pc'[d] = "put", call'[d].name = "INCRBY"
        PROVE  num'[d] - call'[d].by <= Done'
    <2>1. num'[d] \in Int /\ call'[d] \in Commands
      BY <1>4 DEF Inv, ThreadsOK, Frames, ClientOK
    <2>2. call'[d].by \in Int
      BY <2>1, CommandFacts
    <2>3. num'[d] - call'[d].by <= Done
      BY <1>4 DEF Moves, CountInv
    <2> QED  BY <1>1, <1>2, <2>1, <2>2, <2>3
  <1> QED  BY <1>1, <1>2, <1>3, <1>4 DEF CountInv

(* What INCRBY makes of what it found.                                     *)
LEMMA FoundCounts ==
  ASSUME Inv, OnlyIncrCounts, CountInv, NEW c \in Clients, NEW x, Found(c, x),
         pc[c] \in {"look", "check", "drop"}, x = Nil \/ (x \in Values /\ NotAhead(x))
  PROVE  pc'[c] = "put" /\ call'[c].name = "INCRBY" => num'[c] - call'[c].by <= Done
  <1>1. /\ c \in Threads /\ call[c] \in Commands /\ Done \in Int /\ Done >= 0
        /\ ThreadsOK /\ pc \in [Threads -> Steps] /\ num \in [Clients -> Int]
        /\ call \in [Clients -> Commands \cup {NoCall}]
    BY DoneType DEF Threads, Inv, ThreadsOK, ClientOK, CountInv, Frames
  <1>2. CASE call[c].name \in {"GET", "MGET", "EXISTS"} /\ Gather(c, x)
    <2>1. Moves(c)
      BY <1>1, <1>2, GatherMoves
    <2> QED  BY <1>1, <1>2, <2>1 DEF Moves, NoCall
  <1>3. CASE call[c].name = "SET" /\ Test(c, x)
    BY <1>1, <1>3 DEF Test, Return, Goto, GotoNext
  <1>4. CASE call[c].name = "INCRBY" /\ Increase(c, x)
    <2>1. CASE Return(c, Error)
      BY <1>1, <2>1 DEF Return
    <2>2. CASE /\ Number(x) # NaN
               /\ num' = [num EXCEPT ![c] = Number(x) + call[c].by]
               /\ UNCHANGED call
      <3>1. Number(x) \in Int /\ Number(x) <= Done
        BY <1>1, <2>2, JavaStringsAssumption DEF Number, NotAhead
      <3>2. call[c].by \in Int
        BY <1>1, CommandFacts
      <3>3. num'[c] = Number(x) + call[c].by /\ call'[c].by = call[c].by
        BY <1>1, <2>2
      <3> QED  BY <1>1, <3>1, <3>2, <3>3
    <2> QED  BY <1>4, <2>1, <2>2 DEF Increase
  <1> QED  BY <1>2, <1>3, <1>4 DEF Found

LEMMA CountInit ==
  ASSUME Init
  PROVE  CountInv
  <1>1. \A c \in Clients : Debt(c) = 0 /\ pc[c] = "idle"
    BY JavaStringsAssumption DEF Init, Debt, NoCall, Threads
  <1>2. Owed = {}
    BY <1>1 DEF Owed
  <1>3. IsFiniteSet({}) /\ Cardinality({}) = 0
    BY FS_EmptySet
  <1>4. IsFiniteSet(Owed) /\ Done = 0
    BY <1>2, <1>3 DEF Done, Init
  <1>5. Reachable = {}
    BY DEF Init, Reachable
  <1> QED  BY <1>1, <1>4, <1>5 DEF CountInv

(* Nothing moves but the sweeper or the clock.                             *)
LEMMA CountIdles ==
  ASSUME Inv, CountInv, UNCHANGED <<call, num, asked>>, \A c \in Clients : pc'[c] = pc[c],
         Reachable' \subseteq Reachable, \A e \in Reachable' : heap'[e] = heap[e]
  PROVE  CountInv'
  <1>1. Owed' = Owed /\ Done' = Done
    BY Owing
  <1> QED  BY <1>1 DEF CountInv, NotAhead

LEMMA CountInvoke ==
  ASSUME Inv, OnlyIncrCounts, CountInv, NEW c \in Clients, NEW m \in Commands, Invoke(c, m)
  PROVE  CountInv'
  <1>1. IsFiniteSet(Owed') /\ Done' = Done
    BY Borrowing DEF CountInv
  <1>2. /\ UNCHANGED <<heap, num>> /\ Reachable' = Reachable
        /\ \A d \in Clients \ {c} : pc'[d] = pc[d] /\ call'[d] = call[d]
        /\ call'[c] = m /\ pc'[c] = FirstStep(m)
    BY DEF Invoke, Reachable, Inv, ThreadsOK, Frames, Threads
  <1>3. m.name = "INCRBY" => FirstStep(m) = "look"
    BY DEF FirstStep
  <1> QED  BY <1>1, <1>2, <1>3 DEF CountInv, NotAhead

(* A client that looks, finds, removes or changes a deadline.              *)
LEMMA CountReads ==
  ASSUME Inv, Inv', OnlyIncrCounts, CountInv, NEW c \in Clients,
         Look(c) \/ Check(c) \/ Drop(c) \/ Remove(c) \/ Find(c) \/ Retime(c) \/ Ttl(c)
  PROVE  CountInv'
  <1>1. Moves(c) /\ UNCHANGED asked
    BY WorkMoves DEF Work, Inv
  <1>2. /\ c \in Threads /\ entry \in [Threads -> EntryIds \cup {Null}]
        /\ strings \in [Keys -> EntryIds \cup {Null}]
        /\ Key(c) \in Keys /\ heap \in [EntryIds -> Entries \cup {Unused}]
    BY KeyFacts DEF Threads, Inv, ThreadsOK, StoreOK, Frames, Look, Check, Drop, Remove, Find, Retime, Ttl
  <1>3. Reachable' \subseteq Reachable
    <2>1. \A k \in Keys : strings'[k] \in {Null, strings[k]}
      BY <1>2 DEF Look, Check, Drop, Remove, Find, Retime, Ttl
    <2>2. \A t \in Threads : \/ entry'[t] \in {Null, entry[t]}
                             \/ \E k \in Keys : entry'[t] = strings[k]
      BY <1>2 DEF Look, Check, Drop, Remove, Find, Retime, Ttl
    <2> QED  BY <2>1, <2>2, Reaches
  <1>4. ASSUME NEW e \in Reachable'
        PROVE  heap'[e].value = heap[e].value
    <2>1. e \in EntryIds
      BY <1>3, ReachableIds DEF Inv
    <2>2. CASE UNCHANGED heap
      BY <2>2
    <2>3. CASE heap' = Collected(heap)
      BY <2>1, <2>3, ReachableKept
    <2>4. CASE heap' = Collected([heap EXCEPT ![entry[c]].expiry = now + call[c].ttl])
      <3>1. heap'[e] = [heap EXCEPT ![entry[c]].expiry = now + call[c].ttl][e]
        BY <2>1, <2>4, ReachableKept
      <3>2. heap[e] \in Entries
        BY <1>3, InvTypeOK DEF TypeOK
      <3> QED  BY <1>2, <2>1, <3>1, <3>2 DEF Entries
    <2> QED  BY <2>2, <2>3, <2>4 DEF Look, Check, Drop, Remove, Find, Retime, Ttl
  <1>5. pc'[c] = "put" /\ call'[c].name = "INCRBY" => num'[c] - call'[c].by <= Done
    <2>1. CASE \E x : Found(c, x) /\ pc[c] \in {"look", "check", "drop"}
                      /\ (x = Nil \/ (x \in Values /\ NotAhead(x)))
      BY <2>1, FoundCounts
    <2>2. CASE Look(c) \/ Drop(c)
      BY <1>2, <2>1, <2>2 DEF Look, Drop, Goto, Inv, ThreadsOK, Frames
    <2>3. CASE Check(c)
      <3>1. entry[c] # Null /\ entry[c] \in Reachable
        BY <1>2, <2>3 DEF Check, Inv, ThreadsOK, Reachable
      <3>2. heap[entry[c]].value \in Values /\ NotAhead(heap[entry[c]].value)
        BY <3>1, InvTypeOK DEF CountInv, TypeOK, Entries
      <3> QED  BY <1>2, <2>1, <2>3, <3>2 DEF Check, Goto, Inv, ThreadsOK, Frames
    <2>4. CASE Remove(c) \/ Find(c) \/ Retime(c) \/ Ttl(c)
      <3>1. call[c].name \in {"DEL", "EXPIRE", "TTL"}
        BY <2>4 DEF Remove, Find, Retime, Ttl, Inv, ThreadsOK, ClientOK, Comers
      <3>2. call'[c] = call[c] \/ call'[c] = NoCall
        BY <1>1 DEF Moves, Inv, ThreadsOK, Frames
      <3> QED  BY <3>1, <3>2 DEF NoCall
    <2> QED  BY <2>2, <2>3, <2>4
  <1> QED  BY <1>1, <1>3, <1>4, <1>5, CountStays

(* The sum an INCRBY stores is covered by what it no longer owes.          *)
LEMMA CountPut ==
  ASSUME Inv, Inv', OnlyIncrCounts, CountInv, NEW c \in Clients, Put(c)
  PROVE  CountInv'
  <1>1. Moves(c) /\ UNCHANGED <<asked, entry>>
    BY WorkMoves DEF Work, Inv, Put
  <1>2. /\ c \in Threads /\ Key(c) \in Keys /\ call[c] \in Commands /\ Done \in Int
        /\ num \in [Clients -> Int] /\ call \in [Clients -> Commands \cup {NoCall}]
        /\ pc \in [Threads -> Steps] /\ heap \in [EntryIds -> Entries \cup {Unused}]
        /\ strings \in [Keys -> EntryIds \cup {Null}]
    BY KeyFacts, DoneType DEF Threads, Inv, ThreadsOK, ClientOK, StoreOK, Frames, Put, CountInv
  <1>3. /\ IsFiniteSet(Owed') /\ Done' \in Int /\ Done' >= Done
        /\ call[c].name = "INCRBY" => Done' = Done + call[c].by
    <2>1. Debt(c) \in Nat /\ IsFiniteSet(Owed)
      BY DebtFacts DEF CountInv
    <2>2. CASE call[c].name = "MSET" /\ UNCHANGED call
      <3>1. Owed' = Owed /\ Done' = Done
        BY <1>1, <2>2, Owing
      <3> QED  BY <1>2, <2>1, <2>2, <3>1
    <2>3. CASE call' = [call EXCEPT ![c] = NoCall]
      <3>1. IsFiniteSet(Owed') /\ Done' = Done + Debt(c)
        BY <1>1, <2>1, <2>3, Settling
      <3>2. call[c].name = "INCRBY" => Debt(c) = call[c].by
        BY DEF Debt
      <3> QED  BY <1>2, <2>1, <3>1, <3>2
    <2> QED  BY <2>2, <2>3 DEF Put, Return, GotoNext
  <1>4. PutValue(c) \in Values /\ (ParseLong(PutValue(c)) = NaN \/ ParseLong(PutValue(c)) <= Done')
    <2>1. PutValue(c) \in Values
      BY PutValueType DEF Put, Inv
    <2>2. CASE call[c].name = "INCRBY"
      <3>1. num[c] \in Counters /\ num[c] - call[c].by <= Done
        BY <2>2 DEF Put, Inv, ThreadsOK, ClientOK, CountInv
      <3>2. num[c] \in Int /\ call[c].by \in Int /\ ParseLong(PutValue(c)) = num[c]
        BY <1>2, <2>2, <3>1, CommandFacts, JavaStringsAssumption DEF PutValue
      <3> QED  BY <1>2, <1>3, <2>1, <2>2, <3>1, <3>2
    <2>3. CASE call[c].name \in {"SET", "MSET"}
      <3>1. call[c].name = "MSET" => step[c] \in 1 .. Len(call[c].values)
        BY <1>2, <2>3, CommandFacts DEF Put, Inv, ThreadsOK, ClientOK
      <3> QED  BY <1>2, <2>1, <2>3, <3>1, CommandFacts DEF PutValue, OnlyIncrCounts
    <2> QED  BY <2>2, <2>3 DEF Put
  <1>5. PICK n \in EntryIds \ Reachable :
          /\ strings' = [strings EXCEPT ![Key(c)] = n]
          /\ heap' = Collected([heap EXCEPT ![n] = NewEntry(PutValue(c), call[c].ttl)])
    BY DEF Put
  <1>6. Reachable' \subseteq Reachable \cup {n}
    BY <1>1, <1>2, <1>5 DEF Reachable
  <1>7. ASSUME NEW e \in Reachable'
        PROVE  NotAhead(heap[e].value)'
    <2>1. e \in EntryIds /\ Reachable \subseteq EntryIds
      BY <1>5, <1>6, ReachableIds DEF Inv
    <2>2. heap'[e] = [heap EXCEPT ![n] = NewEntry(PutValue(c), call[c].ttl)][e]
      BY <1>5, <2>1, ReachableKept
    <2>3. CASE e = n
      <3>1. heap'[e].value = PutValue(c)
        BY <1>2, <1>5, <2>2, <2>3 DEF NewEntry
      <3> QED  BY <1>4, <3>1 DEF NotAhead
    <2>4. CASE e # n
      <3>1. heap'[e] = heap[e] /\ e \in Reachable
        BY <1>2, <1>6, <2>1, <2>2, <2>4
      <3>2. heap[e].value \in Values /\ NotAhead(heap[e].value)
        BY <3>1, InvTypeOK DEF CountInv, TypeOK, Entries
      <3> QED  BY <1>2, <1>3, <3>1, <3>2, JavaStringsAssumption DEF NotAhead
    <2> QED  BY <2>3, <2>4
  <1>8. ASSUME NEW d \in Clients, pc'[d] = "put", call'[d].name = "INCRBY"
        PROVE  num'[d] - call'[d].by <= Done'
    <2>1. num'[d] \in Int /\ call'[d] \in Commands
      BY <1>8 DEF Inv, ThreadsOK, Frames, ClientOK
    <2>2. call'[d].by \in Int
      BY <2>1, CommandFacts
    <2>3. d # c
      BY <1>2, <1>8 DEF Put, Return, GotoNext
    <2>4. num'[d] - call'[d].by <= Done
      BY <1>1, <1>8, <2>3 DEF Moves, CountInv
    <2> QED  BY <1>2, <1>3, <2>1, <2>2, <2>4
  <1> QED  BY <1>2, <1>3, <1>7, <1>8 DEF CountInv

LEMMA CountSweep ==
  ASSUME Inv, CountInv, Sweep \/ Tick \/ UNCHANGED vars
  PROVE  CountInv'
  <1>1. /\ Sweeper \in Threads /\ \A c \in Clients : c \in Threads /\ c # Sweeper
        /\ entry \in [Threads -> EntryIds \cup {Null}] /\ pc \in [Threads -> Steps]
        /\ strings \in [Keys -> EntryIds \cup {Null}]
    BY JavaStringsAssumption DEF Threads, Inv, ThreadsOK, StoreOK, Frames
  <1>2. UNCHANGED <<call, num, asked>> /\ \A c \in Clients : pc'[c] = pc[c]
    BY <1>1 DEF Sweep, SweepLook, SweepCheck, SweepDrop, Tick, vars, clientVars, histories
  <1>3. Reachable' \subseteq Reachable
    <2>1. \A k \in Keys : strings'[k] \in {Null, strings[k]}
      BY <1>1 DEF Sweep, SweepLook, SweepCheck, SweepDrop, Tick, vars
    <2>2. \A t \in Threads : \/ entry'[t] \in {Null, entry[t]}
                             \/ \E k \in Keys : entry'[t] = strings[k]
      BY <1>1 DEF Sweep, SweepLook, SweepCheck, SweepDrop, Tick, vars
    <2> QED  BY <2>1, <2>2, Reaches
  <1>4. ASSUME NEW e \in Reachable'
        PROVE  heap'[e] = heap[e]
    <2>1. e \in EntryIds
      BY <1>3, ReachableIds DEF Inv
    <2>2. CASE UNCHANGED heap
      BY <2>2
    <2>3. CASE heap' = Collected(heap)
      BY <2>1, <2>3, ReachableKept
    <2> QED  BY <2>2, <2>3 DEF Sweep, SweepLook, SweepCheck, SweepDrop, Tick, vars
  <1> QED  BY <1>2, <1>3, <1>4, CountIdles

LEMMA CountStep ==
  ASSUME Inv, Inv', OnlyIncrCounts, CountInv, [Next]_vars
  PROVE  CountInv'
  BY CountInvoke, CountReads, CountPut, CountSweep DEF Next, Work

LEMMA CountInvImplies ==
  ASSUME Inv, CountInv
  PROVE  CounterNeverAhead
  <1> SUFFICES ASSUME NEW k \in Keys, strings[k] # Null
               PROVE  ParseLong(heap[strings[k]].value) = NaN
                        \/ ParseLong(heap[strings[k]].value) <= asked
    BY DEF CounterNeverAhead
  <1>1. strings[k] \in Reachable
    BY DEF Reachable
  <1>2. heap[strings[k]].value \in Values /\ NotAhead(heap[strings[k]].value)
    BY <1>1, InvTypeOK DEF CountInv, TypeOK, Entries
  <1>3. Cardinality(Owed) \in Nat /\ asked \in Int
    BY DoneType DEF CountInv
  <1> QED  BY <1>2, <1>3, JavaStringsAssumption DEF NotAhead, Done

(* However the INCRs, INCRBYs, deletions and sweeps of any number of       *)
(* clients interleave between incrby's getString and its put               *)
(* (Database.java, incrby), a counter that only they write is never        *)
(* greater than the increments asked for: an update may be lost, none is   *)
(* counted twice.                                                          *)
THEOREM NeverAhead == OnlyIncrCounts /\ Spec => []CounterNeverAhead
  <1>1. ASSUME OnlyIncrCounts
        PROVE  Spec => []CounterNeverAhead
    <2>1. Inv /\ Inv' /\ CountInv /\ [Next]_vars => CountInv'
      BY <1>1, CountStep
    <2> QED  BY <2>1, CountInit, Invariance, CountInvImplies, PTL DEF Spec
  <1> QED  BY <1>1
=============================================================================
