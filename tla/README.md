# A formal model of lin-redis

lin-redis is a small Redis server written twice: in JavaScript on Node
(`src/js/src`) and in Java on Netty (`src/java`). Both speak RESP over TCP, keep
up to five kinds of values per key in memory, expire string keys and persist
nothing. This directory holds TLA+ modules that model the two servers, TLC runs
that check them on small instances, and TLAPS proofs for every instance.

## 1. The system

| Component | State | Operations | Interacts through |
|---|---|---|---|
| RESP parser, `js/src/protocol/resp.js` | `buffer`, the bytes not yet parsed | `feed`, `tryParse` | called by a connection for each chunk of its socket |
| Connection, `js/src/server.js` `ClientState` | `dbIndex`, `authenticated`, text `buffer`, `parser` | `handleData`, `handleCommand`, `authenticate`, `selectDb`, `send` | the router and the databases; sockets' `data` and `close` events |
| Server, `js/src/server.js` `LinRedisServer` | `databases`, `clients`, `requirePass` | `start`, `getDatabase`, `stop` | owns databases, router, expiry manager |
| Database, `js/src/store/database.js` | five maps `strings`, `hashes`, `lists`, `sets`, `zsets`; a string's entry carries a deadline | get, set, delete, lazy deletion, TTL, ranges, set algebra | shared by all connections and the sweep |
| Commands, `js/src/commands/*.js` | none | one handler per command | read and write one Database |
| Expiry manager, `js/src/store/expiry.js` | timer, statistics | `start`, `sweep`, `stop` | deletes from `strings` of every Database |
| Adapter, `js/src/adapter.js` | `_dbs`, `_dbIndex`, event handlers | methods that return promises | the store, in the process of its caller, without a connection or a sweep |
| Java server, `server/RedisServer.java`, `RedisChannelHandler.java` | databases, executor | `start`, `sweepExpired`, `channelRead0` | Netty's worker threads and one sweeper thread |
| Java store, `store/Database.java` | `ConcurrentHashMap`s of mutable entries, `ArrayList`s | as in JavaScript | shared by all threads **without a lock** |
| Java decoder and encoder | Netty's cumulation buffer | `decode`, `encode` | the pipeline of a channel |

How they differ matters more than what they share. On Node, every handler and
every sweep runs to completion, so the hard part is *time* (an expired value is
still in its map until something meets it), *sequences of legal calls* (five
maps that never check the type of a key, collections that are discarded when
empty, or not), and *the stream* (chunks that end anywhere, pipelined commands,
a text protocol before AUTH and RESP after it). In Java the same code runs on
several threads, and the hard part is *interleaving*: every get, test, put and
remove is a step of its own.

What makes each part correct:

- **Strings and expiry.** An expired value behaves as an absent one for every
  command on values; nothing but a deadline or a client removes a key; what has
  expired is eventually reclaimed.
- **Collections.** The commands behave as over collections that exist without
  being created; an empty hash or set is never stored; an empty list or sorted
  set may be, but only TYPE, KEYS, DBSIZE and DEL can tell.
- **Connections.** Commands are executed whole, once, in the order they were
  sent, on the database the client selected last, and none before AUTH.
- **SCAN.** An iteration returns keys that match, misses a key that was there
  all the time only if another write moved keys, and ends.
- **The adapter.** Its methods do what the commands of their names do; where
  there is no such command, or it does something else, they do what
  `AdapterMap` and `AdapterContents` say.
- **Java.** No thread dereferences a missing entry; no key without a deadline
  vanishes on its own; increments are never counted twice; a collection that is
  discarded as empty takes no more names with it than there were puts by others
  overlapping with the removal; the answers to SADD and SREM add up; every call
  returns.

`PROJECT.json` lists the hazards of the code, at the lines where they bite,
with the properties that would notice.

## 2. The modules

| Module | Models | Its promise |
|---|---|---|
| `Resp` | serializers of `resp.js` | |
| `Strings` | `string.js`, strings of `database.js`, `expiry.js` | `ExpiringMap` |
| `AdapterStrings` | the adapter's methods on strings | `AdapterMap`, which extends `ExpiringMap` |
| `Collections`, `Hashes`, `Lists`, `Sets`, `SortedSets`, `Keyspace` | the commands on the other four maps and on keys | `Contents` |
| `Adapter` | the adapter's other methods and its databases | `AdapterContents`, which extends `Contents` |
| `Glob`, `Scan` | patterns, SCAN of the server and `scan` of the adapter | the definition `Like` |
| `Connection` | `server.js`, `feed` of `resp.js`, `commands/server.js` | `Sessions` |
| `JavaStrings` | Java's string commands and its sweeper | |
| `JavaCollections` | Java's hashes, sets and sorted sets | |

### `Resp`
Replies: one constructor per serializer of `resp.js`. Text and layout are left
out; an array whose order the code does not fix (the order of a `Map` that was
built from a set of members) is an `Unordered` reply.

### `Strings`, implementing `ExpiringMap`
`Strings` is one Database with only strings in it, the clock and the sweep. An
action per command of `string.js`: the options of SET (`TtlMs`, `SetRefused`)
with their order of evaluation, EX/PX/EXAT/PXAT and their NaNs, lazy deletion in
`getString` and `existsKey`, and the absence of it in EXPIRE, TTL, DEL, KEYS and
TYPE. `Sweep` is the timer's callback. Numbers that JavaScript parses from text
come from the CONSTANT operators `ParseInt` and `Str`.

`ExpiringMap` is what the component promises, with no clock and no deadline: a
value that outlives its time to live is a *corpse*, that commands on values
treat as absent. The mapping is `held` = the values in the map, `corpses` = the
keys whose entry has expired. `KeepsPromise` says every command answers and acts
so; commands on the keyspace may notice a corpse, which is what the code does.
Steps of both are labelled with the `request`, so that an answer is compared
with what its own command promises and with no other.

### `AdapterStrings`, implementing `AdapterMap`
The adapter works on the same class Database in the process of its caller. No
method on strings awaits anything, so each is an action; no ExpiryManager knows
its databases, so nothing is swept. Where a method does what a command does
(`get`, `append`, `getSet`, ...) it is that command's action of `Strings`. Others
differ, and `AdapterMap` says how: `incrBy` counts a text that is no number as 0
and stores "NaN" for a NaN; `exists` sees a corpse; `ttl` collects it and answers
-1 for a key that is absent; `rename` moves the entry with its deadline, and
loses a key that is renamed to itself; `getRange` cuts texts.

### `Keyspace` over `Hashes`, `Lists`, `Sets`, `SortedSets`, implementing `Contents`
One module per map of a Database, with an action per command on it, over
the helpers of `Collections`; `Keyspace` composes them and adds the commands
that look at all five maps (DEL, EXISTS, TYPE, KEYS, DBSIZE, RANDOMKEY,
FLUSHDB). Scores count units so small that the `0.000001` by which an exclusive
bound is moved is a whole number of them (`Epsilon`); NaN scores, which ZADD INCR
lets in, and string bounds (`'+inf'` compared as text) are kept.

`Contents` promises the same commands over collections that always exist, and
defines their answers without the code's loops. A *husk* is an empty collection
that the store keeps. Two answers are left open, because the code and its
comments disagree about them: what ZRANGEBYSCORE lists from `-inf` to `+inf`
(`Listings`: any page of any of the members; the code lists none, the comment at
`database.js:571-581` says that neither limits the scores, and ZCOUNT counts all)
and which keys EXISTS counts beside those of strings (the code none, while the
comment at `database.js:117-121` speaks of keys).

### `Adapter`, implementing `AdapterContents`
All methods on collections and keys, `select`, `flushAll` and `getRuntimeInfo`.
A method runs to its end when it is called and its promise only delivers the
answer, except `sInterStore`: it intersects at once and stores in a continuation
(`SInterStoreResumed`) that runs after whatever its caller called in the
meantime, `select` included. `shelf` holds the databases that are not selected.
`sInter` narrows the stored set of its first key, and leaves an empty set behind;
`zAdd` given several objects stores the first; `sPop` with count 0 pops one;
`zRemRangeByRank` and `lTrim` leave husks; `rename` moves the first type a key has.

### `Glob` and `Scan`
`PatternToRegex` is the loop over a pattern, with its look-ahead for a closing
bracket, and `Test` the match of what it builds; `Like` says what a pattern
means, by recursion over it. `Scan` is a client that calls SCAN, or the adapter's
`scan`, with the cursor it was given last, while others add and delete keys.
A cursor is an index into a list that every call builds anew: sorted in SCAN, in
the order of the maps in `scan`. `shifts` counts the writes that moved a key to
another index while the iteration was under way; only a key for each of them may
be missed (`MissesAreExplained`).

### `Connection`, implementing `Sessions`
The stream of each client, the chunks it arrives in, `handleData` before and
after AUTH, `feed` with its loop, `handleCommand`, the commands about
connections and databases, and `stop`. An item of the stream (a line, a command, another RESP
value, a null) has two parts and a chunk may end between them, which is enough
to tell a buffer that keeps an incomplete command from one that loses it. The
commands of a chunk are handled one by one (`pending`) while nothing else runs,
as in Node. SET and GET stand for the commands on data, a value for what has no
effect (PING, ECHO, CONFIG). What is dropped behind a successful AUTH may cut an
item in two. Its second part is then read as it stands (`Readings`): cut at the
border of an element it is items of its own (`Rests`, given for each item: bulk
strings that are answered as invalid commands, a null, or an array that is
executed), and what the client sends next is parsed as ever; cut within an
element it starts with no type of RESP, and the parser never gets past it
(`Jammed`).

`Sessions` is the promise: a queue of items per client, no chunks and no
buffers; the mapping joins `pending`, the buffers and the wire. Of an item cut by
AUTH it promises only that the rest is served in its place as one of its `Rests`,
or is not understood, and then all that this client sends later is lost.

### `JavaStrings`
The string commands of the Java server on two worker threads, the sweeper and
the clock. A step is one operation on the `ConcurrentHashMap` or one access to
the fields of an entry object; entries are heap objects with identity, because
EXPIRE writes into the object it found, wherever that is by now. `incrby`
answers the low bits of a long (`ToInt`, `IntSpan`). `mortal` and `asked` are
history variables that only properties read.

### `JavaCollections`
The commands that change hashes, sets and sorted sets in Java. Each type is a
concurrent map from keys to *containers*, which are concurrent maps or sets
themselves. A thread keeps the container it found (`held`) while another finds it
empty and takes it out of the map (`Discard` removes whatever the key maps to by
then), so that names are put into containers that are no longer reachable, and
live ones are thrown away.

Not even the operations on a container are all atomic. `put` and `remove` change
the map first and its counters afterwards (`Count`, `Uncount`), and `isEmpty`
adds the counters up one after the other (`AddUp`, `AddCount`, `IsEmpty`), so that
it sees the changes before it began, and any of those that come while it adds.
With SADD x put and not yet counted, SREM x brings the sum down to 0 although an
older member is there, which is then lost. `LossesOverlap` bounds this: a
discarded container takes no more names than there were puts of new names by
others at its key under way when the removing call looked, or coming after that
(`overlaps`); which names it takes is open.

`fresh` records, for each HSETNX (or other put) that has tested and not yet put,
what others have put at its key meanwhile; `answered` sums the answers to SADD
and SREM.

### `MC*`, `*Proofs`, `Counting`
`MC` modules give constants their small values. The proof modules extend the
module they are about; section 4 describes them. `Counting` holds the lemmas
about finite sums and induction that several of them use.
Operators named `Op_Fault` beside an `Op` are faulty variants of it, used to see
that a property notices the fault; they are not part of any specification.

## 3. The runs

| Run | Question | Bounds | Result |
|---|---|---|---|
| `Strings` | do the string commands, lazy deletion and the sweep behave as on a map whose expired keys do not exist, and is what has expired reclaimed? | 2 keys, 3 texts, clock 3..5, lists of 2 keys | holds |
| `AdapterStrings` | do the adapter's methods on strings, which nothing sweeps? | 2 keys, 4 texts, clock 3..5 | holds |
| `Keyspace` | do the collections behave as if they always existed? | 2 keys, 2 texts, 2 entries over all five maps, lists up to 3, arguments up to 2 | holds |
| `Adapter` | do the adapter's, also when others run while `sInterStore` waits? | 2 keys, 2 texts, 2 databases, 2 entries and waiting calls together, lists up to 2 | holds |
| `Scan` | what does an iteration return while others write, and does it end? | 3 keys, one with a bracket in its name, 2 maps, 5 patterns, 2 changes | holds |
| `Connection` | are commands executed whole, once, in order, on the right database, none before AUTH, and all in the end? | 2 clients, 2 databases, 1 key, 3 items sent by either, with and without a password | holds |
| `JavaStrings_safety` | what do two clients and the sweeper preserve in any interleaving? | 1 key, 4 entries, clock 3..4, 2 increments | holds |
| `JavaStrings_live` | are expired entries reclaimed, calls answered? | the same, four kinds of call | holds |
| `JavaCollections` | which losses are possible, what may HSETNX put over, do the counts add up, do calls return? | 2 clients, 1 key, 2 names, 3 calls, 3 containers | holds |
| `Strings_NoResurrection` | "lazy deletion guarantees that what is accessed is valid" | 1 key | refuted: EXPIRE revives a value that has expired |
| `Connection_FeedTakesAll` | "parses until no complete command is left" | as `Connection` | refuted: a null ends the loop, commands behind it wait for more data |
| `JavaStrings_FreshWritesStay` | "thread safe" | 2 clients, 1 key | refuted: a lazy deletion or the sweep removes a value written since |

Why the bounds are enough. A deadline is before, at or after the clock, so a
clock with two ticks shows an entry live, expiring and swept. Commands on many
keys treat keys uniformly; two keys and lists of two tell "the same key twice"
from "two keys". Two entries in all maps together allow one key in two maps, two
keys of one type, and every transition from absent over full to empty; three
elements are the least with a first, a middle and a last. Three items allow AUTH
or SELECT of one client between two commands of another, and a null, a QUIT or a value without effect in front of, between and behind commands, and what is
left of a SET cut by AUTH, as two values, a null or another command, before one
more command. Two threads show every
race between two read-then-write sequences; the sweeper is a third. Of three
calls on collections one can fill a container, one empty it and one put into it
in between; calls name two elements, so that one put is counted and the next is
not when another call adds up. Each call creates one container at most for each
of its names, and three are never exceeded. A `sInterStore` that waits while `select`, `flushAll`
or a write happens needs one waiting call and one entry. Two deletions during an
iteration can hide two keys, or hide one and be made good by an addition.

Choices that keep runs small and why they are sound: `Keys`, `Dbs`, `Clients`
and `EntryIds` are symmetric in safety runs only. `Strings`, `AdapterStrings`,
`Keyspace`, `Adapter` and `Connection` identify states that differ in the last
request or answer (`VIEW`): no action reads these, the guards and the fairness do
not mention them, and properties of steps are checked on every step TLC
generates, also one that leads to a known state.

Deadlock is checked everywhere but in the `Connection` runs, where the system
comes to rest once all clients have closed, and in `JavaCollections`, where it
does once the bounded number of calls is answered.

### Fairness
- The sweep (`setInterval` in `expiry.js`, `scheduleAtFixedRate` in
  `RedisServer.java`) runs again and again, and time passes (up to the bound).
- Node's event loop delivers data that has arrived (`Receive`) and runs a
  handler that has begun (`Handle`).
- A worker thread of Netty that has a step to take takes it (`Work`).
- A client that iterates with SCAN goes on to call with a positive count. This
  is the one thing asked of a client; `IterationEnds` is about such clients.

Else clients owe nothing: no send, no command and no disconnection is fair.

### What the refuted claims mean
Each is a statement of a doc or a comment in the repository that the
code does not keep; `PROJECT.json`, "findings", quotes them with their lines.
Two more disagreements of comments with the code have no run of their own and
are left open by the promise `Contents` (section 2): ZRANGEBYSCORE from `-inf` to
`+inf`, which `Keyspace` meets among its bounds and `Adapter` does not, and EXISTS
of a key that is no string.
What does hold in their place is in the passing runs: a resurrected value was
never visible while expired (`KeepsPromise`), keys without a deadline are safe
from the Java races (`OnlyMortalKeysVanish`), increments may be lost but are
never counted twice (`CounterNeverAhead`), commands behind a null are not lost
(`KeepsSessions`) and are handled once something is sent after them.

## 4. What is proved

For all keys, texts, clocks, durations, argument lists, chunks, and for any
number of clients and calls, not only those TLC can enumerate. The assumptions
are the named ASSUMEs of the modules: `Nil`, `NaN` and the like are no values, of
the types they stand beside; constants are numbers or sets of them; calls name
at least one key and may name one; clients of the Java collections are finitely
many, and so are the databases of the adapter; its `lPop`, `rPop` and
`zRangeByScore`, which are the commands with a count of 1 and no limit, find those
among `Counts` and `Limits`; the rests of an item are items, at least one and none
a line of text; `localeCompare` does not put two names each before the other; the
order of `sort` names no key twice; a number that is written as text is read back
as that number. TLC evaluates each on a run.

| Theorem | Module | States |
|---|---|---|
| `TypeCorrect` | `StringsProofs` | `Spec => []TypeOK`: entries, clock and replies of the string commands are well formed |
| `LiveKeysAreSafe` | `StringsProofs` | `Spec => DisappearsOnTimeOrOnDemand`: only its own deadline, DEL, EXPIRE or EXPIREAT hides a live key |
| `StringsKeepPromise` | `StringsProofs` | `Spec => KeepsPromise`: `Strings` implements `ExpiringMap` |
| `AdapterStringsKeepPromise` | `StringsProofs` | `AdapterSpec => AdapterKeepsPromise`: `AdapterStrings` implements `AdapterMap` |
| `NoEmptyHashOrSet` | `KeyspaceProofs` | `Spec => []HashesAndSetsHoldSomething` |
| `TypeCorrect` | `KeyspaceProofs` | `Spec => []TypeOK`: every map holds what its commands put in it |
| `DatabaseKeepsContents` | `KeyspaceProofs` | `Spec => KeepsContents`: `Keyspace` implements `Contents`, every command of it |
| `AdapterKeepsPromise` | `AdapterProofs` | `AdapterSpec => AdapterKeepsContents`: `Adapter` implements `AdapterContents`, every method of it, `sInterStore` in its two steps |
| `AdapterStaysTyped` | `AdapterProofs` | `AdapterSpec => []AdapterInv`: databases, selected or not, are well formed and finite, and store no empty hash |
| `TypeCorrect` | `ConnectionProofs` | `Spec => []TypeOK`: streams, buffers and databases are well formed |
| `ConnectionsKeepSessions` | `ConnectionProofs` | `Spec => KeepsSessions`: `Connection` implements `Sessions` |
| `TypeCorrect` | `JavaStringsProofs` | `Spec => []TypeOK`: no missing or collected entry is dereferenced |
| `OnlyMortalsVanish` | `JavaStringsProofs` | `Spec => OnlyMortalKeysVanish`: lazy deletion and the sweep cannot remove a key that never had a deadline |
| `NeverAhead` | `JavaStringsProofs` | `OnlyIncrCounts /\ Spec => []CounterNeverAhead`: no increment is counted twice |
| `TypeCorrect` | `JavaCollectionsProofs` | `Spec => []TypeOK`: containers are in the map of their type, and held by whom works on them |
| `OnlyOverlapsLose` | `JavaCollectionsProofs` | `Spec => LossesOverlap`: names are lost only by calls that ask for it, or with a discarded container, which takes no more of them than there were puts overlapping with the removal |
| `NxIsBlindOnlyToFresh` | `JavaCollectionsProofs` | `Spec => NxOverridesFreshOnly` |
| `MissesAreMoves` | `ScanProofs` | `Spec => MissesAreExplained`: an iteration returns only keys its pattern means, and misses at most one lasting key for each write that moved keys |
| `NewKeysMoveNothing` | `ScanProofs` | a key added moves no other in SCAN, nor in `scan` unless it is there with another type: without deletions and second types nothing is missed |
| `TestIsLike` | `ScanProofs` | the expression that a pattern is converted to matches a text exactly when the pattern means it |
| `SetAnswersAddUp` | `JavaCollectionsProofs` | `Spec => []SetCountsAddUp`: what SADD and SREM answer is what the sets, discarded ones included, hold |

**Strings.** `TypeOK` is inductive as it stands: `TypeStep` has one step per
command, resting on lemmas about `WrapValue`, `TtlMs`, `LazyDelete` and `LastOf`
(the last occurrence of a key in an argument list, which is where MSET takes its
value from). Its part about the store, `WellFormed`, is all that the other proofs
use. TLC, which identifies states that differ in their reply, looks at the reply
of one step into each state; the theorem covers all of them.

`LiveKeysAreSafe` looks at one step under `WellFormed`: an entry that is not
rewritten and whose deadline is not passed stays live (`SameEntryStaysLive`);
for each command the entries it writes are shown to be live or its own.

`StringsKeepPromise` takes every action to an action of `ExpiringMap` or to a
stutter. Two lemmas carry it: the visible value of the abstraction is what
`getString` answers, and lazy deletion is the collection of corpses.

`AdapterStringsKeepPromise` reuses this: both abstract maps have the same state,
under the same mapping (`SameMaps`), so a method that does what a command does
inherits the command's step; the methods that differ are done by themselves.
Only `WellFormed` is invariant here, for a counter may answer NaN.

**Keyspace.** `HashesAndSetsHoldSomething` is not inductive alone: an update of a
map says something about a key only if the key is in the domain of the map.
`KeyspaceProofs!Inv`, under `TypeInv`, adds that, and the proof is about *argument lists*: a list
of fields or members is not empty, so what is put into a map leaves it with
something in it, and what is removed discards the entry with its last element.

`DatabaseKeepsContents` compares loops and slices with a promise that has
neither. It rests on a stronger type invariant, `TypeInv`, which adds that what is
stored is finite, and on four lines of argument.
- *Counts.* A loop that counts as it adds or removes counts a set: its first
  occurrences of an element are in bijection with the elements that were missing
  (`AddedCounts`). DBSIZE is the size of five disjoint sets.
- *Positions.* The promise gives a list as the elements at a set of positions. An
  enumeration of such a set (`Enumerates`) gives the elements in order
  (`AtIsChosen`), and slices, pops, LSET and LREM are each shown to be one.
- *The loop of LREM* is a recursive function; by induction over the turns, what
  it has kept and how many it has removed are those of the first positions that
  hold the value (`FirstHolding`), and going backwards is going forwards over the
  list reversed.
- *Sorting.* Where no score is NaN, the rank of a member in a sorted sequence is
  its place there, and a sequence with these ranks is the one the promise names.
  This is where `Before` must not hold both ways.

**The adapter.** It has more states than the server: `sInter` and the continuation
of `sInterStore` leave empty sets, so nothing here may lean on
`HashesAndSetsHoldSomething`. What the steps of `KeyspaceProofs` need of a set is
only that what is removed was there; each is stated for typed maps with hashes
that are not empty (`HashesHold`), and the half about sets (`SetsHold`) is an
addition that only the server keeps. `KeyspaceCommandKeeps` then gives every
method that is a command of the server its step. `AdapterInv` carries this
through `select`: `DatabaseOK` holds of the current database and of each one on
the shelf, where the place of the selected one is empty, and the calls of
`sInterStore` wait with finite sets of values. The methods that are no commands
are done by themselves: a trimmed list and the list with an element put in are
enumerations of positions again; `zRemRangeByRank` removes a slice of the sorted
members, which are those of these ranks; `rename` moves the first type that the
key has in the code's order. `getRuntimeInfo` adds up databases as DBSIZE adds
up maps (`TypesAddUp`).

**Scan.** `MissesAreMoves` has two halves.
- *Patterns* (`TestIsLike`): the expression a pattern is converted to matches what
  the pattern means. `Test` is a walk over the atoms with the set of places where
  the text so far may end (`TestIsWalk`), and the converter is one over the
  positions of the pattern (`RegexIsWalk`). `Like` is a recursion over the pattern
  and the text; that it is defined everywhere is shown by induction over the
  lengths (`SolutionsAgree`, `SolutionExists`). The two agree atom by atom
  (`AtomTakes`): some end of the text so far leaves a rest that the rest of the
  pattern means, or none does. So a class ends at the same bracket in both, and a
  bracket never closed is a character in both.
- *Cursors* (`ScanInv`): the lasting keys listed before the cursor, but not
  returned, are no more than the writes that moved keys. A call keeps this
  because its batch begins at the cursor. For a write, the place of a key in a list
  is the number of keys before it (`PlaceCounts`), so a key comes forward by no
  more places than keys before it went (`PlacesMoveBack`). A key added, or moved to the
  end of the first map, goes behind others and only it can come forward; a key
  deleted lets the others forward by one place, and only one of them stands just
  behind the cursor (`OneComesForward`).
  `NewKeysMoveNothing` says which writes these are: a list is given by what comes
  before what (`SameOrderSameList`), and a new key does not change which of the
  others comes first.

**Connections.** Two facts about the bytes make the invariant: the parts of items
alternate along text buffer, parser, and wire together, from a first part to a second
unless a part was lost and the stream is jammed (`Aligned`), and a text buffer
keeps less than an item. When AUTH drops a first part, the second either goes on
as a jammed stream, or turns into the items of one of its `Rests`, each in two
parts again, so that the stream is aligned from its head (`Parted`).
With these `Whole` of a stream commutes with cutting it anywhere, so that what
`feed` takes from a buffer is the beginning of what the stream holds (`FeedTakes`,
`FirstItems`). The mapping joins pending items, both buffers and the wire; a
chunk that arrives then is a step of `Sessions` that takes nothing from the queue
(before AUTH, one that refuses or admits), and `Handle` takes its head.

**Java strings.** The danger is that EXPIRE writes a deadline into an object it
found earlier, wherever that object is by now, and that a removal takes what the
key maps to by now. `JavaStringsProofs!Inv` says why this stays harmless for
keys without a deadline. The map and the threads that have an object in hand all
have it for the same key (`Homes`): an object is created for one key, is never
moved, and an identity is used again only when no one refers to the object. So
the key EXPIRE marks as mortal is the key of everyone who will ever find the
deadline it writes (`Marked`), and a thread about to drop a key has found one
there (`DropsMortals`). `ThreadsOK` ties the step of a thread to the call it
serves and to whether it has an object. Most steps give no one an object they did
not have before, and then `HomesStay` is the whole argument; `PutStep` (a new
object) and `RetimeStep` (EXPIRE) are the other two.

`NeverAhead` has a premise, `OnlyIncrCounts`: INCRBY is given no negative amount,
and SET and MSET no text that is a number. Its invariant `CountInv` bounds every
number in the map or in an object in hand by what was asked for and is no longer
owed; an INCRBY under way owes its amount and has read no more than that bound.

**Java collections.** The properties are about races, and the invariant says
what a thread knows. A container is in the map under one key, and whoever holds
it holds it for that key (`Homes`): so what one thread puts there counts as
`fresh`, and adds to `overlaps`, for all others at work on the key. HSETNX
about to put holds a container without the field, or the field is fresh
(`NxKnows`).

For `OnlyOverlapsLose` the counter of a container is what it holds (`Sizes`), less
the puts that have not counted yet (`Adding`), plus the removals that have not
(`Taking`): `TallyOK`. So a thread that adds the counters up is too low by no more
than the puts it overlaps with. `RemovalKnows` carries this through its steps:
first the uncounted puts are bounded by `overlaps`; while it adds up,
`Sizes + Taking <= sum + overlaps`; and with a sum of 0 or less what the container
holds is bounded by `overlaps`. If another container is at the key when it
discards, all that is in it was put since it looked. The clients must be finitely
many here, for they are counted.

For `SetAnswersAddUp`, every step that counts a member adds or removes one, and
one that answers moves what it has counted from the calls under way to `answered`.

**Sums and inductions.** The provers cannot instantiate an induction rule over a
formula, nor a sum over a set. `Counting` gives both another form: a sum over
clients is the size of a set with a column of elements for each client, of which
one step changes one column (`ColumnChanges`); and an induction is over a *set*
of numbers (`SetInduction`), which can be defined from a state. Recursive
functions over numbers and lengths (LREM, `Like`, `PatternToRegex`, `Only`) are unfolded with it.

TLC checked each of these invariants on the instance of its run before it was
proved, but for parts that say a set is finite.

Model-checked only is liveness: temporal reasoning under fairness is beyond the
prover here. These are `Reclaimed`, `ExpiredReclaimed`, `CallsReturn` of both Java
modules, `CommandsAreHandled` and `IterationEnds`. No run checks a safety
property that no theorem states, but for those that it refutes.

## 5. What is left out

- Replies to a wrong number of arguments, and indexes or counts that are not
  numbers, where they change nothing.
- ZADD with a score and no member at the end (stored under `undefined`), SCAN with
  a negative count, and patterns that are no regular expression once converted
  (`[z-a]`), which are answered with an error.
- A handler calls `Date.now()` several times; in the model they agree.
- The adapter's `connect`, `quit`, `disconnect`, `on` and `isOpen` (a flag and
  callbacks that nothing in the store reads), `info`, `ping` and `echo`; `stop`
  of the expiry manager, which matters only to a process that is about to end,
  its statistics, and `isKeyExpired`, which nothing calls.
- The bytes of RESP: lengths, encodings, nesting. An item that AUTH cuts within an
  element, so that what is left begins, by chance of its data, with a character
  that RESP gives a meaning; lengths that are no numbers. Values that Java's
  `writeResponse` would send as a simple string because they read "OK" or "PONG".
- KEYS of the Java server and the reads of its collections (they change nothing);
  Java's memory model: fields of an entry are read and written in one global
  order. Java's lists are `ArrayList`s that threads change without a lock: under
  a race they promise nothing at all, and alone they do what `Lists` says.
- Java's `RespDecoder`, `RespEncoder` and SELECT. The decoder cannot tell a
  null bulk string from an incomplete one (a hazard of the list).
- Entry points, scripts, test drivers and reports.

## 6. Plan

Done: every component of the JavaScript server and the adapter but for what
section 5 lists, the Java string commands and collections, and proofs of every
safety property a run checks.

Next is `JavaDecoder`: `RespDecoder` over Netty's cumulation buffer, composed with
SELECT of `ServerCommands`, against a promise like `Sessions` in which a bad
argument closes the connection and FLUSHALL clears one database after the other.
