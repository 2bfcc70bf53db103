------------------------------ MODULE Sessions ------------------------------
(***************************************************************************)
(* What the JavaScript server promises its connections.                    *)
(*                                                                         *)
(* The items a client sends form a queue.  Before it is admitted the items *)
(* are refused; after that they are served one at a time, in the order     *)
(* they were sent, whole, each once, and each on the database the client   *)
(* selected last.  Every database exists from the start.  A line of text   *)
(* that comes after admission is never served, nor what is behind it, and  *)
(* a null disappears without an answer.  Admission may cut an item in two: *)
(* then what is left of it is served in its place, as one or several items *)
(* of their own, or nothing of it is understood, and what that client      *)
(* sends afterwards is lost.                                               *)
(***************************************************************************)
EXTENDS Resp, FiniteSets, SequencesExt

CONSTANTS Clients, Keys, Values, DbIndexes, NaN, Items, Rests   \* as in Connection

VARIABLES
  queue,      \* client -> the items sent and not yet refused or served
  socket,     \* client -> "open", "ended", "closed"
  admitted,   \* the clients that may give commands
  jammed,     \* the clients whose items are lost from now on
  selected,   \* client -> the number of its database
  store,      \* number -> the contents of the database
  answer      \* the answer of the last step

vars == <<queue, socket, admitted, jammed, selected, store, answer>>

Cleared == [k \in Keys |-> Nil]
AdmitsWith(item) == item.type = "line" /\ item.name = "AUTH" /\ item.right
----------------------------------------------------------------------------
Send(c, item) ==
  /\ answer' = Nil
  /\ socket[c] # "closed"
  /\ queue' = [queue EXCEPT ![c] = IF c \in jammed THEN @ ELSE Append(@, item)]
  /\ UNCHANGED <<socket, admitted, jammed, selected, store>>

Close(c) ==
  /\ answer' = Nil
  /\ socket' = [socket EXCEPT ![c] = "closed"]
  /\ queue' = [queue EXCEPT ![c] = <<>>]
  /\ jammed' = jammed \ {c}
  /\ UNCHANGED <<admitted, selected, store>>

(* The server stops, and closes all connections.                           *)
CloseAll ==
  /\ answer' = Nil
  /\ socket' = [c \in Clients |-> "closed"]
  /\ queue' = [c \in Clients |-> <<>>]
  /\ jammed' = {}
  /\ UNCHANGED <<admitted, selected, store>>

(* Items are on their way; one that is a null may be lost.                 *)
Carry(c) ==
  /\ answer' = Nil
  /\ \/ UNCHANGED queue
     \/ \E i \in DOMAIN queue[c] :
          queue[c][i].type = "null" /\ queue' = [queue EXCEPT ![c] = RemoveAt(@, i)]
  /\ UNCHANGED <<socket, admitted, jammed, selected, store>>

(* A client that is not admitted gets at least one refusal for each item.  *)
Refusals(c, n, accepted) ==
  /\ answer' # Nil /\ "refused" \in DOMAIN answer'
  /\ answer'.to = c /\ answer'.refused >= n /\ answer'.accepted = accepted
  /\ UNCHANGED <<socket, selected, store>>

Refuse(c) ==
  /\ answer' # Nil
  /\ c \notin admitted
  /\ \E n \in 0 .. Len(queue[c]) :
       /\ Refusals(c, n, FALSE)
       /\ \A i \in 1 .. n : ~AdmitsWith(queue[c][i])
       /\ queue' = [queue EXCEPT ![c] = SubSeq(@, n + 1, Len(@))]
  /\ UNCHANGED <<admitted, jammed>>

(* Items that come right behind the password may be dropped.               *)
Admit(c) ==
  /\ answer' # Nil
  /\ c \notin admitted
  /\ admitted' = admitted \cup {c}
  /\ \E n \in DOMAIN queue[c] :
       /\ AdmitsWith(queue[c][n]) /\ \A i \in 1 .. n - 1 : ~AdmitsWith(queue[c][i])
       /\ \E dropped \in n .. Len(queue[c]) :
            \E rest \in IF dropped = n THEN {<<>>} ELSE {<<>>} \cup Rests[queue[c][dropped]] :
              queue' = [queue EXCEPT ![c] = rest \o SubSeq(@, dropped + 1, Len(@))]
       /\ jammed' \in {jammed, jammed \cup {c}}
       /\ c \in jammed' => queue'[c] = <<>>
       /\ Refusals(c, 0, TRUE)
----------------------------------------------------------------------------
(* Serving the first item of a client: the effect and the answer.          *)

Is(item, name) == item.type = "command" /\ item.name = name
Served == {"SELECT", "QUIT", "SET", "GET", "FLUSHDB", "FLUSHALL", "INFO"}

ReplyTo(c, item) ==
  CASE Is(item, "GET")    -> BulkOrNull(store[selected[c]][item.key])
    [] Is(item, "SELECT") -> IF item.db = NaN THEN Error ELSE OK
    [] Is(item, "INFO")   -> Integer(Cardinality({u \in DbIndexes \X Keys : store[u[1]][u[2]] # Nil}))
    [] item.type = "value" -> Error
    [] OTHER              -> OK

Effect(c, item) ==
  LET put(contents) == store' = [store EXCEPT ![selected[c]] = contents]
  IN  /\ item.type = "value" \/ \E name \in Served : Is(item, name)
      /\ selected' = [selected EXCEPT ![c] =
                        IF Is(item, "SELECT") /\ item.db # NaN THEN item.db ELSE @]
      /\ socket' = [socket EXCEPT ![c] = IF Is(item, "QUIT") THEN "ended" ELSE @]
      /\ \/ Is(item, "SET") /\ put([store[selected[c]] EXCEPT ![item.key] = item.value])
         \/ Is(item, "FLUSHDB") /\ put(Cleared)
         \/ Is(item, "FLUSHALL") /\ store' = [i \in DbIndexes |-> Cleared]
         \/ /\ item.type = "value" \/ item.name \in {"SELECT", "QUIT", "GET", "INFO"}
            /\ UNCHANGED store

Serve(c) ==
  /\ answer' # Nil
  /\ c \in admitted /\ socket[c] # "closed" /\ queue[c] # <<>>
  /\ Effect(c, Head(queue[c]))
  /\ answer' = [to |-> c, item |-> Head(queue[c]),
                reply |-> IF socket[c] = "open" THEN ReplyTo(c, Head(queue[c])) ELSE Nil]
  /\ queue' = [queue EXCEPT ![c] = Tail(@)]
  /\ UNCHANGED <<admitted, jammed>>
----------------------------------------------------------------------------
Init ==
  /\ queue = [c \in Clients |-> <<>>]
  /\ socket = [c \in Clients |-> "open"]
  /\ admitted \in {{}, Clients}
  /\ jammed = {}
  /\ selected = [c \in Clients |-> 0]
  /\ store = [i \in DbIndexes |-> Cleared]
  /\ answer = Nil

Next ==
  \/ \E c \in Clients, item \in Items : Send(c, item)
  \/ \E c \in Clients : Close(c) \/ Carry(c) \/ Refuse(c) \/ Admit(c) \/ Serve(c)
  \/ CloseAll

Spec == Init /\ [][Next]_vars
=============================================================================
