------------------------------ MODULE LinkMap ------------------------------
(***************************************************************************)
(* What the link database promises: a table of at most Capacity links by   *)
(* id. A packet of a link enters or refreshes its entry, LINKCLOSE removes *)
(* it, a sweep removes the ones that have been idle, and a lookup tells    *)
(* where the packets of a link go.                                         *)
(***************************************************************************)
EXTENDS Integers, FiniteSets, Functions

CONSTANTS Ids, Nodes, Capacity, Timeout, MaxNow, Broadcast

VARIABLES
  table,  \* from the ids known to [mac, seen]
  now,
  answer  \* what a lookup said: the link asked for and where its packets go

vars == <<table, now, answer>>

\* No lookup is under way.
NoAnswer == [id |-> Broadcast, dest |-> Broadcast]

Known == DOMAIN table

Init == table \in [{} -> {}] /\ now = 0 /\ answer = NoAnswer

Put(id, e) == table' = [x \in Known \cup {id} |-> IF x = id THEN e ELSE table[x]]

\* A link that is known keeps its peer, unless the packet names another one.
Refresh(id) ==
  /\ id \in Known
  /\ \E m \in Nodes \cup {table[id].mac} : Put(id, [mac |-> m, seen |-> now])
  /\ UNCHANGED <<now, answer>>

Enter(id) ==
  /\ id \notin Known /\ Cardinality(Known) < Capacity
  /\ \E m \in Nodes \cup {Broadcast} : Put(id, [mac |-> m, seen |-> now])
  /\ UNCHANGED <<now, answer>>

Close(id) ==
  /\ id \in Known
  /\ table' = Restrict(table, Known \ {id})
  /\ UNCHANGED <<now, answer>>

\* A sweep judges by a clock it has read before, and spares the links without a
\* time.
Sweep ==
  /\ \E t \in 0 .. now :
       table' = Restrict(table, {id \in Known : table[id].seen = 0 \/ t - table[id].seen <= Timeout})
  /\ UNCHANGED <<now, answer>>

Lookup(id) ==
  /\ answer = NoAnswer
  /\ answer' = [id |-> id, dest |-> IF id \in Known THEN table[id].mac ELSE Broadcast]
  /\ UNCHANGED <<table, now>>

\* The packet has been handed on.
Done ==
  /\ answer # NoAnswer
  /\ answer' = NoAnswer
  /\ UNCHANGED <<table, now>>

Tick == now < MaxNow /\ now' = now + 1 /\ UNCHANGED <<table, answer>>

Next ==
  \/ \E id \in Ids : Refresh(id) \/ Enter(id) \/ Close(id) \/ Lookup(id)
  \/ Sweep \/ Done \/ Tick

Spec == Init /\ [][Next]_vars
=============================================================================
