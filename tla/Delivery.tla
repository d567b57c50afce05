------------------------------ MODULE Delivery ------------------------------
(***************************************************************************)
(* What the ACK layer promises its users for the bundles one node sends to *)
(* another: a bundle is handed up at most once, unless the receiver has    *)
(* lost track of it, and one that the sender counts as acknowledged has    *)
(* been handed up (or is just about to be), unless acknowledgements are in *)
(* doubt. One that is given up may have arrived or not.                    *)
(***************************************************************************)
EXTENDS Integers

CONSTANT Ids   \* the bundles

VARIABLES
  got,        \* how often each bundle was handed up at the receiver
  verdict,    \* what the sender says of each bundle
  forgotten,  \* bundles the receiver has lost track of
  doubt       \* whether an acknowledgement may name the wrong bundle

vars == <<got, verdict, forgotten, doubt>>

Init ==
  /\ got = [i \in Ids |-> 0]
  /\ verdict = [i \in Ids |-> "unsent"]
  /\ forgotten = {} /\ doubt = FALSE

Send(i) ==
  /\ verdict[i] = "unsent"
  /\ verdict' = [verdict EXCEPT ![i] = "pending"]
  /\ UNCHANGED got

Receive(i) ==
  /\ verdict[i] # "unsent"
  /\ got[i] = 0 \/ i \in forgotten'
  /\ got' = [got EXCEPT ![i] = @ + 1]
  /\ UNCHANGED verdict

\* One ACK may settle several bundles, but only bundles that were received.
Acknowledge(S) ==
  /\ \A i \in S : verdict[i] = "pending" /\ (got[i] > 0 \/ doubt)
  /\ verdict' = [i \in Ids |-> IF i \in S THEN "acked" ELSE verdict[i]]
  /\ UNCHANGED got

\* A restart of the sender gives up everything at once.
GiveUp(S) ==
  /\ \A i \in S : verdict[i] = "pending"
  /\ verdict' = [i \in Ids |-> IF i \in S THEN "dropped" ELSE verdict[i]]
  /\ UNCHANGED got

\* What is forgotten or in doubt stays so.
Next ==
  /\ forgotten \subseteq forgotten' /\ (doubt => doubt')
  /\ \/ UNCHANGED <<got, verdict>>
     \/ \E i \in Ids : Send(i) \/ Receive(i)
     \/ \E S \in SUBSET Ids : Acknowledge(S) \/ GiveUp(S)

Spec == Init /\ [][Next]_vars
=============================================================================
