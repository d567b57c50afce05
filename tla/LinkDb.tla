------------------------------- MODULE LinkDb -------------------------------
(***************************************************************************)
(* The Reticulum link database (rns/link_db.c) and its users in            *)
(* halow_pkg_handler.c: the tcps task, which registers a packet and then   *)
(* looks its link up for the destination; the radio's receive path, which  *)
(* registers what it hears; and the sweep task. Each call takes the mutex  *)
(* once, so the steps of the tasks interleave between the calls.           *)
(*                                                                         *)
(* The table is the code's: slots, hash buckets and chains through         *)
(* hash_next. Counters, hops, the MTU and the state shown to the user,     *)
(* which nothing decides on, are left out; so are packets that belong to   *)
(* no link, which are broadcast.                                           *)
(***************************************************************************)
EXTENDS Integers, FiniteSets

CONSTANTS
  Ids,      \* link ids
  Hash,     \* rns_link_db_hash_id, from Ids to buckets
  NSlots,   \* RNS_DB_MAX_LINK_COUNT
  Nodes,    \* MAC addresses of other nodes
  Timeout,  \* RNS_LINK_TIMEOUT_S
  MaxNow    \* bound on the clock

ASSUME LinkDbAssumption ==
  /\ DOMAIN Hash = Ids /\ IsFiniteSet(Ids)
  /\ {NSlots, MaxNow} \subseteq Nat \ {0} /\ Timeout \in Nat

Slots == 0 .. NSlots - 1
Buckets == {Hash[i] : i \in Ids}
NoIndex == NSlots        \* RNS_DB_INDEX_NONE
Broadcast == "broadcast" \* mac_broadcast, and a remote_mac not learned yet
NoLink == [id |-> "none"]

\* A packet of a link, which may be a LINKCLOSE.
Packets == [id : Ids, close : BOOLEAN]
NoPacket == [id |-> "none", close |-> FALSE]

VARIABLES
  db,     \* g_link_db: links, buckets, links_count
  now,    \* time
  sweep,  \* the clock the sweep task has read, or -1
  tx,     \* the packet the tcps task has in hand
  txpc,   \* "idle"; "lookup": registered; "send": looked up; "held": throttled
  dest    \* the destination the lookup gave

vars == <<db, now, sweep, tx, txpc, dest>>

Init ==
  /\ db = [links |-> [k \in Slots |-> NoLink], buckets |-> [b \in Buckets |-> NoIndex], count |-> 0]
  /\ now = 0 /\ sweep = -1
  /\ tx = NoPacket /\ txpc = "idle" /\ dest = Broadcast

-----------------------------------------------------------------------------
(* The table. *)

Used(d) == {k \in Slots : d.links[k] # NoLink}

\* The indices a walk along the chain of bucket b meets, NoIndex from its end on.
Walk(d, b) ==
  LET w[n \in 0 .. NSlots] ==
        IF n = 0 THEN d.buckets[b]
        ELSE IF w[n - 1] \in Used(d) THEN d.links[w[n - 1]].next ELSE NoIndex
  IN  w

\* The first index on a walk that is one of S.
FirstOn(w, S) ==
  LET hits == {n \in 0 .. NSlots : w[n] \in S}
  IN  IF hits = {} THEN NoIndex ELSE w[CHOOSE n \in hits : \A m \in hits : n <= m]

\* Mutant: only the head of the chain is looked at.
find_index_by_head(d, id) ==
  LET k == d.buckets[Hash[id]]
  IN  IF k \in Used(d) /\ d.links[k].id = id THEN k ELSE NoIndex

\* rns_link_db_find_index_by_id.
find_index_by_id(d, id) ==
  FirstOn(Walk(d, Hash[id]), {k \in Used(d) : d.links[k].id = id})

\* rns_link_db_find_free_slot.
find_free_slot(d) ==
  IF d.count >= NSlots \/ Used(d) = Slots THEN NoIndex
  ELSE CHOOSE k \in Slots \ Used(d) : \A j \in Slots \ Used(d) : k <= j

\* Mutant: a link is taken out of its bucket only at the head.
UnchainedHead(d, k) ==
  LET b == Hash[d.links[k].id]
  IN  IF d.buckets[b] = k THEN [d EXCEPT !.buckets[b] = d.links[k].next] ELSE d

\* The bucket, or the link before it in the chain, is made to skip link k.
Unchained(d, k) ==
  LET b    == Hash[d.links[k].id]
      prev == FirstOn(Walk(d, b), {j \in Used(d) : d.links[j].next = k})
  IN  IF d.buckets[b] = k THEN [d EXCEPT !.buckets[b] = d.links[k].next]
      ELSE IF prev # NoIndex THEN [d EXCEPT !.links[prev].next = d.links[k].next]
      ELSE d

\* Mutant: the count is left.
remove_index_uncounted(d, k) == [Unchained(d, k) EXCEPT !.links[k] = NoLink]

\* rns_link_db_remove_index.
remove_index(d, k) ==
  [Unchained(d, k) EXCEPT !.links[k] = NoLink, !.count = IF @ > 0 THEN @ - 1 ELSE 0]

\* A new link at the head of its chain.
Entered(d, k, id) ==
  [links   |-> [d.links EXCEPT ![k] = [id |-> id, next |-> d.buckets[Hash[id]], seen |-> now,
                                       mac |-> Broadcast]],
   buckets |-> [d.buckets EXCEPT ![Hash[id]] = k],
   count   |-> d.count + 1]

\* A packet refreshes its link. A peer is learned from what is heard, and a
\* learned one moves only with a packet addressed to this node.
Touched(d, k, mac, unicast) ==
  [d EXCEPT !.links[k].seen = now,
            !.links[k].mac  = IF mac # Broadcast /\ (unicast \/ @ = Broadcast) THEN mac ELSE @]

\* rns_link_db_package_register: the tables it may leave, as there may be no slot
\* or no memory for a new link.
package_register(d, p, mac, unicast) ==
  LET k == find_index_by_id(d, p.id)
      f == find_free_slot(d)
  IN  IF p.close THEN {IF k = NoIndex THEN d ELSE remove_index(d, k)}
      ELSE IF k # NoIndex THEN {Touched(d, k, mac, unicast)}
      ELSE {d} \cup {Touched(Entered(d, j, p.id), j, mac, unicast) : j \in {f} \ {NoIndex}}

-----------------------------------------------------------------------------
(* halow_pkg_handler.c. *)

\* deliver_rns_frame: a packet is heard from a node, broadcast or addressed to us.
deliver_rns_frame(p, mac, unicast) ==
  /\ db' \in package_register(db, p, mac, unicast)
  /\ UNCHANGED <<now, sweep, tx, txpc, dest>>

\* halow_pkg_handler_tcp_to_rf: the packet is registered, again when it is retried
\* after a THROTTLE.
tcp_to_rf(p) ==
  /\ \/ txpc = "idle"
     \/ txpc = "held" /\ p = tx
  /\ db' \in package_register(db, p, Broadcast, FALSE)
  /\ tx' = p /\ txpc' = "lookup"
  /\ UNCHANGED <<now, sweep, dest>>

\* ... its link is looked up: where it goes is what is known of the peer now,
tcp_to_rf_lookup ==
  /\ txpc = "lookup"
  /\ LET k == find_index_by_id(db, tx.id)
     IN  dest' = IF k = NoIndex THEN Broadcast ELSE db.links[k].mac
  /\ txpc' = "send"
  /\ UNCHANGED <<db, now, sweep, tx>>

\* ... and halow_ack_tx takes it, or throttles.
tcp_to_rf_send ==
  /\ txpc = "send"
  /\ \/ txpc' = "held" /\ tx' = tx
     \/ txpc' = "idle" /\ tx' = NoPacket
  /\ dest' = Broadcast
  /\ UNCHANGED <<db, now, sweep>>

\* rns_tcp_session_reset drops the packet that is held.
session_reset ==
  /\ txpc = "held"
  /\ txpc' = "idle" /\ tx' = NoPacket
  /\ UNCHANGED <<db, now, sweep, dest>>

-----------------------------------------------------------------------------
(* The sweep task. The clock is read before the mutex is taken. *)

SweepStart ==
  /\ sweep = -1
  /\ sweep' = now
  /\ UNCHANGED <<db, now, tx, txpc, dest>>

\* Mutant: the age is taken without a sign.
ExpiredUnsigned(link, t) == link.seen > 0 /\ (t - link.seen > Timeout \/ t < link.seen)

Expired(link, t) == link.seen > 0 /\ t - link.seen > Timeout

\* One round of the loop of rns_link_db_sweep_expired.
SweepSlot(d, k, t) ==
  IF k \in Used(d) /\ Expired(d.links[k], t) THEN remove_index(d, k) ELSE d

\* rns_link_db_sweep_expired: the table after the loop has passed the first n slots.
Swept(d, t) ==
  LET s[n \in 0 .. NSlots] ==
        IF n = 0 THEN d ELSE SweepSlot(s[n - 1], n - 1, t)
  IN  s

SweepRun ==
  /\ sweep # -1
  /\ db' = Swept(db, sweep)[NSlots]
  /\ sweep' = -1
  /\ UNCHANGED <<now, tx, txpc, dest>>

Tick == now < MaxNow /\ now' = now + 1 /\ UNCHANGED <<db, sweep, tx, txpc, dest>>

Next ==
  \/ \E p \in Packets : tcp_to_rf(p) \/ \E m \in Nodes, u \in BOOLEAN : deliver_rns_frame(p, m, u)
  \/ tcp_to_rf_lookup \/ tcp_to_rf_send \/ session_reset
  \/ SweepStart \/ SweepRun \/ Tick

Spec == Init /\ [][Next]_vars

-----------------------------------------------------------------------------
(* Properties. *)

Link == [id : Ids, next : Slots \cup {NoIndex}, seen : 0 .. MaxNow,
         mac : Nodes \cup {Broadcast}]

TypeOK ==
  /\ db.links \in [Slots -> Link \cup {NoLink}]
  /\ db.buckets \in [Buckets -> Slots \cup {NoIndex}]
  /\ db.count = Cardinality(Used(db))
  /\ now \in 0 .. MaxNow /\ sweep \in -1 .. MaxNow
  /\ tx \in Packets \cup {NoPacket} /\ txpc \in {"idle", "lookup", "send", "held"}
  /\ dest \in Nodes \cup {Broadcast}

\* The chain of every bucket ends, and meets each link that hashes there once and
\* no other slot: no link is lost to a lookup and no freed slot is reached,
\* whichever links of a chain were removed and in whatever order.
ChainsExact ==
  \A b \in Buckets :
    LET w   == Walk(db, b)
        met == {n \in 0 .. NSlots : w[n] # NoIndex}
    IN  /\ w[NSlots] = NoIndex
        /\ {w[n] : n \in met} = {k \in Used(db) : Hash[db.links[k].id] = b}
        /\ \A m, n \in met : w[m] = w[n] => m = n

\* A sweep never removes a link in use: one that disappears has been idle for
\* longer than the timeout, although the sweep judges by a clock it read before it
\* waited for the mutex, and others were entered, used and closed meanwhile.
ActiveKept ==
  [][sweep # -1 /\ sweep' = -1 =>
       \A k \in Used(db) :
         \/ \E j \in Used(db') : db'.links[j].id = db.links[k].id
         \/ now - db.links[k].seen > Timeout]_vars

\* The entry of each id in use, as the abstract table has it.
EntryOf(id) ==
  LET l == db.links[CHOOSE k \in Used(db) : db.links[k].id = id]
  IN  [mac |-> l.mac, seen |-> l.seen]

\* No lookup is under way.
NoAnswer == [id |-> Broadcast, dest |-> Broadcast]

Map == INSTANCE LinkMap WITH
  Capacity <- NSlots,
  table    <- [id \in {db.links[k].id : k \in Used(db)} |-> EntryOf(id)],
  answer   <- IF txpc = "send" THEN [id |-> tx.id, dest |-> dest] ELSE NoAnswer

\* The slots, buckets and chains implement a table by id: one entry per link, at
\* most NSlots of them, and a lookup that finds what was registered.
MapHolds == Map!Spec
=============================================================================
