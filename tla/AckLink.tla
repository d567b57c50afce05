------------------------------ MODULE AckLink ------------------------------
(***************************************************************************)
(* One direction of a link between two nodes running halow_ack.c: bundles  *)
(* with sequence numbers one way, ACKs the other way, over a radio that    *)
(* loses, delays and reorders both.                                        *)
(*                                                                         *)
(* The sender: agg_flush_locked numbers a bundle and sends it, the tick    *)
(* sends it again or gives it up, an ACK clears the slots it covers. How   *)
(* the slots themselves are kept is the subject of AckSlots; an ACK that   *)
(* finds its slot in ACK_BUF_SENDING is ignored, which is here an ACK lost.*)
(*                                                                         *)
(* The receiver: the receive task runs halow_ack_on_rx in three critical   *)
(* sections (rx_env, rx_data, and the capture in send_ack); the tick sends *)
(* deferred ACKs between them, the TCP task may reset or evict the peer.   *)
(*                                                                         *)
(* A bundle is its number in sending order; its hash, which the dedup ring *)
(* and the fid ACK use, is taken to be unique. Time is abstracted: a copy  *)
(* may come however late, after any number of newer bundles.               *)
(*                                                                         *)
(* Two history variables record what the receiver loses track of, so that  *)
(* a promise can say exactly where it ends: late, forgotten.               *)
(***************************************************************************)
EXTENDS SeqWindow, FiniteSets, Sequences

CONSTANTS
  N,            \* bundles in a behaviour
  FirstSeqs,    \* values tx_seq may have at the start
  Slots,        \* the in-flight window of the sender
  MaxRetries,   \* g_ack_cfg.max_retries of the sender
  DedupWin,     \* ACK_DEDUP_WIN
  AckFids,      \* g_ack_cfg.ack_fids of the receiver
  MaxAir,       \* bundles in the air at a time: with 1 they overtake each other
                \*   only by being sent again
  MaxAcks,      \* ACKs in the air at a time
  MaxRestarts,  \* restarts of the sender
  StartKnown,   \* whether the nodes have met before
  Stales,       \* whether peer_is_stale may hold at the receiver
  Evicts        \* whether other nodes crowd the receiver's peer table

ASSUME LinkAssumption ==
  /\ {N, Slots, MaxRetries, DedupWin, AckFids, MaxAir, MaxAcks, MaxRestarts} \subseteq Nat
  /\ AckFids \in 1 .. DedupWin
  /\ N < Mod
  /\ FirstSeqs \subseteq Seqs
  /\ {StartKnown, Stales, Evicts} \subseteq BOOLEAN

Ids == 1 .. N

VARIABLES
  tx_seq, seq_of, verdict, retries,  \* the sender: counter; per bundle its number, its
                                     \*   fate and the retries_used of its slot
  sent, restarts,                    \* bundles sent so far, restarts so far
  air, acks,                         \* bundles and ACKs in the air
  known, rx, ring,                   \* the receiver's entry for the sender: in_use,
                                     \*   rx_seq_*, dedup (oldest first)
  since, due,                        \* rx_since_ack, ack_due
  hold,                              \* whether ack_hold_ms is not 0
  rx_pc, rx_id, rx_fids,             \* the receive task
  tick_pc, tick_fids,                \* the tick task of the receiver
  got,                               \* how often each bundle was handed up
  late, forgotten                    \* history: whether a bundle came so late that its
                                     \*   mark left the word; the bundles taken whose
                                     \*   number the receiver did not record, or lost

sndVars  == <<tx_seq, seq_of, verdict, retries, sent, restarts>>
peerVars == <<known, rx, ring, since, due>>
rxVars   == <<rx_pc, rx_id, rx_fids>>
tickVars == <<tick_pc, tick_fids>>
histVars == <<late, forgotten>>
vars == <<sndVars, air, acks, peerVars, hold, rxVars, tickVars, got, histVars>>

InFlight == {i \in Ids : verdict[i] = "pending"}

\* The bundle the receive task is about to hand up.
Arriving(i) == rx_pc = "data" /\ rx_id = i

Arrived(i) == got[i] > 0 \/ Arriving(i)

Taken == {i \in Ids : Arrived(i)}

Init ==
  /\ tx_seq \in FirstSeqs
  /\ seq_of = [i \in Ids |-> 0]
  /\ verdict = [i \in Ids |-> "unsent"]
  /\ retries = [i \in Ids |-> 0]
  /\ sent = 0 /\ restarts = 0
  /\ air = {} /\ acks = {}
  /\ known = StartKnown /\ rx = NoWindow /\ ring = <<>> /\ since = 0 /\ due = FALSE
  /\ hold \in BOOLEAN
  /\ rx_pc = "idle" /\ rx_id = 0 /\ rx_fids = {}
  /\ tick_pc = "idle" /\ tick_fids = {}
  /\ got = [i \in Ids |-> 0]
  /\ late = FALSE /\ forgotten = {}

-----------------------------------------------------------------------------
(* The sender. *)

\* agg_flush_locked.
agg_flush ==
  /\ sent < N /\ Cardinality(InFlight) < Slots /\ Cardinality(air) < MaxAir
  /\ sent' = sent + 1
  /\ seq_of' = [seq_of EXCEPT ![sent + 1] = SeqTaken(tx_seq)]
  /\ tx_seq' = TxSeqAfter(tx_seq)
  /\ verdict' = [verdict EXCEPT ![sent + 1] = "pending"]
  /\ air' = air \cup {sent + 1}
  /\ UNCHANGED <<retries, restarts, acks, peerVars, hold, rxVars, tickVars, got, histVars>>

\* buf_retransmit_or_drop: an ACK that comes late, or a backoff that is too
\* short, is as good a reason as a loss.
Retransmit(i) ==
  /\ verdict[i] = "pending" /\ retries[i] < MaxRetries
  /\ i \notin air => Cardinality(air) < MaxAir
  /\ retries' = [retries EXCEPT ![i] = @ + 1]
  /\ air' = air \cup {i}
  /\ UNCHANGED <<tx_seq, seq_of, verdict, sent, restarts, acks, peerVars, hold, rxVars,
                 tickVars, got, histVars>>

\* buf_drop_deadline, or drop_exhaust.
Drop(i) ==
  /\ verdict[i] = "pending"
  /\ verdict' = [verdict EXCEPT ![i] = "dropped"]
  /\ retries' = [retries EXCEPT ![i] = 0]
  /\ UNCHANGED <<tx_seq, seq_of, sent, restarts, air, acks, peerVars, hold, rxVars,
                 tickVars, got, histVars>>

\* Whether an ACK names bundle i.
Names(a, i) == IF a.env THEN Covers(a, seq_of[i]) ELSE i \in a.fids

\* rx_env_ack_locked and rx_ack: every slot in flight that the ACK names.
rx_ack(a) ==
  /\ a \in acks
  /\ acks' = acks \ {a}
  /\ LET cleared == {i \in InFlight : Names(a, i)}
     IN  /\ verdict' = [i \in Ids |-> IF i \in cleared THEN "acked" ELSE verdict[i]]
         /\ retries' = [i \in Ids |-> IF i \in cleared THEN 0 ELSE retries[i]]
  /\ UNCHANGED <<tx_seq, seq_of, sent, restarts, air, peerVars, hold, rxVars,
                 tickVars, got, histVars>>

\* halow_ack_init of the sender, which rebooted: the next bundle has sequence number
\* 0. What was in the air is gone by then, and the receiver is done with what it
\* received.
Restart ==
  /\ restarts < MaxRestarts
  /\ rx_pc = "idle" /\ tick_pc = "idle" /\ ~due
  /\ restarts' = restarts + 1
  /\ tx_seq' = 0
  /\ verdict' = [i \in Ids |-> IF i \in InFlight THEN "dropped" ELSE verdict[i]]
  /\ retries' = [i \in Ids |-> 0]
  /\ air' = {} /\ acks' = {}
  /\ UNCHANGED <<seq_of, sent, peerVars, hold, rxVars, tickVars, got, histVars>>

-----------------------------------------------------------------------------
(* The radio. *)

Lose ==
  /\ \/ \E i \in air : air' = air \ {i} /\ UNCHANGED acks
     \/ \E a \in acks : acks' = acks \ {a} /\ UNCHANGED air
  /\ UNCHANGED <<sndVars, peerVars, hold, rxVars, tickVars, got, histVars>>

-----------------------------------------------------------------------------
(* The receiver. *)

\* What of the bundles taken the receiver loses track of when one with number s comes:
\* all of them if the window starts over, that one if it is not recorded.
Unrecorded(i, s) ==
  IF known /\ Jumps(rx, s) THEN Taken
  ELSE IF ~known \/ OutOfShift(rx, s) THEN {i} ELSE {}

\* rx_env: a number that is marked is a copy and goes no further. A node that is
\* not a peer yet has no window, so its first number is not recorded.
rx_env(i) ==
  /\ i \in air /\ rx_pc = "idle"
  /\ air' = air \ {i}
  /\ IF known THEN rx' \in peer_rx_seq(rx, seq_of[i]) ELSE UNCHANGED rx
  /\ IF known /\ Marked(rx, seq_of[i])
       THEN UNCHANGED <<rx_pc, rx_id, forgotten>>
       ELSE /\ rx_pc' = "data" /\ rx_id' = i
            /\ forgotten' = forgotten \cup Unrecorded(i, seq_of[i])
  /\ late' = (late \/ (known /\ OutOfShift(rx, seq_of[i])))
  /\ UNCHANGED <<sndVars, acks, known, ring, since, due, hold, rx_fids, tickVars, got>>

\* dedup_seen and dedup_remember: a ring of the last DedupWin hashes.
dedup_seen(d, i) == \E k \in DOMAIN d : d[k] = i
dedup_remember(d, i) ==
  IF Len(d) < DedupWin THEN Append(d, i) ELSE Append(Tail(d), i)

\* build_fids_locked: the newest AckFids of them.
build_fids(d) == {d[k] : k \in {j \in DOMAIN d : j > Len(d) - AckFids}}

\* ack_decide_locked, on the ring d: ACK now, or when enough frames have come,
\* or leave it to the tick.
ack_decide(d) ==
  IF ~hold \/ since + 1 >= AckFids
    THEN /\ since' = 0 /\ due' = FALSE
         /\ rx_pc' = "ack" /\ rx_fids' = build_fids(d)
    ELSE /\ since' = since + 1 /\ due' = TRUE
         /\ rx_pc' = "idle" /\ rx_fids' = {}

\* rx_data of a frame for this node. peer_get makes its sender a peer, and
\* resets the window of one that is stale; with every entry of the table pinned
\* there is no peer, and the frame is handed up without a trace.
rx_data ==
  /\ rx_pc = "data"
  /\ rx_id' = 0
  /\ \/ LET d == IF dedup_seen(ring, rx_id) THEN ring ELSE dedup_remember(ring, rx_id)
        IN  /\ known' = TRUE
            /\ rx' \in {rx} \cup (IF known /\ Stales THEN {NoWindow} ELSE {})
            /\ forgotten' = IF rx' = rx THEN forgotten ELSE forgotten \cup Taken
            /\ ring' = d
            /\ got' = IF dedup_seen(ring, rx_id) THEN got ELSE [got EXCEPT ![rx_id] = @ + 1]
            /\ ack_decide(d)
     \/ /\ ~known /\ Evicts
        /\ got' = [got EXCEPT ![rx_id] = @ + 1]
        /\ rx_pc' = "idle"
        /\ UNCHANGED <<peerVars, rx_fids, forgotten>>
  /\ UNCHANGED <<sndVars, air, acks, hold, tickVars, late>>

\* send_ack: a bitmap of the window as it is now if there is one, else the fids
\* collected before. The radio may refuse it.
SendAck(fids) ==
  LET a == IF known /\ rx.seen
             THEN [env |-> TRUE, base |-> Capture(rx).base, bm |-> Capture(rx).bm, fids |-> {}]
             ELSE [env |-> FALSE, base |-> 0, bm |-> {}, fids |-> fids]
  IN  acks' \in {acks} \cup (IF Cardinality(acks) < MaxAcks THEN {acks \cup {a}} ELSE {})

rx_send_ack ==
  /\ rx_pc = "ack"
  /\ SendAck(rx_fids)
  /\ rx_pc' = "idle" /\ rx_fids' = {}
  /\ UNCHANGED <<sndVars, air, peerVars, hold, rx_id, tickVars, got, histVars>>

\* tick_flush_deferred_acks: it collects under the mutex and sends without it.
TickCollect ==
  /\ tick_pc = "idle" /\ hold /\ known /\ due
  /\ due' = FALSE /\ since' = 0
  /\ tick_pc' = "ack" /\ tick_fids' = build_fids(ring)
  /\ UNCHANGED <<sndVars, air, acks, known, rx, ring, hold, rxVars, got, histVars>>

TickSendAck ==
  /\ tick_pc = "ack"
  /\ SendAck(tick_fids)
  /\ tick_pc' = "idle" /\ tick_fids' = {}
  /\ UNCHANGED <<sndVars, air, peerVars, hold, rxVars, got, histVars>>

\* peer_get by the TCP task, which has a frame for the sender: a stale peer.
peer_get_stale ==
  /\ Stales /\ known
  /\ rx' = NoWindow
  /\ forgotten' = forgotten \cup Taken
  /\ UNCHANGED <<sndVars, air, acks, known, ring, since, due, hold, rxVars, tickVars, got, late>>

\* peer_create for another node takes this entry.
peer_create_evicts ==
  /\ Evicts /\ known
  /\ known' = FALSE /\ rx' = NoWindow /\ ring' = <<>> /\ since' = 0 /\ due' = FALSE
  /\ forgotten' = forgotten \cup Taken
  /\ UNCHANGED <<sndVars, air, acks, hold, rxVars, tickVars, got, late>>

Next ==
  \/ agg_flush
  \/ \E i \in Ids : Retransmit(i) \/ Drop(i) \/ rx_env(i)
  \/ \E a \in acks : rx_ack(a)
  \/ Restart \/ Lose
  \/ rx_data \/ rx_send_ack
  \/ TickCollect \/ TickSendAck
  \/ peer_get_stale \/ peer_create_evicts

Spec == Init /\ [][Next]_vars

-----------------------------------------------------------------------------
(* Properties. *)

TypeOK ==
  /\ tx_seq \in Seqs
  /\ seq_of \in [Ids -> 0 .. Mod - 2]
  /\ verdict \in [Ids -> {"unsent", "pending", "acked", "dropped"}]
  /\ retries \in [Ids -> 0 .. MaxRetries]
  /\ sent \in 0 .. N /\ restarts \in 0 .. MaxRestarts
  /\ air \subseteq Ids
  /\ acks \subseteq [env : BOOLEAN, base : Seqs, bm : SUBSET Bits, fids : SUBSET Ids]
  /\ known \in BOOLEAN /\ rx \in Windows
  /\ ring \in Seq(Ids) /\ Len(ring) <= DedupWin
  /\ since \in 0 .. AckFids - 1 /\ due \in BOOLEAN /\ hold \in BOOLEAN
  /\ rx_pc \in {"idle", "data", "ack"} /\ rx_id \in 0 .. N /\ rx_fids \subseteq Ids
  /\ tick_pc \in {"idle", "ack"} /\ tick_fids \subseteq Ids
  /\ got \in [Ids -> 0 .. MaxRetries + 1]

\* Every packet is delivered at most once, whatever is sent again, and whatever
\* the order it arrives in. The code does not keep this (AckLinkLate.cfg).
NeverTwice == \A i \in Ids : got[i] <= 1

\* A bundle is handed up twice only if the receiver lost track of its number: it came
\* before its sender was a peer, or ShiftBits numbers or more behind the newest, or the
\* window was dropped after it (a stale reset, an eviction, a number a whole window
\* away).
AtMostOnce == \A i \in Ids : got[i] <= 1 \/ i \in forgotten

\* A bundle the sender counts as acknowledged was handed up at the receiver:
\* what is undelivered is found among the dropped.
AckedWasDelivered == \A i \in Ids : verdict[i] = "acked" => Arrived(i)

\* What is acknowledged is a number: whatever the sender and the receiver forgot
\* meanwhile, a bundle with the number of an acknowledged one was handed up, as long
\* as no bundle has come so late that 1u << back left the word.
AckedNumberDelivered ==
  ~late => \A i \in Ids : verdict[i] = "acked" =>
             \E j \in 1 .. sent : seq_of[j] = seq_of[i] /\ Arrived(j)

\* Every mark in the receiver's window stands for a bundle that did arrive, so
\* what rx_env consumes as a copy is one, with the same exception.
MarkedWasDelivered ==
  ~late /\ rx.seen => \A b \in rx.win :
    \E i \in 1 .. sent : seq_of[i] = Sub(rx.last, b) /\ Arrived(i)

\* An old bundle sent again does not un-ack newer ones: while the sender does not
\* start over, rx_seq_last goes back to an older bundle only for one that a whole
\* window of numbers has overtaken.
NewestStays ==
  [][\A i, j \in 1 .. sent :
       restarts = 0 /\ rx.seen /\ rx'.seen /\ rx.last = seq_of[i] /\ rx'.last = seq_of[j]
         => i <= j \/ Sub(seq_of[i], seq_of[j]) >= Win]_vars

\* The promise of the ACK layer. A bundle counts as handed up from the moment it is
\* past rx_env and will not be stopped by the dedup ring. An acknowledgement is in
\* doubt once a mark has left its word or numbers are used again.
D == INSTANCE Delivery WITH
       got <- [i \in Ids |-> IF Arriving(i) /\ ~dedup_seen(ring, i) THEN got[i] + 1 ELSE got[i]],
       doubt <- late \/ restarts > 0

DeliveryHolds == D!Spec
=============================================================================
