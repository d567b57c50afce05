------------------------------ MODULE AckSlots ------------------------------
(***************************************************************************)
(* The transmit half of halow_ack.c: the table of frame buffers g_bufs,    *)
(* the peer table g_peers, the in-flight window and its congestion         *)
(* governor, and the tasks that work on them:                              *)
(*                                                                         *)
(*   tcp   the TCP server task: halow_ack_tx and halow_ack_flush           *)
(*   tick  the 10 ms tick task: tick_service_bufs,                         *)
(*         tick_flush_held_bundles                                         *)
(*   rx    the LMAC receive task: rx_env, rx_ack, rx_data                  *)
(*   cfg   the web server task: halow_ack_config_apply                     *)
(*                                                                         *)
(* All of them work under g_ack_mutex, but buf_tx_send gives the mutex up  *)
(* while the radio takes the frame. A step of this module is the code from *)
(* one point at which the mutex may change hands to the next; in the two   *)
(* loops that span such points (tick and flush) a step is one iteration,   *)
(* with `lock' held from one step to the next.                             *)
(*                                                                         *)
(* Time is abstracted: aged[s] says that the slot reached its limit        *)
(* (ACK_AGG_MAX_HOLD_MS for a staged bundle, slot_life_ms once it is       *)
(* sent), and a backoff may or may not have run out when the tick looks.   *)
(* The room in the radio's queue (halow_get_tx_vacancy), the outcome of    *)
(* os_malloc and the size of a frame are nondeterministic too. ACK frames  *)
(* clear an arbitrary set of in-flight slots of their sender; which ones,  *)
(* and the deferred ACKs the tick sends, are the subject of AckLink.       *)
(***************************************************************************)
EXTENDS Integers, FiniteSets

CONSTANTS
  NSlots,       \* ACK_BUF_N
  NPeers,       \* ACK_MAX_PEERS
  Macs,         \* addresses of other nodes
  NoMac,        \* marks an unused peer entry and a free slot
  MaxSub,       \* HALOW_ACK_AGG_MAX_SUB
  MinWindow,    \* the smallest window the web interface accepts (4)
  MaxWindow,    \* HALOW_ACK_SLOTS_MAX
  RetryLimit    \* the largest max_retries config_clamp lets through

ASSUME ConstantsAssumption ==
  /\ NSlots \in Nat \ {0}
  /\ NPeers \in Nat \ {0}
  /\ MaxSub \in Nat \ {0}
  /\ MinWindow \in Nat /\ MinWindow >= 2
  /\ MaxWindow \in Nat /\ MaxWindow >= MinWindow
  /\ RetryLimit \in Nat
  /\ NoMac \notin Macs

VARIABLES
  state, dest, retries_used, aged,       \* g_bufs[s], one function per field
  pmac, agg_idx, agg_nsub, cur_retries,  \* g_peers[p]
  used_n, inflight_n,                    \* g_used_n, g_inflight_n
  cwnd, window, max_retries,             \* g_cwnd, g_window, g_ack_cfg
  lock,                                  \* the task that holds g_ack_mutex
  tcp_pc, tcp_m, tcp_p, tcp_b,           \* the TCP task: position, dest_mac, p, b
  tick_pc, tick_i, tick_b                \* the tick task: position, i, b

bufVars  == <<state, dest, retries_used, aged>>
peerVars == <<pmac, agg_idx, agg_nsub, cur_retries>>
cntVars  == <<used_n, inflight_n>>
winVars  == <<cwnd, window, max_retries>>
tcpVars  == <<tcp_pc, tcp_m, tcp_p, tcp_b>>
tickVars == <<tick_pc, tick_i, tick_b>>
vars == <<bufVars, peerVars, cntVars, winVars, lock, tcpVars, tickVars>>

Slots == 1 .. NSlots       \* agg_idx is the slot's index plus one, 0 is none
Peers == 1 .. NPeers
Max2(a, b) == IF a >= b THEN a ELSE b
Min2(a, b) == IF a <= b THEN a ELSE b

BufStates == {"free", "staging", "inflight", "sending"}
Tasks == {"none", "tcp", "tick"}
TcpPcs == {"idle", "full_send", "tail_send", "flush", "flush_send"}
TickPcs == {"idle", "enter", "service", "service_send", "held", "held_send"}

Init ==
  /\ state = [s \in Slots |-> "free"]
  /\ dest = [s \in Slots |-> NoMac]
  /\ retries_used = [s \in Slots |-> 0]
  /\ aged = [s \in Slots |-> FALSE]
  /\ pmac = [p \in Peers |-> NoMac]
  /\ agg_idx = [p \in Peers |-> 0]
  /\ agg_nsub = [p \in Peers |-> 0]
  /\ cur_retries = [p \in Peers |-> 0]
  /\ used_n = 0
  /\ inflight_n = 0
  /\ window \in MinWindow .. MaxWindow
  /\ cwnd = Min2(4, window)
  /\ max_retries \in 0 .. RetryLimit
  /\ lock = "none"
  /\ tcp_pc = "idle" /\ tcp_m = NoMac /\ tcp_p = 0 /\ tcp_b = 0
  /\ tick_pc = "idle" /\ tick_i = 0 /\ tick_b = 0

-----------------------------------------------------------------------------
(* The frame buffers. *)

Free(st) == {s \in Slots : st[s] = "free"}

\* buf_alloc takes the first empty entry of g_bufs.
FirstFree(st) == CHOOSE s \in Free(st) : \A t \in Free(st) : s <= t

\* buf_release of every slot of R: the memory is gone, so its fields are too.
buf_release(R) ==
  /\ state' = [s \in Slots |-> IF s \in R THEN "free" ELSE state[s]]
  /\ dest' = [s \in Slots |-> IF s \in R THEN NoMac ELSE dest[s]]
  /\ retries_used' = [s \in Slots |-> IF s \in R THEN 0 ELSE retries_used[s]]
  /\ aged' = [s \in Slots |-> IF s \in R THEN FALSE ELSE aged[s]]
  /\ used_n' = used_n - Cardinality(R)
  /\ inflight_n' =
       inflight_n - Cardinality({s \in R : state[s] \in {"inflight", "sending"}})

buf_for_peer(m) == {s \in Slots : state[s] # "free" /\ dest[s] = m}

eff_window == IF cwnd < window THEN cwnd ELSE window

\* n slots are cleared that were never sent again.
cwnd_on_clean_clear(n) == cwnd' = IF cwnd < window THEN Min2(window, cwnd + n) ELSE cwnd

\* Mutant: the shed without its floor.
cwnd_on_retrans_timeout_nofloor == cwnd' = (cwnd * 3) \div 4

\* window is the copy of g_ack_cfg.window that config_apply makes with it.
cwnd_on_retrans_timeout ==
  LET floor_w == IF window >= 2 THEN 2 ELSE 1
  IN  cwnd' = IF cwnd > floor_w THEN Max2(floor_w, (cwnd * 3) \div 4) ELSE cwnd

\* buf_tx_send after the radio call, with the mutex taken again.
SendDone(b) == [state EXCEPT ![b] = IF @ = "sending" THEN "inflight" ELSE @]

-----------------------------------------------------------------------------
(* The peers. *)

peer_find(m) == {p \in Peers : pmac[p] = m}

\* Mutant: buffers that are only staged do not pin their peer.
peer_evict_pick_staged ==
  {p \in Peers : \A s \in Slots : dest[s] = pmac[p] => state[s] \in {"free", "staging"}}

\* peer_evict_pick: an unused entry, else one with no buffer. The code takes
\* the first unused one and the one heard longest ago; any may be that.
peer_evict_pick ==
  LET unused == {p \in Peers : pmac[p] = NoMac}
  IN  IF unused # {}
        THEN {CHOOSE p \in unused : \A q \in unused : p <= q}
        ELSE {p \in Peers : buf_for_peer(pmac[p]) = {}}

\* Mutant: peer_get creates without looking first.
PeerForBlind(m) == peer_evict_pick

\* The entries peer_get may return for m: none when the table is pinned.
PeerFor(m) == IF peer_find(m) # {} THEN peer_find(m) ELSE peer_evict_pick

\* peer_get: a new peer starts from a cleared entry.
PeerGet(m, p) ==
  LET new == peer_find(m) = {}
  IN  /\ pmac' = [pmac EXCEPT ![p] = m]
      /\ cur_retries' = [cur_retries EXCEPT ![p] = IF new THEN max_retries ELSE @]

ClearedIfNew(m, p, f) == IF peer_find(m) = {} THEN [f EXCEPT ![p] = 0] ELSE f

-----------------------------------------------------------------------------
(* halow_ack_tx, by the TCP task. *)

\* The window gate of agg_flush_locked. Its other gate, the room in the radio's
\* queue, may be closed at any time, so no flush is ever certain.
WindowOpen == inflight_n < eff_window

\* The TCP task leaves the ACK layer, or sits in buf_tx_send without the mutex.
TcpReturn == tcp_pc' = "idle" /\ tcp_m' = NoMac /\ tcp_p' = 0 /\ tcp_b' = 0
TcpWindow(pc, m, p, b) == tcp_pc' = pc /\ tcp_m' = m /\ tcp_p' = p /\ tcp_b' = b

\* tx_bundle_locked from "if( p->agg_idx == 0u )" on: find or allocate the
\* staging buffer, append the frame, and send the bundle if it is complete
\* and the gates are open. st, ag and ns are the tables at that point.
StageAppend(m, p, st, ag, ns) ==
  LET b == IF ag[p] # 0 THEN ag[p] ELSE FirstFree(st)
      n == IF ag[p] # 0 THEN ns[p] + 1 ELSE 1
  IN
  /\ ag[p] = 0 => Free(st) # {}
  /\ dest' = IF ag[p] # 0 THEN dest ELSE [dest EXCEPT ![b] = m]
  /\ retries_used' = [retries_used EXCEPT ![b] = 0]
  /\ used_n' = IF ag[p] = 0 THEN used_n + 1 ELSE used_n
  /\ \/ /\ WindowOpen                            \* complete, and it went out
        /\ state' = [st EXCEPT ![b] = "sending"]
        /\ inflight_n' = inflight_n + 1
        /\ agg_idx' = [ag EXCEPT ![p] = 0]
        /\ agg_nsub' = [ns EXCEPT ![p] = 0]
        /\ aged' = [aged EXCEPT ![b] = FALSE]
        /\ TcpWindow("tail_send", m, p, b)
     \/ /\ state' = [st EXCEPT ![b] = "staging"]  \* incomplete, or a gate closed
        /\ agg_idx' = [ag EXCEPT ![p] = b]
        /\ agg_nsub' = [ns EXCEPT ![p] = n]
        /\ TcpReturn
        /\ UNCHANGED <<inflight_n, aged>>

\* HALOW_ACK_TX_THROTTLE: no slot, or no memory, or (solo mode) no window.
Throttle(st, ag, ns) ==
  /\ state' = st /\ agg_idx' = ag /\ agg_nsub' = ns
  /\ TcpReturn
  /\ UNCHANGED <<dest, retries_used, aged, used_n, inflight_n>>

\* Mutant: buf_tx_send does not count the staged buffer it sends.
agg_flush_uncounted(p) ==
  LET b == agg_idx[p]
  IN  /\ state' = [state EXCEPT ![b] = "sending"]
      /\ retries_used' = [retries_used EXCEPT ![b] = 0]
      /\ aged' = [aged EXCEPT ![b] = FALSE]
      /\ agg_idx' = [agg_idx EXCEPT ![p] = 0]
      /\ agg_nsub' = [agg_nsub EXCEPT ![p] = 0]
      /\ UNCHANGED inflight_n

\* Mutant: the peer keeps its reference to the bundle that went out.
agg_flush_attached(p) ==
  LET b == agg_idx[p]
  IN  /\ state' = [state EXCEPT ![b] = "sending"]
      /\ inflight_n' = inflight_n + 1
      /\ retries_used' = [retries_used EXCEPT ![b] = 0]
      /\ aged' = [aged EXCEPT ![b] = FALSE]
      /\ agg_nsub' = [agg_nsub EXCEPT ![p] = 0]
      /\ UNCHANGED agg_idx

\* agg_flush_locked of peer p's bundle up to the point where buf_tx_send
\* gives the mutex up.
agg_flush(p) ==
  LET b == agg_idx[p]
  IN  /\ state' = [state EXCEPT ![b] = "sending"]
      /\ inflight_n' = inflight_n + 1
      /\ retries_used' = [retries_used EXCEPT ![b] = 0]
      /\ aged' = [aged EXCEPT ![b] = FALSE]
      /\ agg_idx' = [agg_idx EXCEPT ![p] = 0]
      /\ agg_nsub' = [agg_nsub EXCEPT ![p] = 0]

\* ack_tx_uc to a unicast address. Its test of max_retries is made without the
\* mutex and may be out of date, so it is no guard. A peer without retries, and
\* one the table has no room for, is sent to untracked, which leaves the slots
\* alone.
halow_ack_tx(m) ==
  /\ tcp_pc = "idle" /\ lock = "none"
  /\ \E p \in PeerFor(m) :
       LET ag == ClearedIfNew(m, p, agg_idx)
           ns == ClearedIfNew(m, p, agg_nsub)
           retries == IF peer_find(m) = {} THEN max_retries ELSE cur_retries[p]
       IN  /\ PeerGet(m, p)
           /\ \/ /\ retries # 0
                 /\ ag[p] # 0 => ns[p] < MaxSub
                 /\ StageAppend(m, p, state, ag, ns)
              \/ /\ retries # 0                    \* bundle_full_for
                 /\ ag[p] # 0 /\ WindowOpen
                 /\ agg_flush(p)
                 /\ TcpWindow("full_send", m, p, ag[p])
                 /\ UNCHANGED <<dest, used_n>>
              \/ Throttle(state, ag, ns)
  /\ UNCHANGED <<winVars, lock, tickVars>>

\* The rest of tx_bundle_locked after it had to flush the full bundle.
tx_bundle_resume ==
  /\ tcp_pc = "full_send" /\ lock = "none"
  /\ \/ StageAppend(tcp_m, tcp_p, SendDone(tcp_b), agg_idx, agg_nsub)
     \/ Throttle(SendDone(tcp_b), agg_idx, agg_nsub)
  /\ UNCHANGED <<pmac, cur_retries, winVars, lock, tickVars>>

\* The end of tx_bundle_locked after the complete bundle was sent.
tx_bundle_end ==
  /\ tcp_pc = "tail_send" /\ lock = "none"
  /\ state' = SendDone(tcp_b)
  /\ TcpReturn
  /\ UNCHANGED <<dest, retries_used, aged, peerVars, cntVars, winVars, lock, tickVars>>

-----------------------------------------------------------------------------
(* halow_ack_flush, by the TCP task when recv has nothing more. *)

FlushStart ==
  /\ tcp_pc = "idle" /\ lock = "none"
  /\ lock' = "tcp" /\ TcpWindow("flush", NoMac, 1, 0)
  /\ UNCHANGED <<bufVars, peerVars, cntVars, winVars, tickVars>>

\* One iteration of the loop over g_peers.
FlushPeer ==
  /\ tcp_pc = "flush" /\ tcp_p <= NPeers
  /\ \/ /\ pmac[tcp_p] # NoMac /\ agg_idx[tcp_p] # 0 /\ WindowOpen
        /\ agg_flush(tcp_p)
        /\ lock' = "none"
        /\ TcpWindow("flush_send", pmac[tcp_p], tcp_p, agg_idx[tcp_p])
     \/ /\ TcpWindow("flush", NoMac, tcp_p + 1, 0)
        /\ UNCHANGED <<state, retries_used, aged, inflight_n, agg_idx, agg_nsub, lock>>
  /\ UNCHANGED <<dest, pmac, cur_retries, used_n, winVars, tickVars>>

FlushResume ==
  /\ tcp_pc = "flush_send" /\ lock = "none"
  /\ state' = SendDone(tcp_b)
  /\ lock' = "tcp" /\ TcpWindow("flush", NoMac, tcp_p + 1, 0)
  /\ UNCHANGED <<dest, retries_used, aged, peerVars, cntVars, winVars, tickVars>>

FlushEnd ==
  /\ tcp_pc = "flush" /\ tcp_p > NPeers
  /\ lock' = "none" /\ TcpReturn
  /\ UNCHANGED <<bufVars, peerVars, cntVars, winVars, tickVars>>

-----------------------------------------------------------------------------
(* halow_ack_tick, by the tick task. *)

TickAt(pc, i, b) == tick_pc' = pc /\ tick_i' = i /\ tick_b' = b

\* The test of max_retries is made before the mutex is taken.
TickEnter ==
  /\ tick_pc = "idle" /\ max_retries # 0
  /\ TickAt("enter", 0, 0)
  /\ UNCHANGED <<bufVars, peerVars, cntVars, winVars, lock, tcpVars>>

TickLock ==
  /\ tick_pc = "enter" /\ lock = "none"
  /\ lock' = "tick" /\ TickAt("service", 1, 0)
  /\ UNCHANGED <<bufVars, peerVars, cntVars, winVars, tcpVars>>

\* The cases of one iteration of tick_service_bufs that touch the slot.
ServiceDrop(b) ==
  /\ \/ aged[b]                                \* buf_drop_deadline
     \/ peer_find(dest[b]) = {}                \* the orphan case
     \/ retries_used[b] >= max_retries         \* drop_exhaust
  /\ buf_release({b})
  /\ TickAt("service", tick_i + 1, 0)
  /\ UNCHANGED <<cwnd, lock>>

\* Mutant: one retry too many.
ServiceRetransmitOnceMore(b) ==
  /\ ~aged[b] /\ peer_find(dest[b]) # {} /\ retries_used[b] <= max_retries
  /\ retries_used' = [retries_used EXCEPT ![b] = @ + 1]
  /\ IF retries_used[b] = 0 THEN cwnd_on_retrans_timeout ELSE cwnd' = cwnd
  /\ state' = [state EXCEPT ![b] = "sending"]
  /\ lock' = "none"
  /\ TickAt("service_send", tick_i, b)
  /\ UNCHANGED <<dest, aged, cntVars>>

ServiceRetransmit(b) ==
  /\ ~aged[b] /\ peer_find(dest[b]) # {} /\ retries_used[b] < max_retries
  /\ retries_used' = [retries_used EXCEPT ![b] = @ + 1]
  /\ IF retries_used[b] = 0 THEN cwnd_on_retrans_timeout ELSE cwnd' = cwnd
  /\ state' = [state EXCEPT ![b] = "sending"]
  /\ lock' = "none"
  /\ TickAt("service_send", tick_i, b)
  /\ UNCHANGED <<dest, aged, cntVars>>

\* Mutant: the room in the radio's queue is asked for before the deadline.
ServiceSkipLate(b) ==
  /\ TickAt("service", tick_i + 1, 0)
  /\ UNCHANGED <<bufVars, cntVars, cwnd, lock>>

\* An entry with nothing in flight, one whose backoff still runs, or one the
\* radio's queue has no room for. A slot past its life is never skipped.
ServiceSkip(b) ==
  /\ ~(state[b] = "inflight" /\ aged[b])
  /\ TickAt("service", tick_i + 1, 0)
  /\ UNCHANGED <<bufVars, cntVars, cwnd, lock>>

TickService ==
  /\ tick_pc = "service" /\ tick_i <= NSlots
  /\ \/ state[tick_i] = "inflight" /\ ServiceDrop(tick_i)
     \/ state[tick_i] = "inflight" /\ ServiceRetransmit(tick_i)
     \/ ServiceSkip(tick_i)
  /\ UNCHANGED <<peerVars, window, max_retries, tcpVars>>

ServiceResume ==
  /\ tick_pc = "service_send" /\ lock = "none"
  /\ state' = SendDone(tick_b)
  /\ lock' = "tick" /\ TickAt("service", tick_i + 1, 0)
  /\ UNCHANGED <<dest, retries_used, aged, peerVars, cntVars, winVars, tcpVars>>

ServiceEnd ==
  /\ tick_pc = "service" /\ tick_i > NSlots
  /\ TickAt("held", 1, 0)
  /\ UNCHANGED <<bufVars, peerVars, cntVars, winVars, lock, tcpVars>>

\* One iteration of tick_flush_held_bundles: send the bundle if the gates let
\* it, drop it with agg_reset if it has been held too long.
TickHeld ==
  /\ tick_pc = "held" /\ tick_i <= NPeers
  /\ LET b == agg_idx[tick_i]
         staged == pmac[tick_i] # NoMac /\ b # 0
     IN  \/ /\ staged /\ WindowOpen
            /\ agg_flush(tick_i)
            /\ lock' = "none" /\ TickAt("held_send", tick_i, b)
            /\ UNCHANGED <<dest, used_n>>
         \/ /\ staged /\ aged[b]
            /\ buf_release({b})
            /\ agg_idx' = [agg_idx EXCEPT ![tick_i] = 0]
            /\ agg_nsub' = [agg_nsub EXCEPT ![tick_i] = 0]
            /\ TickAt("held", tick_i + 1, 0) /\ UNCHANGED lock
         \/ /\ ~(staged /\ aged[b])
            /\ TickAt("held", tick_i + 1, 0)
            /\ UNCHANGED <<bufVars, cntVars, agg_idx, agg_nsub, lock>>
  /\ UNCHANGED <<pmac, cur_retries, winVars, tcpVars>>

HeldResume ==
  /\ tick_pc = "held_send" /\ lock = "none"
  /\ state' = SendDone(tick_b)
  /\ lock' = "tick" /\ TickAt("held", tick_i + 1, 0)
  /\ UNCHANGED <<dest, retries_used, aged, peerVars, cntVars, winVars, tcpVars>>

TickEnd ==
  /\ tick_pc = "held" /\ tick_i > NPeers
  /\ lock' = "none" /\ TickAt("idle", 0, 0)
  /\ UNCHANGED <<bufVars, peerVars, cntVars, winVars, tcpVars>>

-----------------------------------------------------------------------------
(* The receive task, the web server and time. *)

\* Mutant: an ACK also clears a slot that is being sent again.
rx_ack_sending(m) ==
  /\ lock = "none"
  /\ \E p \in peer_find(m) :
       cur_retries' = [cur_retries EXCEPT ![p] = max_retries]
  /\ \E C \in SUBSET {s \in Slots : state[s] \in {"inflight", "sending"} /\ dest[s] = m} :
       /\ buf_release(C)
       /\ cwnd_on_clean_clear(Cardinality({s \in C : retries_used[s] = 0}))
  /\ UNCHANGED <<pmac, agg_idx, agg_nsub, window, max_retries, lock, tcpVars, tickVars>>

\* rx_env_ack_locked and rx_ack: an ACK of m clears the slots C it names, if
\* they are in flight at this moment. A slot being sent again is not.
rx_ack(m) ==
  /\ lock = "none"
  /\ \E p \in peer_find(m) :
       cur_retries' = [cur_retries EXCEPT ![p] = max_retries]
  /\ \E C \in SUBSET {s \in Slots : state[s] = "inflight" /\ dest[s] = m} :
       /\ buf_release(C)
       /\ cwnd_on_clean_clear(Cardinality({s \in C : retries_used[s] = 0}))
  /\ UNCHANGED <<pmac, agg_idx, agg_nsub, window, max_retries, lock, tcpVars, tickVars>>

\* rx_data of a frame for this node makes its sender a peer.
rx_data(m) ==
  /\ lock = "none"
  /\ \E p \in PeerFor(m) :
       /\ PeerGet(m, p)
       /\ agg_idx' = ClearedIfNew(m, p, agg_idx)
       /\ agg_nsub' = ClearedIfNew(m, p, agg_nsub)
  /\ UNCHANGED <<bufVars, cntVars, winVars, lock, tcpVars, tickVars>>

halow_ack_config_apply(w, r) ==
  /\ lock = "none"
  /\ window' = w /\ max_retries' = r
  /\ cwnd' = Min2(cwnd, w)
  /\ cur_retries' = [p \in Peers |-> IF pmac[p] # NoMac THEN Min2(cur_retries[p], r)
                                                       ELSE cur_retries[p]]
  /\ UNCHANGED <<bufVars, pmac, agg_idx, agg_nsub, cntVars, lock, tcpVars, tickVars>>

\* The slot comes of age: ACK_AGG_MAX_HOLD_MS or slot_life_ms have passed.
Age(s) ==
  /\ state[s] # "free" /\ ~aged[s]
  /\ aged' = [aged EXCEPT ![s] = TRUE]
  /\ UNCHANGED <<state, dest, retries_used, peerVars, cntVars, winVars, lock,
                 tcpVars, tickVars>>

TcpStep ==
  \/ \E m \in Macs : halow_ack_tx(m)
  \/ tx_bundle_resume \/ tx_bundle_end
  \/ FlushStart \/ FlushPeer \/ FlushResume \/ FlushEnd

TickStep ==
  \/ TickEnter \/ TickLock
  \/ TickService \/ ServiceResume \/ ServiceEnd
  \/ TickHeld \/ HeldResume \/ TickEnd

Next ==
  \/ TcpStep
  \/ TickStep
  \/ \E m \in Macs : rx_ack(m) \/ rx_data(m)
  \/ \E w \in MinWindow .. MaxWindow, r \in 0 .. RetryLimit : halow_ack_config_apply(w, r)
  \/ \E s \in Slots : Age(s)

Spec == Init /\ [][Next]_vars

-----------------------------------------------------------------------------
(* Properties. *)

InFlight(s) == state[s] \in {"inflight", "sending"}

TypeOK ==
  /\ state \in [Slots -> BufStates]
  /\ dest \in [Slots -> Macs \cup {NoMac}]
  /\ retries_used \in [Slots -> 0 .. RetryLimit]
  /\ aged \in [Slots -> BOOLEAN]
  /\ pmac \in [Peers -> Macs \cup {NoMac}]
  /\ agg_idx \in [Peers -> 0 .. NSlots]
  /\ agg_nsub \in [Peers -> 0 .. MaxSub]
  /\ cur_retries \in [Peers -> 0 .. RetryLimit]
  /\ used_n \in Nat /\ inflight_n \in Nat
  /\ window \in MinWindow .. MaxWindow
  /\ cwnd \in Nat
  /\ max_retries \in 0 .. RetryLimit
  /\ lock \in Tasks
  /\ tcp_pc \in TcpPcs /\ tcp_m \in Macs \cup {NoMac}
  /\ tcp_p \in Nat /\ tcp_b \in 0 .. NSlots
  /\ tick_pc \in TickPcs
  /\ tick_i \in Nat /\ tick_b \in 0 .. NSlots

\* g_used_n and g_inflight_n, which are counted up and down in nine places of
\* four tasks, never drift from the table: the window and tx_ready gates that
\* read them would otherwise open too wide or stay shut for good.
CountersMatch ==
  /\ used_n = Cardinality({s \in Slots : state[s] # "free"})
  /\ inflight_n = Cardinality({s \in Slots : InFlight(s)})

\* A staged buffer belongs to the one peer whose agg_idx names it, and is
\* addressed to that peer. Otherwise frames would be appended to freed memory
\* or to another node's bundle, or a bundle nobody can find would be leaked.
StagingOwned ==
  /\ \A p \in Peers : agg_idx[p] # 0 =>
       /\ state[agg_idx[p]] = "staging"
       /\ dest[agg_idx[p]] = pmac[p]
       /\ pmac[p] # NoMac
  /\ \A s \in Slots : state[s] = "staging" => \E p \in Peers : agg_idx[p] = s
  /\ \A p, q \in Peers : agg_idx[p] # 0 /\ agg_idx[p] = agg_idx[q] => p = q

TcpSends == tcp_pc \in {"full_send", "tail_send", "flush_send"}
TickSends == tick_pc \in {"service_send", "held_send"}

\* The buffer a task is in the middle of sending, with the mutex given up, is
\* still that buffer when the task comes back: buf_tx_send writes to it. No
\* other task frees it, sends it a second time or takes it for its own, and no
\* slot stays in "sending" once nobody sends it.
SendingPinned ==
  /\ TcpSends => tcp_b \in Slots /\ state[tcp_b] = "sending"
  /\ TickSends => tick_b \in Slots /\ state[tick_b] = "sending"
  /\ TcpSends /\ TickSends => tcp_b # tick_b
  /\ \A s \in Slots : state[s] = "sending" =>
       (TcpSends /\ s = tcp_b) \/ (TickSends /\ s = tick_b)

\* Every buffer is addressed to a node of the peer table, so the orphan case of
\* buf_retransmit_or_drop never happens, and the pointer p that tx_bundle_locked
\* keeps across the radio call still denotes the peer it was looked up for.
PeerPinned ==
  /\ \A s \in Slots : state[s] # "free" => dest[s] \in Macs /\ peer_find(dest[s]) # {}
  /\ tcp_pc = "full_send" => tcp_p \in Peers /\ pmac[tcp_p] = tcp_m

\* A node has one entry in the peer table.
PeersUnique ==
  \A p, q \in Peers : pmac[p] # NoMac /\ pmac[p] = pmac[q] => p = q

\* The governor never closes the window so far that halow_ack_tx_ready, which
\* asks for two free places, could not be true again with nothing in flight.
WindowReopens == cwnd \in 2 .. window

-----------------------------------------------------------------------------
(* The inductive invariant. *)

\* Where each task is, what it holds there, and who has the mutex.
ControlInv ==
  /\ lock = "tcp" <=> tcp_pc = "flush"
  /\ lock = "tick" <=> tick_pc \in {"service", "held"}
  /\ tcp_pc = "flush" => tcp_p \in 1 .. NPeers + 1
  /\ tcp_pc = "flush_send" => tcp_p \in Peers
  /\ tcp_pc = "full_send" => tcp_m \in Macs /\ dest[tcp_b] = tcp_m /\ agg_idx[tcp_p] = 0
  /\ tick_pc = "service" => tick_i \in 1 .. NSlots + 1
  /\ tick_pc = "held" => tick_i \in 1 .. NPeers + 1
  /\ tick_pc = "service_send" => tick_i \in Slots
  /\ tick_pc = "held_send" => tick_i \in Peers

\* The safety properties hold each other up: SendingPinned keeps the slot that
\* PeerPinned needs to keep the peer that StagingOwned is about, and the counters
\* can be right only while no buffer is released twice.
IInv ==
  /\ TypeOK
  /\ CountersMatch
  /\ StagingOwned
  /\ SendingPinned
  /\ PeerPinned
  /\ PeersUnique
  /\ WindowReopens
  /\ ControlInv

-----------------------------------------------------------------------------
(* Progress. *)

\* What the TCP task does once it has entered the ACK layer.
TcpFinish == tx_bundle_resume \/ tx_bundle_end \/ FlushPeer \/ FlushResume \/ FlushEnd

\* The tick task has the highest priority and runs for ever; the radio call
\* returns and the mutex is granted to whoever waits, so no task that entered
\* the ACK layer stays in it; time passes. Nothing is assumed of ACKs, of new
\* traffic, of the room in the radio's queue or of the web interface.
Fairness ==
  /\ SF_vars(TickStep)
  /\ SF_vars(TcpFinish)
  /\ \A s \in Slots : WF_vars(Age(s))

FairSpec == Spec /\ Fairness

\* As long as retries stay on, every buffer is given back, with or without an
\* ACK, with the radio's queue full or not: the life deadline and the hold limit
\* see to it.
SlotsDrainWithRetries ==
  \A s \in Slots : state[s] # "free" ~> (state[s] = "free" \/ max_retries = 0)
=============================================================================
