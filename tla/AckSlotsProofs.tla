--------------------------- MODULE AckSlotsProofs ---------------------------
(***************************************************************************)
(* Proofs about AckSlots for any number of slots, peers and nodes: the     *)
(* inductive invariant IInv and, from it, the safety properties that the   *)
(* runs check on small instances.                                          *)
(***************************************************************************)
EXTENDS AckSlots, FiniteSetTheorems, WellFoundedInduction, TLAPS

-----------------------------------------------------------------------------
(* Smallest elements: buf_alloc and peer_evict_pick take the first entry. *)

\* A non-empty set of table indices has a smallest element.
LEMMA MinExists ==
  ASSUME NEW T, T \subseteq Nat, T # {}
  PROVE  \E x \in T : \A y \in T : x <= y
<1>1. \E x \in T : \A y \in T : ~ (<<y, x>> \in OpToRel(<, Nat))
  BY NatLessThanWellFounded, WFMin
<1>2. PICK x \in T : \A y \in T : ~ (<<y, x>> \in OpToRel(<, Nat))
  BY <1>1
<1>3. ASSUME NEW y \in T PROVE x <= y
  <2>1. x \in Nat /\ y \in Nat
    OBVIOUS
  <2>2. ASSUME y < x PROVE <<y, x>> \in OpToRel(<, Nat)
    BY <2>1, <2>2, Zenon DEF OpToRel
  <2>3. ~(y < x)
    BY <1>2, <2>2
  <2> QED
    BY <2>1, <2>3
<1> QED
  BY <1>3

\* buf_alloc returns an entry that was empty.
LEMMA FirstFreeIsFree ==
  ASSUME NEW st, Free(st) # {}
  PROVE  FirstFree(st) \in Free(st)
<1>1. Free(st) \subseteq Nat
  BY ConstantsAssumption DEF Free, Slots
<1>2. \E x \in Free(st) : \A y \in Free(st) : x <= y
  BY <1>1, MinExists
<1> QED
  BY <1>2 DEF FirstFree

\* peer_evict_pick returns an unused entry or one no buffer is addressed to.
LEMMA EvictPickIsIdle ==
  ASSUME NEW p \in peer_evict_pick
  PROVE  p \in Peers /\ (pmac[p] = NoMac \/ buf_for_peer(pmac[p]) = {})
<1> DEFINE unused == {q \in Peers : pmac[q] = NoMac}
<1>1. CASE unused # {}
  <2>1. unused \subseteq Nat
    BY ConstantsAssumption DEF Peers
  <2>2. \E x \in unused : \A y \in unused : x <= y
    BY <1>1, <2>1, MinExists
  <2>3. p = CHOOSE x \in unused : \A y \in unused : x <= y
    BY <1>1 DEF peer_evict_pick
  <2>4. p \in unused
    BY <2>2, <2>3
  <2> QED
    BY <2>4
<1>2. CASE unused = {}
  BY <1>2 DEF peer_evict_pick
<1> QED
  BY <1>1, <1>2

-----------------------------------------------------------------------------
(* Counting: how the two counters follow the table. *)

Used == {s \in Slots : state[s] # "free"}
Flying == {s \in Slots : InFlight(s)}

\* Every part of the table can be counted.
LEMMA TableFinite ==
  /\ \A T \in SUBSET Slots : IsFiniteSet(T) /\ Cardinality(T) \in Nat
<1>1. IsFiniteSet(Slots)
  BY FS_Interval, ConstantsAssumption DEF Slots
<1> QED
  BY <1>1, FS_Subset, FS_CardinalityType

\* Adding one entry adds one to the count.
LEMMA CountAdd ==
  ASSUME NEW S \in SUBSET Slots, NEW T \in SUBSET Slots, NEW b \in Slots,
         b \notin S, T = S \cup {b}
  PROVE  Cardinality(T) = Cardinality(S) + 1
BY TableFinite, FS_AddElement

\* Taking a set of entries away takes their number from the count.
LEMMA CountDrop ==
  ASSUME NEW S \in SUBSET Slots, NEW R \in SUBSET S, NEW T \in SUBSET Slots,
         T = S \ R
  PROVE  Cardinality(T) = Cardinality(S) - Cardinality(R)
<1>1. IsFiniteSet(S) /\ IsFiniteSet(R) /\ IsFiniteSet(T)
  BY TableFinite
<1>2. S \cap R = R
  OBVIOUS
<1> QED
  BY <1>1, <1>2, FS_Difference, TableFinite

\* buf_release keeps both counters right if it is given live buffers.
LEMMA ReleaseCounts ==
  ASSUME TypeOK, CountersMatch, NEW R \in SUBSET Slots,
         \A s \in R : state[s] # "free", buf_release(R)
  PROVE  CountersMatch'
<1> DEFINE F == {s \in R : state[s] \in {"inflight", "sending"}}
<1>1. Used' = Used \ R
  BY DEF Used, buf_release, Slots
<1>2. Flying' = Flying \ F
  BY DEF Flying, InFlight, buf_release, Slots
<1>3. R \in SUBSET Used /\ F \in SUBSET Flying
  BY DEF Used, Flying, InFlight
<1>4. Used \in SUBSET Slots /\ Flying \in SUBSET Slots /\ Used' \in SUBSET Slots
      /\ Flying' \in SUBSET Slots
  BY DEF Used, Flying
<1>5. Cardinality(Used') = Cardinality(Used) - Cardinality(R)
  BY <1>1, <1>3, <1>4, CountDrop
<1>6. Cardinality(Flying') = Cardinality(Flying) - Cardinality(F)
  BY <1>2, <1>3, <1>4, CountDrop
<1> QED
  BY <1>5, <1>6 DEF CountersMatch, Used, Flying, buf_release

\* buf_release keeps the table well formed.
LEMMA ReleaseType ==
  ASSUME TypeOK, NEW R \in SUBSET Slots, buf_release(R)
  PROVE  /\ state' \in [Slots -> BufStates]
         /\ dest' \in [Slots -> Macs \cup {NoMac}]
         /\ retries_used' \in [Slots -> 0 .. RetryLimit]
         /\ aged' \in [Slots -> BOOLEAN]
         /\ \A s \in Slots : s \in R => state'[s] = "free"
         /\ \A s \in Slots : s \notin R => state'[s] = state[s] /\ dest'[s] = dest[s]
<1>1. state' \in [Slots -> BufStates] /\ dest' \in [Slots -> Macs \cup {NoMac}]
  BY DEF TypeOK, buf_release, BufStates
<1>2. retries_used' \in [Slots -> 0 .. RetryLimit]
  BY ConstantsAssumption DEF TypeOK, buf_release
<1>3. aged' \in [Slots -> BOOLEAN]
  BY Zenon DEF TypeOK, buf_release
<1> QED
  BY <1>1, <1>2, <1>3 DEF buf_release

\* The counters stay right when no slot changes sides.
LEMMA SameCounts ==
  ASSUME CountersMatch, UNCHANGED cntVars,
         \A s \in Slots : /\ (state'[s] # "free") <=> (state[s] # "free")
                          /\ InFlight(s)' <=> InFlight(s)
  PROVE  CountersMatch'
<1>1. Used' = Used /\ Flying' = Flying
  BY DEF Used, Flying
<1> QED
  BY <1>1 DEF CountersMatch, Used, Flying, cntVars

\* A non-zero agg_idx is an index of the table.
LEMMA AggInTable ==
  ASSUME TypeOK
  PROVE  \A p \in Peers : agg_idx[p] # 0 => agg_idx[p] \in Slots
BY ConstantsAssumption DEF TypeOK, Slots

-----------------------------------------------------------------------------
(* The steps that only move a task or change the settings. *)

\* After halow_ack_init the invariant holds.
LEMMA InitInv == Init => IInv
<1> SUFFICES ASSUME Init PROVE IInv
  OBVIOUS
<1>1. {s \in Slots : state[s] # "free"} = {} /\ {s \in Slots : InFlight(s)} = {}
  BY DEF Init, InFlight
<1>2. CountersMatch
  BY <1>1, FS_EmptySet DEF Init, CountersMatch
<1>3. TypeOK /\ WindowReopens
  BY ConstantsAssumption DEF Init, TypeOK, WindowReopens, BufStates, Tasks, TcpPcs,
     TickPcs, Slots, Peers, Min2
<1>4. StagingOwned /\ SendingPinned /\ PeerPinned /\ PeersUnique /\ ControlInv
  BY DEF Init, StagingOwned, SendingPinned, PeerPinned, PeersUnique, ControlInv,
     TcpSends, TickSends, Slots, Peers
<1> QED
  BY <1>2, <1>3, <1>4 DEF IInv

\* Steps that leave the tables alone: loop ends, the entry of the tick, the
\* mutex being taken.
LEMMA MoveStep ==
  ASSUME IInv, FlushStart \/ FlushEnd \/ TickEnter \/ TickLock \/ ServiceEnd \/ TickEnd
  PROVE  IInv'
<1>1. UNCHANGED <<bufVars, peerVars, cntVars, winVars>>
  BY DEF FlushStart, FlushEnd, TickEnter, TickLock, ServiceEnd, TickEnd
<1>2. CountersMatch'
  BY <1>1, SameCounts DEF IInv, bufVars, cntVars, InFlight
<1>3. StagingOwned' /\ PeersUnique' /\ WindowReopens'
  BY <1>1 DEF IInv, bufVars, peerVars, winVars, StagingOwned, PeersUnique, WindowReopens
<1>4. TypeOK'
  BY <1>1, ConstantsAssumption DEF IInv, bufVars, peerVars, cntVars, winVars, TypeOK,
     FlushStart, FlushEnd, TickEnter, TickLock, ServiceEnd, TickEnd, TickAt, TcpWindow,
     TcpReturn, tcpVars, tickVars, TcpPcs, TickPcs, Tasks
<1>5. ControlInv'
  <2> USE ConstantsAssumption DEF IInv, bufVars, peerVars, TypeOK, ControlInv, TickAt,
        TcpWindow, TcpReturn, tcpVars, tickVars
  <2>1. CASE FlushStart \/ FlushEnd
    BY <1>1, <2>1 DEF FlushStart, FlushEnd
  <2>2. CASE TickEnter \/ TickLock
    BY <1>1, <2>2 DEF TickEnter, TickLock
  <2>3. CASE ServiceEnd \/ TickEnd
    BY <1>1, <2>3 DEF ServiceEnd, TickEnd
  <2> QED
    BY <2>1, <2>2, <2>3
<1>6. /\ UNCHANGED <<TcpSends, TickSends>>
      /\ TcpSends => UNCHANGED tcpVars
      /\ TickSends => UNCHANGED tickVars
      /\ tcp_pc' = "full_send" => UNCHANGED tcpVars
  BY DEF TcpSends, TickSends, FlushStart, FlushEnd, TickEnter, TickLock, ServiceEnd,
     TickEnd, TickAt, TcpWindow, TcpReturn, tcpVars, tickVars
<1>7. SendingPinned' /\ PeerPinned'
  BY <1>1, <1>6 DEF IInv, bufVars, peerVars, SendingPinned, PeerPinned, peer_find,
     tcpVars, tickVars
<1> QED
  BY <1>2, <1>3, <1>4, <1>5, <1>7 DEF IInv

\* The web server changing the settings under the other tasks.
LEMMA ConfigStep ==
  ASSUME IInv, NEW w \in MinWindow .. MaxWindow, NEW r \in 0 .. RetryLimit,
         halow_ack_config_apply(w, r)
  PROVE  IInv'
<1> USE DEF halow_ack_config_apply, bufVars, cntVars, tcpVars, tickVars
<1>1. CountersMatch'
  BY SameCounts DEF IInv, InFlight
<1>2. TypeOK' /\ WindowReopens'
  BY ConstantsAssumption DEF IInv, TypeOK, WindowReopens, Min2, Peers
<1>3. StagingOwned' /\ PeersUnique' /\ SendingPinned' /\ PeerPinned' /\ ControlInv'
  BY DEF IInv, StagingOwned, PeersUnique, SendingPinned, PeerPinned, ControlInv,
     TcpSends, TickSends, peer_find
<1> QED
  BY <1>1, <1>2, <1>3 DEF IInv

\* Time passing for one slot.
LEMMA AgeStep ==
  ASSUME IInv, NEW t \in Slots, Age(t)
  PROVE  IInv'
<1> USE DEF Age, peerVars, cntVars, winVars, tcpVars, tickVars
<1>1. CountersMatch'
  BY SameCounts DEF IInv, InFlight
<1>2. TypeOK'
  BY DEF IInv, TypeOK
<1>3. StagingOwned' /\ PeersUnique' /\ SendingPinned' /\ PeerPinned' /\ ControlInv'
      /\ WindowReopens'
  BY DEF IInv, StagingOwned, PeersUnique, SendingPinned, PeerPinned, ControlInv,
     TcpSends, TickSends, peer_find, WindowReopens
<1> QED
  BY <1>1, <1>2, <1>3 DEF IInv

-----------------------------------------------------------------------------
(* The receive task. *)

\* An ACK clears slots, none of them staged or being sent.
LEMMA RxAckStep ==
  ASSUME IInv, NEW m \in Macs, rx_ack(m)
  PROVE  IInv'
<1> USE DEF tcpVars, tickVars
<1>1. PICK C \in SUBSET {s \in Slots : state[s] = "inflight" /\ dest[s] = m} :
        /\ buf_release(C)
        /\ cwnd_on_clean_clear(Cardinality({s \in C : retries_used[s] = 0}))
  BY DEF rx_ack
<1>2. PICK q \in peer_find(m) : cur_retries' = [cur_retries EXCEPT ![q] = max_retries]
  BY DEF rx_ack
<1>3. C \in SUBSET Slots /\ \A s \in C : state[s] = "inflight"
  OBVIOUS
<1>4. CountersMatch'
  BY <1>1, <1>3, ReleaseCounts DEF IInv
<1>5. Cardinality({s \in C : retries_used[s] = 0}) \in Nat
  BY <1>3, TableFinite
<1>6. WindowReopens' /\ cwnd' \in Nat
  BY <1>1, <1>5 DEF IInv, WindowReopens, TypeOK, cwnd_on_clean_clear, Min2, rx_ack
<1>7. used_n' \in Nat /\ inflight_n' \in Nat
  BY <1>4, TableFinite DEF CountersMatch
<1>8. TypeOK'
  BY <1>1, <1>2, <1>3, <1>6, <1>7, ReleaseType DEF IInv, TypeOK, rx_ack, peer_find
<1>9. /\ \A s \in Slots : s \in C => state[s] = "inflight" /\ state'[s] = "free"
      /\ \A s \in Slots : s \notin C => state'[s] = state[s] /\ dest'[s] = dest[s]
  BY <1>1, <1>3, ReleaseType DEF IInv
<1>10. UNCHANGED <<pmac, agg_idx, agg_nsub, lock, tcpVars, tickVars>>
  BY DEF rx_ack
<1>11. StagingOwned' /\ PeersUnique'
  BY <1>9, <1>10, AggInTable DEF IInv, StagingOwned, PeersUnique
<1>12. SendingPinned'
  BY <1>9, <1>10 DEF IInv, SendingPinned, TcpSends, TickSends
<1>13. PeerPinned'
  BY <1>9, <1>10 DEF IInv, PeerPinned, peer_find
<1>14. ControlInv'
  BY <1>9, <1>10 DEF IInv, SendingPinned, ControlInv, TcpSends
<1> QED
  BY <1>4, <1>6, <1>8, <1>11, <1>12, <1>13, <1>14 DEF IInv

\* What peer_get does to the peer table: the entry it returns is m's, no other
\* entry is, and no entry that a buffer or the TCP task depends on was reused.
LEMMA PeerGetFacts ==
  ASSUME IInv, NEW m \in Macs, NEW p \in PeerFor(m), PeerGet(m, p)
  PROVE  /\ p \in Peers
         /\ pmac' \in [Peers -> Macs \cup {NoMac}]
         /\ cur_retries' \in [Peers -> 0 .. RetryLimit]
         /\ pmac'[p] = m
         /\ PeersUnique'
         /\ ClearedIfNew(m, p, agg_idx) = agg_idx
         /\ ClearedIfNew(m, p, agg_nsub) \in [Peers -> 0 .. MaxSub]
         /\ \A s \in Slots : state[s] # "free" => \E q \in Peers : pmac'[q] = dest[s]
         /\ \A q \in Peers : agg_idx[q] # 0 => pmac'[q] = pmac[q]
         /\ tcp_pc = "full_send" => pmac'[tcp_p] = pmac[tcp_p]
<1>1. CASE peer_find(m) # {}
  <2>1. p \in Peers /\ pmac[p] = m
    BY <1>1 DEF PeerFor, peer_find
  <2>2. pmac' = pmac /\ cur_retries' = cur_retries
    BY <1>1, <2>1 DEF PeerGet, IInv, TypeOK
  <2> QED
    BY <1>1, <2>1, <2>2 DEF IInv, TypeOK, PeersUnique, PeerPinned, ClearedIfNew, peer_find
<1>2. CASE peer_find(m) = {}
  <2>1. p \in Peers /\ (pmac[p] = NoMac \/ buf_for_peer(pmac[p]) = {})
    BY <1>2, EvictPickIsIdle DEF PeerFor
  <2>2. /\ pmac' = [pmac EXCEPT ![p] = m]
        /\ cur_retries' = [cur_retries EXCEPT ![p] = max_retries]
    BY <1>2 DEF PeerGet
  <2>3. \A s \in Slots : state[s] # "free" => dest[s] # pmac[p]
    BY <2>1, ConstantsAssumption DEF buf_for_peer, IInv, PeerPinned
  <2>4. agg_idx[p] = 0
    BY <2>1, <2>3, AggInTable DEF IInv, StagingOwned
  <2>5. pmac' \in [Peers -> Macs \cup {NoMac}] /\ cur_retries' \in [Peers -> 0 .. RetryLimit]
    BY <2>1, <2>2 DEF IInv, TypeOK
  <2>6. PeersUnique' /\ pmac'[p] = m
    BY <1>2, <2>1, <2>2 DEF IInv, TypeOK, PeersUnique, peer_find
  <2>7. ClearedIfNew(m, p, agg_idx) = agg_idx
    BY <1>2, <2>1, <2>4 DEF ClearedIfNew, IInv, TypeOK
  <2>8. ClearedIfNew(m, p, agg_nsub) \in [Peers -> 0 .. MaxSub]
    BY <1>2, <2>1, ConstantsAssumption DEF ClearedIfNew, IInv, TypeOK
  <2>9. \A s \in Slots : state[s] # "free" => \E q \in Peers : pmac'[q] = dest[s]
    BY <2>1, <2>2, <2>3 DEF IInv, TypeOK, PeerPinned, peer_find
  <2>10. \A q \in Peers : agg_idx[q] # 0 => pmac'[q] = pmac[q]
    BY <2>1, <2>2, <2>4 DEF IInv, TypeOK
  <2>11. tcp_pc = "full_send" => pmac'[tcp_p] = pmac[tcp_p]
    <3> SUFFICES ASSUME tcp_pc = "full_send" PROVE tcp_p # p
      BY <2>1, <2>2 DEF IInv, TypeOK, PeerPinned
    <3>1. tcp_b \in Slots /\ state[tcp_b] # "free" /\ dest[tcp_b] = pmac[tcp_p]
      BY DEF IInv, SendingPinned, TcpSends, ControlInv, PeerPinned
    <3> QED
      BY <2>3, <3>1
  <2> QED
    BY <2>1, <2>5, <2>6, <2>7, <2>8, <2>9, <2>10, <2>11
<1> QED
  BY <1>1, <1>2

\* A frame received makes its sender a peer.
LEMMA RxDataStep ==
  ASSUME IInv, NEW m \in Macs, rx_data(m)
  PROVE  IInv'
<1> USE DEF tcpVars, tickVars, bufVars, cntVars, winVars
<1>1. PICK p \in PeerFor(m) : /\ PeerGet(m, p)
                              /\ agg_idx' = ClearedIfNew(m, p, agg_idx)
                              /\ agg_nsub' = ClearedIfNew(m, p, agg_nsub)
  BY DEF rx_data
<1>2. UNCHANGED <<bufVars, cntVars, winVars, lock, tcpVars, tickVars, agg_idx>>
  BY <1>1, PeerGetFacts DEF rx_data
<1>3. CountersMatch'
  BY <1>2, SameCounts DEF IInv, InFlight
<1>4. TypeOK'
  BY <1>1, <1>2, PeerGetFacts DEF IInv, TypeOK
<1>5. StagingOwned'
  BY <1>1, <1>2, PeerGetFacts DEF IInv, StagingOwned
<1>6. PeerPinned' /\ PeersUnique'
  BY <1>1, <1>2, PeerGetFacts DEF IInv, PeerPinned, peer_find
<1>7. SendingPinned' /\ ControlInv' /\ WindowReopens'
  BY <1>2 DEF IInv, SendingPinned, ControlInv, WindowReopens, TcpSends, TickSends
<1> QED
  BY <1>3, <1>4, <1>5, <1>6, <1>7 DEF IInv

-----------------------------------------------------------------------------
(* Coming back from the radio. *)

\* The slot a task comes back with is in flight now, and nothing else changed.
LEMMA SendDoneFacts ==
  ASSUME IInv, NEW b \in Slots, state[b] = "sending"
  PROVE  /\ SendDone(b) \in [Slots -> BufStates]
         /\ SendDone(b)[b] = "inflight"
         /\ \A s \in Slots : s # b => SendDone(b)[s] = state[s]
BY DEF SendDone, IInv, TypeOK, BufStates

\* A task returns from the radio and finds its slot as it left it.
LEMMA ResumeStep ==
  ASSUME IInv, tx_bundle_end \/ FlushResume \/ ServiceResume \/ HeldResume
  PROVE  IInv'
<1> USE DEF tcpVars, tickVars, peerVars, cntVars, winVars
<1> DEFINE b == IF tx_bundle_end \/ FlushResume THEN tcp_b ELSE tick_b
<1>1. b \in Slots /\ state[b] = "sending" /\ state' = SendDone(b)
  BY DEF IInv, SendingPinned, TcpSends, TickSends, tx_bundle_end, FlushResume,
     ServiceResume, HeldResume
<1>2. UNCHANGED <<dest, retries_used, aged, peerVars, cntVars, winVars>>
  BY DEF tx_bundle_end, FlushResume, ServiceResume, HeldResume
<1>3. /\ state' \in [Slots -> BufStates] /\ state'[b] = "inflight"
      /\ \A s \in Slots : s # b => state'[s] = state[s]
  BY <1>1, SendDoneFacts
<1> HIDE DEF b
<1>4. CountersMatch'
  BY <1>1, <1>2, <1>3, SameCounts DEF IInv, InFlight
<1>5. TypeOK'
  BY <1>2, <1>3, ConstantsAssumption DEF IInv, TypeOK, tx_bundle_end, FlushResume,
     ServiceResume, HeldResume, TcpReturn, TcpWindow, TickAt, TcpPcs, TickPcs, Tasks
<1>6. StagingOwned' /\ PeersUnique' /\ WindowReopens'
  BY <1>1, <1>2, <1>3, AggInTable DEF IInv, StagingOwned, PeersUnique, WindowReopens
<1>7. PeerPinned'
  BY <1>1, <1>2, <1>3 DEF IInv, PeerPinned, peer_find, tx_bundle_end, FlushResume,
     ServiceResume, HeldResume, TcpReturn, TcpWindow
<1>8. SendingPinned'
  <2>1. CASE tx_bundle_end \/ FlushResume
    <3>1. ~TcpSends' /\ b = tcp_b /\ TcpSends /\ UNCHANGED tickVars
      BY <2>1 DEF b, tx_bundle_end, FlushResume, TcpSends, TcpReturn, TcpWindow
    <3> QED
      BY <1>3, <3>1 DEF IInv, SendingPinned, TickSends
  <2>2. CASE ServiceResume \/ HeldResume
    <3>3. ~TickSends' /\ UNCHANGED tcpVars /\ state' = SendDone(tick_b) /\ TickSends
      BY <2>2 DEF ServiceResume, HeldResume, TickSends, TickAt
    <3>4. tick_b \in Slots /\ state[tick_b] = "sending"
      BY <3>3 DEF IInv, SendingPinned
    <3>5. state'[tick_b] = "inflight" /\ \A s \in Slots : s # tick_b => state'[s] = state[s]
      BY <3>3, <3>4, SendDoneFacts
    <3> QED
      BY <3>3, <3>5 DEF IInv, SendingPinned, TcpSends
  <2> QED
    BY <2>1, <2>2
<1>9. ControlInv'
  <2>1. CASE tx_bundle_end
    BY <1>2, <2>1 DEF IInv, ControlInv, tx_bundle_end, TcpReturn
  <2>2. CASE FlushResume
    <3>1. tcp_pc' = "flush" /\ lock' = "tcp" /\ tcp_p' \in 1 .. NPeers + 1
      BY <2>2, ConstantsAssumption DEF IInv, ControlInv, FlushResume, TcpWindow, Peers
    <3> QED
      BY <1>2, <2>2, <3>1 DEF IInv, ControlInv, FlushResume
  <2>3. CASE ServiceResume
    <3>1. tick_pc' = "service" /\ lock' = "tick" /\ tick_i' \in 1 .. NSlots + 1
      BY <2>3, ConstantsAssumption DEF IInv, ControlInv, ServiceResume, TickAt, Slots
    <3> QED
      BY <1>2, <2>3, <3>1 DEF IInv, ControlInv, ServiceResume
  <2>4. CASE HeldResume
    <3>1. tick_pc' = "held" /\ lock' = "tick" /\ tick_i' \in 1 .. NPeers + 1
      BY <2>4, ConstantsAssumption DEF IInv, ControlInv, HeldResume, TickAt, Peers
    <3> QED
      BY <1>2, <2>4, <3>1 DEF IInv, ControlInv, HeldResume
  <2> QED
    BY <2>1, <2>2, <2>3, <2>4
<1> QED
  BY <1>4, <1>5, <1>6, <1>7, <1>8, <1>9 DEF IInv

-----------------------------------------------------------------------------
(* Sending a staged bundle. *)

\* agg_flush_locked detaches the bundle from its peer and sends that slot only.
LEMMA FlushFacts ==
  ASSUME IInv, NEW p \in Peers, agg_idx[p] # 0, agg_flush(p), UNCHANGED <<dest, used_n>>
  PROVE  /\ agg_idx[p] \in Slots
         /\ state[agg_idx[p]] = "staging" /\ state'[agg_idx[p]] = "sending"
         /\ \A s \in Slots : s # agg_idx[p] => state'[s] = state[s]
         /\ state' \in [Slots -> BufStates]
         /\ retries_used' \in [Slots -> 0 .. RetryLimit]
         /\ aged' \in [Slots -> BOOLEAN]
         /\ agg_idx' \in [Peers -> 0 .. NSlots]
         /\ agg_nsub' \in [Peers -> 0 .. MaxSub]
         /\ \A q \in Peers : agg_idx'[q] = IF q = p THEN 0 ELSE agg_idx[q]
         /\ CountersMatch'
<1> DEFINE b == agg_idx[p]
<1>1. b \in Slots /\ state[b] = "staging"
  BY AggInTable DEF IInv, StagingOwned
<1>2. /\ state' = [state EXCEPT ![b] = "sending"]
      /\ retries_used' = [retries_used EXCEPT ![b] = 0]
      /\ aged' = [aged EXCEPT ![b] = FALSE]
      /\ agg_idx' = [agg_idx EXCEPT ![p] = 0]
      /\ agg_nsub' = [agg_nsub EXCEPT ![p] = 0]
      /\ inflight_n' = inflight_n + 1
  BY DEF agg_flush
<1>3. /\ state' \in [Slots -> BufStates] /\ state'[b] = "sending"
      /\ \A s \in Slots : s # b => state'[s] = state[s]
  BY <1>1, <1>2 DEF IInv, TypeOK, BufStates
<1>4. /\ retries_used' \in [Slots -> 0 .. RetryLimit]
      /\ agg_idx' \in [Peers -> 0 .. NSlots]
      /\ agg_nsub' \in [Peers -> 0 .. MaxSub]
      /\ \A q \in Peers : agg_idx'[q] = IF q = p THEN 0 ELSE agg_idx[q]
  BY <1>1, <1>2, ConstantsAssumption DEF IInv, TypeOK
<1>5. aged' \in [Slots -> BOOLEAN]
  BY <1>1, <1>2, Zenon DEF IInv, TypeOK
<1>6. Used' = Used
  BY <1>1, <1>3 DEF Used
<1>7. Flying' = Flying \cup {b} /\ b \notin Flying
  BY <1>1, <1>3 DEF Flying, InFlight
<1>8. Cardinality(Flying') = Cardinality(Flying) + 1
  BY <1>1, <1>7, CountAdd DEF Flying
<1>9. CountersMatch'
  BY <1>2, <1>6, <1>8 DEF IInv, CountersMatch, Used, Flying
<1> QED
  BY <1>1, <1>3, <1>4, <1>5, <1>9

\* It leaves every other bundle with its peer.
LEMMA FlushOwned ==
  ASSUME IInv, NEW p \in Peers, agg_idx[p] # 0, agg_flush(p), UNCHANGED <<dest, used_n>>,
         \A q \in Peers : agg_idx[q] # 0 => pmac'[q] = pmac[q]
  PROVE  StagingOwned'
<1>1. \A q \in Peers : q # p /\ agg_idx[q] # 0 => agg_idx[q] # agg_idx[p]
  BY DEF IInv, StagingOwned
<1>2. \A q \in Peers : agg_idx[q] # 0 => agg_idx[q] \in Slots
  BY AggInTable DEF IInv
<1> QED
  BY <1>1, <1>2, FlushFacts DEF IInv, StagingOwned

\* A flush by either task from inside its loop.
LEMMA FlushPeerStep ==
  ASSUME IInv, FlushPeer
  PROVE  IInv'
<1> USE DEF tcpVars, tickVars, winVars
<1>1. tcp_p \in Peers /\ lock = "tcp" /\ ~TcpSends /\ UNCHANGED tickVars
  BY ConstantsAssumption DEF IInv, ControlInv, FlushPeer, Peers, TcpSends
<1>2. CASE /\ pmac[tcp_p] # NoMac /\ agg_idx[tcp_p] # 0 /\ WindowOpen
           /\ agg_flush(tcp_p)
           /\ lock' = "none"
           /\ TcpWindow("flush_send", pmac[tcp_p], tcp_p, agg_idx[tcp_p])
  <2>1. UNCHANGED <<dest, used_n, pmac, cur_retries, winVars, tickVars>>
    BY DEF FlushPeer
  <2>2. TypeOK' /\ CountersMatch'
    <3>1. inflight_n' \in Nat
      BY <1>2 DEF IInv, TypeOK, agg_flush
    <3> QED
      BY <1>1, <1>2, <2>1, <3>1, FlushFacts DEF IInv, TypeOK, TcpWindow, Tasks, TcpPcs
  <2>3. StagingOwned'
    BY <1>1, <1>2, <2>1, FlushOwned
  <2>4. SendingPinned'
    BY <1>1, <1>2, <2>1, FlushFacts DEF IInv, SendingPinned, TcpSends, TickSends, TcpWindow
  <2>5. PeerPinned' /\ PeersUnique' /\ WindowReopens'
    BY <1>1, <1>2, <2>1, FlushFacts DEF IInv, PeerPinned, PeersUnique, WindowReopens,
       peer_find, TcpWindow
  <2>6. ControlInv'
    <3>1. tcp_pc' = "flush_send" /\ tcp_p' \in Peers /\ lock' = "none"
      BY <1>1, <1>2 DEF TcpWindow
    <3> QED
      BY <1>1, <2>1, <3>1 DEF IInv, ControlInv
  <2> QED
    BY <2>2, <2>3, <2>4, <2>5, <2>6 DEF IInv
<1>3. CASE /\ TcpWindow("flush", NoMac, tcp_p + 1, 0)
           /\ UNCHANGED <<state, retries_used, aged, inflight_n, agg_idx, agg_nsub, lock>>
  <2>1. UNCHANGED <<bufVars, peerVars, cntVars, winVars, tickVars, lock>>
    BY <1>3 DEF FlushPeer, bufVars, peerVars, cntVars
  <2>2. CountersMatch'
    BY <2>1, SameCounts DEF IInv, bufVars, cntVars, InFlight
  <2>3. TypeOK'
    <3>1. tcp_pc' \in TcpPcs /\ tcp_m' = NoMac /\ tcp_p' \in Nat /\ tcp_b' \in 0 .. NSlots
      BY <1>1, <1>3, ConstantsAssumption DEF TcpWindow, Peers, TcpPcs
    <3> QED
      BY <2>1, <3>1 DEF IInv, bufVars, peerVars, cntVars, TypeOK
  <2>6. StagingOwned' /\ PeersUnique' /\ WindowReopens'
    BY <2>1 DEF IInv, bufVars, peerVars, StagingOwned, PeersUnique, WindowReopens
  <2>4. SendingPinned' /\ PeerPinned'
    BY <1>1, <1>3, <2>1 DEF IInv, bufVars, peerVars, SendingPinned, PeerPinned, TcpSends,
       TickSends, TcpWindow, peer_find
  <2>5. ControlInv'
    <3>1. tcp_pc' = "flush" /\ tcp_p' \in 1 .. NPeers + 1
      BY <1>1, <1>3, ConstantsAssumption DEF TcpWindow, Peers
    <3> QED
      BY <1>1, <2>1, <3>1 DEF IInv, ControlInv, bufVars, peerVars
  <2> QED
    BY <2>2, <2>3, <2>4, <2>5, <2>6 DEF IInv
<1> QED
  BY <1>2, <1>3 DEF FlushPeer
-----------------------------------------------------------------------------
(* The tick task. *)

\* A step that leaves the tables alone and moves the tick on inside its loop.
LEMMA TickMoveStep ==
  ASSUME IInv, UNCHANGED <<bufVars, peerVars, cntVars, winVars, tcpVars, lock>>,
         tick_pc \in {"service", "held"}, TickAt(tick_pc, tick_i + 1, 0),
         tick_pc = "service" => tick_i \in Slots,
         tick_pc = "held" => tick_i \in Peers
  PROVE  IInv'
<1> USE DEF tcpVars, winVars
<1>1. CountersMatch'
  BY SameCounts DEF IInv, bufVars, cntVars, InFlight
<1>2. TypeOK'
  <2>1. tick_pc' \in TickPcs /\ tick_i' \in Nat /\ tick_b' \in 0 .. NSlots
    BY ConstantsAssumption DEF IInv, TypeOK, TickAt, TickPcs
  <2> QED
    BY <2>1 DEF IInv, bufVars, peerVars, cntVars, TypeOK
<1>3. StagingOwned' /\ PeersUnique' /\ WindowReopens'
  BY DEF IInv, bufVars, peerVars, StagingOwned, PeersUnique, WindowReopens
<1>4. SendingPinned' /\ PeerPinned'
  BY DEF IInv, bufVars, peerVars, SendingPinned, PeerPinned, TcpSends, TickSends, TickAt,
     peer_find
<1>5. ControlInv'
  <2>1. /\ tick_pc' = tick_pc
        /\ tick_pc = "service" => tick_i' \in 1 .. NSlots + 1
        /\ tick_pc = "held" => tick_i' \in 1 .. NPeers + 1
    BY ConstantsAssumption DEF TickAt, Slots, Peers
  <2> QED
    BY <2>1 DEF IInv, ControlInv, bufVars, peerVars
<1> QED
  BY <1>1, <1>2, <1>3, <1>4, <1>5 DEF IInv

\* The tick drops a buffer nobody is sending: an in-flight one past its limits,
\* or, with agg_reset, the bundle of the peer it is looking at.
LEMMA TickDropStep ==
  ASSUME IInv, NEW b \in Slots, buf_release({b}),
         UNCHANGED <<pmac, cur_retries, winVars, tcpVars, lock>>,
         tick_pc \in {"service", "held"}, TickAt(tick_pc, tick_i + 1, 0),
         \/ /\ tick_pc = "service" /\ tick_i \in Slots /\ state[b] = "inflight"
            /\ UNCHANGED <<agg_idx, agg_nsub>>
         \/ /\ tick_pc = "held" /\ tick_i \in Peers /\ agg_idx[tick_i] = b
            /\ agg_idx' = [agg_idx EXCEPT ![tick_i] = 0]
            /\ agg_nsub' = [agg_nsub EXCEPT ![tick_i] = 0]
  PROVE  IInv'
<1> USE DEF tcpVars, winVars
<1>1. b # 0 /\ state[b] \in {"inflight", "staging"}
  BY ConstantsAssumption DEF IInv, StagingOwned, Slots
<1>2. CountersMatch'
  BY <1>1, ReleaseCounts DEF IInv
<1>3. /\ state' \in [Slots -> BufStates]
      /\ dest' \in [Slots -> Macs \cup {NoMac}]
      /\ retries_used' \in [Slots -> 0 .. RetryLimit]
      /\ aged' \in [Slots -> BOOLEAN]
      /\ state'[b] = "free"
      /\ \A s \in Slots : s # b => state'[s] = state[s] /\ dest'[s] = dest[s]
  BY ReleaseType DEF IInv
<1>4. used_n' \in Nat /\ inflight_n' \in Nat
  BY <1>2, TableFinite DEF CountersMatch
<1>5. tick_pc' = tick_pc /\ tick_i' \in Nat /\ tick_b' \in 0 .. NSlots
  BY ConstantsAssumption DEF IInv, TypeOK, TickAt
<1>6. agg_idx' \in [Peers -> 0 .. NSlots] /\ agg_nsub' \in [Peers -> 0 .. MaxSub]
  BY ConstantsAssumption DEF IInv, TypeOK
<1>7. TypeOK'
  BY <1>3, <1>4, <1>5, <1>6 DEF IInv, TypeOK
<1>8. \A q \in Peers : agg_idx'[q] # 0 => agg_idx'[q] = agg_idx[q] /\ agg_idx[q] # b
  BY DEF IInv, TypeOK, StagingOwned
<1>9. \A s \in Slots : s # b /\ state[s] = "staging" => \E q \in Peers : agg_idx'[q] = s
  BY DEF IInv, TypeOK, StagingOwned
<1>10. StagingOwned'
  BY <1>3, <1>8, <1>9, AggInTable DEF IInv, StagingOwned
<1>11. SendingPinned'
  BY <1>1, <1>3, <1>5 DEF IInv, SendingPinned, TcpSends, TickSends
<1>12. PeerPinned' /\ PeersUnique' /\ WindowReopens'
  BY <1>3 DEF IInv, PeerPinned, PeersUnique, WindowReopens, peer_find
<1>13. ControlInv'
  <2>1. /\ tick_pc = "service" => tick_i' \in 1 .. NSlots + 1
        /\ tick_pc = "held" => tick_i' \in 1 .. NPeers + 1
    BY ConstantsAssumption DEF TickAt, Slots, Peers
  <2>2. tcp_pc = "full_send" => /\ tcp_p \in Peers /\ tcp_b \in Slots /\ tcp_b # b
                                /\ agg_idx[tcp_p] = 0
    BY <1>1 DEF IInv, SendingPinned, TcpSends, PeerPinned, ControlInv
  <2>3. tcp_pc = "full_send" => agg_idx'[tcp_p] = 0 /\ dest'[tcp_b] = dest[tcp_b]
    BY <1>3, <1>8, <2>2
  <2> QED
    BY <1>5, <2>1, <2>3 DEF IInv, ControlInv
<1> QED
  BY <1>2, <1>7, <1>10, <1>11, <1>12, <1>13 DEF IInv

\* One iteration of tick_service_bufs.
LEMMA TickServiceStep ==
  ASSUME IInv, TickService
  PROVE  IInv'
<1> USE DEF tcpVars
<1>1. tick_i \in Slots /\ tick_pc = "service" /\ lock = "tick" /\ ~TickSends
  BY ConstantsAssumption DEF IInv, ControlInv, TickService, Slots, TickSends
<1>2. UNCHANGED <<peerVars, window, max_retries, tcpVars>>
  BY DEF TickService
<1>3. CASE state[tick_i] = "inflight" /\ ServiceDrop(tick_i)
  BY <1>1, <1>2, <1>3, TickDropStep DEF ServiceDrop, peerVars, winVars
<1>4. CASE ServiceSkip(tick_i)
  BY <1>1, <1>2, <1>4, TickMoveStep DEF ServiceSkip, winVars
<1>5. CASE state[tick_i] = "inflight" /\ ServiceRetransmit(tick_i)
  <2>1. /\ state' \in [Slots -> BufStates] /\ state'[tick_i] = "sending"
        /\ \A s \in Slots : s # tick_i => state'[s] = state[s]
    BY <1>1, <1>5 DEF IInv, TypeOK, ServiceRetransmit, BufStates
  <2>2. CountersMatch'
    BY <1>1, <1>5, <2>1, SameCounts DEF IInv, InFlight, ServiceRetransmit
  <2>3. WindowReopens' /\ cwnd' \in Nat
    BY <1>2, <1>5, ConstantsAssumption DEF IInv, TypeOK, WindowReopens, ServiceRetransmit,
       cwnd_on_retrans_timeout, Max2
  <2>4. retries_used' \in [Slots -> 0 .. RetryLimit]
    BY <1>1, <1>5, ConstantsAssumption DEF IInv, TypeOK, ServiceRetransmit
  <2>5. tick_pc' = "service_send" /\ tick_i' = tick_i /\ tick_b' = tick_i /\ lock' = "none"
    BY <1>5 DEF ServiceRetransmit, TickAt
  <2>6. UNCHANGED <<dest, aged, cntVars>>
    BY <1>5 DEF ServiceRetransmit
  <2>7. tick_pc' \in TickPcs /\ tick_i' \in Nat /\ tick_b' \in 0 .. NSlots /\ lock' \in Tasks
    BY <1>1, <2>5, ConstantsAssumption DEF TickPcs, Tasks, Slots
  <2>8. TypeOK'
    BY <1>2, <2>1, <2>3, <2>4, <2>6, <2>7 DEF IInv, TypeOK, peerVars, cntVars
  <2>9. StagingOwned' /\ PeersUnique'
    BY <1>1, <1>2, <1>5, <2>1, <2>6, AggInTable DEF IInv, StagingOwned, PeersUnique, peerVars
  <2>10. SendingPinned'
    BY <1>1, <1>2, <1>5, <2>1, <2>5 DEF IInv, SendingPinned, TcpSends, TickSends
  <2>11. PeerPinned'
    BY <1>1, <1>2, <1>5, <2>1, <2>6 DEF IInv, PeerPinned, peer_find, peerVars
  <2>12. ControlInv'
    BY <1>1, <1>2, <2>5, <2>6 DEF IInv, ControlInv, peerVars
  <2> QED
    BY <2>2, <2>3, <2>8, <2>9, <2>10, <2>11, <2>12 DEF IInv
<1> QED
  BY <1>3, <1>4, <1>5 DEF TickService

\* One iteration of tick_flush_held_bundles.
LEMMA TickHeldStep ==
  ASSUME IInv, TickHeld
  PROVE  IInv'
<1> USE DEF tcpVars, winVars
<1> DEFINE b == agg_idx[tick_i]
<1>1. tick_i \in Peers /\ tick_pc = "held" /\ lock = "tick" /\ ~TickSends
  BY ConstantsAssumption DEF IInv, ControlInv, TickHeld, Peers, TickSends
<1>2. UNCHANGED <<pmac, cur_retries, winVars, tcpVars>>
  BY DEF TickHeld
<1>3. CASE /\ pmac[tick_i] # NoMac /\ b # 0 /\ WindowOpen
           /\ agg_flush(tick_i)
           /\ lock' = "none" /\ TickAt("held_send", tick_i, b)
           /\ UNCHANGED <<dest, used_n>>
  <2>1. tick_pc' = "held_send" /\ tick_i' = tick_i /\ tick_b' = b /\ lock' = "none"
    BY <1>3 DEF TickAt
  <2>2. b \in Slots /\ CountersMatch'
    BY <1>1, <1>3, FlushFacts
  <2>3. tick_pc' \in TickPcs /\ tick_i' \in Nat /\ tick_b' \in 0 .. NSlots /\ lock' \in Tasks
    BY <1>1, <2>1, <2>2, ConstantsAssumption DEF TickPcs, Tasks, Slots, Peers
  <2>4. inflight_n' \in Nat
    BY <1>3 DEF IInv, TypeOK, agg_flush
  <2>5. TypeOK'
    BY <1>1, <1>2, <1>3, <2>3, <2>4, FlushFacts DEF IInv, TypeOK
  <2>6. StagingOwned'
    BY <1>1, <1>2, <1>3, FlushOwned
  <2>7. SendingPinned'
    BY <1>1, <1>2, <1>3, <2>1, <2>2, FlushFacts DEF IInv, SendingPinned, TcpSends, TickSends
  <2>8. PeerPinned' /\ PeersUnique' /\ WindowReopens'
    BY <1>1, <1>2, <1>3, FlushFacts DEF IInv, PeerPinned, PeersUnique, WindowReopens,
       peer_find
  <2>9. ControlInv'
    <3>1. tcp_pc = "full_send" => tcp_p \in Peers /\ agg_idx'[tcp_p] = 0
      BY <1>1, <1>3, FlushFacts DEF IInv, PeerPinned, ControlInv
    <3> QED
      BY <1>1, <1>2, <1>3, <2>1, <3>1 DEF IInv, ControlInv
  <2> QED
    BY <2>2, <2>5, <2>6, <2>7, <2>8, <2>9 DEF IInv
<1>4. CASE /\ pmac[tick_i] # NoMac /\ b # 0 /\ buf_release({b})
           /\ agg_idx' = [agg_idx EXCEPT ![tick_i] = 0]
           /\ agg_nsub' = [agg_nsub EXCEPT ![tick_i] = 0]
           /\ TickAt("held", tick_i + 1, 0) /\ UNCHANGED lock
  <2>1. b \in Slots
    BY <1>1, <1>4, AggInTable DEF IInv
  <2> QED
    BY <1>1, <1>2, <1>4, <2>1, TickDropStep
<1>5. CASE /\ TickAt("held", tick_i + 1, 0)
           /\ UNCHANGED <<bufVars, cntVars, agg_idx, agg_nsub, lock>>
  BY <1>1, <1>2, <1>5, TickMoveStep DEF peerVars
<1> QED
  BY <1>3, <1>4, <1>5 DEF TickHeld
-----------------------------------------------------------------------------
(* halow_ack_tx. *)

\* What tx_bundle_locked may rely on when it comes to stage a frame for m: p is
\* m's entry, st is the table with no buffer of the TCP task left in "sending".
StageContext(m, p, st, ns) ==
  /\ m \in Macs /\ p \in Peers /\ pmac'[p] = m
  /\ pmac' \in [Peers -> Macs \cup {NoMac}]
  /\ cur_retries' \in [Peers -> 0 .. RetryLimit]
  /\ ns \in [Peers -> 0 .. MaxSub]
  /\ PeersUnique'
  /\ \A s \in Slots : state[s] # "free" => \E q \in Peers : pmac'[q] = dest[s]
  /\ \A q \in Peers : agg_idx[q] # 0 => pmac'[q] = pmac[q]
  /\ st \in [Slots -> BufStates]
  /\ \A s \in Slots : /\ st[s] = "free" <=> state[s] = "free"
                      /\ st[s] = "staging" <=> state[s] = "staging"
                      /\ st[s] = "sending" => TickSends /\ s = tick_b
  /\ TickSends => tick_b \in Slots /\ st[tick_b] = "sending"
  /\ lock = "none"
  /\ UNCHANGED <<winVars, lock, tickVars>>

\* The part of the invariant that only depends on that context.
LEMMA StageFrame ==
  ASSUME IInv, NEW m, NEW p, NEW st, NEW ns, StageContext(m, p, st, ns)
  PROVE  /\ WindowReopens' /\ PeersUnique'
         /\ TickSends' = TickSends
         /\ tcp_pc' \in {"idle", "tail_send"} => ControlInv'
<1> USE DEF StageContext, winVars, tickVars
<1>1. WindowReopens' /\ PeersUnique' /\ TickSends' = TickSends
  BY DEF IInv, WindowReopens, TickSends
<1>2. ASSUME tcp_pc' \in {"idle", "tail_send"} PROVE ControlInv'
  BY <1>2 DEF IInv, ControlInv
<1> QED
  BY <1>1, <1>2

\* A frame that is turned away changes nothing but the position of the TCP task.
LEMMA ThrottleStep ==
  ASSUME IInv, NEW m, NEW p, NEW st, NEW ns, StageContext(m, p, st, ns),
         Throttle(st, agg_idx, ns)
  PROVE  IInv'
<1> USE DEF StageContext, Throttle, TcpReturn
<1>1. state' = st /\ UNCHANGED <<dest, retries_used, aged, agg_idx, used_n, inflight_n>>
  OBVIOUS
<1>2. \A s \in Slots : InFlight(s)' <=> InFlight(s)
  BY DEF IInv, TypeOK, BufStates, InFlight
<1>3. CountersMatch'
  BY <1>1, <1>2, SameCounts DEF IInv, cntVars
<1>4. TypeOK'
  BY ConstantsAssumption DEF IInv, TypeOK, winVars, tickVars, TcpPcs
<1>5. StagingOwned'
  BY AggInTable DEF IInv, StagingOwned
<1>6. SendingPinned'
  BY DEF SendingPinned, TcpSends, TickSends, tickVars
<1>7. PeerPinned'
  BY DEF IInv, PeerPinned, peer_find
<1>8. WindowReopens' /\ PeersUnique' /\ ControlInv'
  BY StageFrame
<1> QED
  BY <1>3, <1>4, <1>5, <1>6, <1>7, <1>8 DEF IInv

\* Appending a frame to its peer's bundle, which may go out at once.
LEMMA StageStep ==
  ASSUME IInv, NEW m, NEW p, NEW st, NEW ns, StageContext(m, p, st, ns),
         agg_idx[p] # 0 => ns[p] < MaxSub,
         StageAppend(m, p, st, agg_idx, ns)
  PROVE  IInv'
<1> DEFINE b == IF agg_idx[p] # 0 THEN agg_idx[p] ELSE FirstFree(st)
           n == IF agg_idx[p] # 0 THEN ns[p] + 1 ELSE 1
<1>1. b \in Slots
      /\ (agg_idx[p] # 0 => state[b] = "staging" /\ dest[b] = m)
      /\ (agg_idx[p] = 0 => state[b] = "free")
  <2>1. CASE agg_idx[p] # 0
    BY <2>1, AggInTable DEF IInv, StagingOwned, StageContext
  <2>2. CASE agg_idx[p] = 0
    <3>1. FirstFree(st) \in Free(st)
      BY <2>2, FirstFreeIsFree DEF StageAppend
    <3> QED
      BY <2>2, <3>1 DEF Free, StageContext
  <2> QED
    BY <2>1, <2>2
<1>2. n \in 0 .. MaxSub
  BY ConstantsAssumption DEF StageContext
<1>3. /\ dest' = IF agg_idx[p] # 0 THEN dest ELSE [dest EXCEPT ![b] = m]
      /\ retries_used' = [retries_used EXCEPT ![b] = 0]
      /\ used_n' = IF agg_idx[p] = 0 THEN used_n + 1 ELSE used_n
  BY DEF StageAppend
<1>4. \/ /\ state' = [st EXCEPT ![b] = "sending"]
         /\ inflight_n' = inflight_n + 1
         /\ agg_idx' = [agg_idx EXCEPT ![p] = 0]
         /\ agg_nsub' = [ns EXCEPT ![p] = 0]
         /\ aged' = [aged EXCEPT ![b] = FALSE]
         /\ TcpWindow("tail_send", m, p, b)
      \/ /\ state' = [st EXCEPT ![b] = "staging"]
         /\ agg_idx' = [agg_idx EXCEPT ![p] = b]
         /\ agg_nsub' = [ns EXCEPT ![p] = n]
         /\ TcpReturn
         /\ UNCHANGED <<inflight_n, aged>>
  BY DEF StageAppend
<1> HIDE DEF b, n
<1>5. /\ dest'[b] = m
      /\ \A s \in Slots : s # b => dest'[s] = dest[s]
      /\ dest' \in [Slots -> Macs \cup {NoMac}]
      /\ retries_used' \in [Slots -> 0 .. RetryLimit]
  BY <1>1, <1>3, ConstantsAssumption DEF IInv, TypeOK, StageContext
<1>6. aged' \in [Slots -> BOOLEAN]
  <2>1. aged' = aged \/ aged' = [aged EXCEPT ![b] = FALSE]
    BY <1>4
  <2> QED
    BY <2>1, Zenon DEF IInv, TypeOK
<1>7. /\ state' \in [Slots -> BufStates]
      /\ state'[b] \in {"sending", "staging"}
      /\ \A s \in Slots : s # b => state'[s] = st[s]
      /\ state'[b] = "sending" => /\ tcp_pc' = "tail_send" /\ tcp_b' = b
                                  /\ inflight_n' = inflight_n + 1
      /\ state'[b] = "staging" => tcp_pc' = "idle" /\ inflight_n' = inflight_n
  BY <1>1, <1>4 DEF StageContext, BufStates, TcpWindow, TcpReturn
<1>8. /\ agg_idx' \in [Peers -> 0 .. NSlots] /\ agg_nsub' \in [Peers -> 0 .. MaxSub]
      /\ \A q \in Peers : q # p => agg_idx'[q] = agg_idx[q]
      /\ agg_idx'[p] = IF state'[b] = "staging" THEN b ELSE 0
  <2>1. agg_idx \in [Peers -> 0 .. NSlots] /\ st \in [Slots -> BufStates] /\ p \in Peers
        /\ ns \in [Peers -> 0 .. MaxSub]
    BY DEF IInv, TypeOK, StageContext
  <2>2. CASE state' = [st EXCEPT ![b] = "sending"]
    <3>1. agg_idx' = [agg_idx EXCEPT ![p] = 0] /\ agg_nsub' = [ns EXCEPT ![p] = 0]
          /\ state'[b] = "sending"
      BY <1>1, <1>4, <2>1, <2>2
    <3> QED
      BY <2>1, <3>1, ConstantsAssumption
  <2>3. CASE state' = [st EXCEPT ![b] = "staging"]
    <3>1. agg_idx' = [agg_idx EXCEPT ![p] = b] /\ agg_nsub' = [ns EXCEPT ![p] = n]
          /\ state'[b] = "staging" /\ b \in 0 .. NSlots
      BY <1>1, <1>4, <2>1, <2>3, ConstantsAssumption DEF Slots
    <3> QED
      BY <1>2, <2>1, <3>1
  <2> QED
    BY <1>4, <2>2, <2>3
<1>9. /\ tcp_pc' \in {"idle", "tail_send"} /\ tcp_m' \in Macs \cup {NoMac}
      /\ tcp_p' \in Nat /\ tcp_b' \in 0 .. NSlots
  BY <1>1, <1>4, ConstantsAssumption DEF StageContext, TcpWindow, TcpReturn, Slots, Peers
<1>10. CountersMatch'
  <2>1. \A s \in Slots : s # b => /\ (state'[s] = "free" <=> state[s] = "free")
                                  /\ (InFlight(s)' <=> InFlight(s))
    BY <1>7 DEF IInv, TypeOK, BufStates, StageContext, InFlight
  <2>2. used_n' = Cardinality(Used')
    <3>1. CASE agg_idx[p] # 0
      <4>1. Used' = Used
        BY <1>1, <1>7, <2>1, <3>1 DEF Used
      <4> QED
        BY <1>3, <3>1, <4>1 DEF IInv, CountersMatch, Used
    <3>2. CASE agg_idx[p] = 0
      <4>1. Used' = Used \cup {b} /\ b \notin Used
        BY <1>1, <1>7, <2>1, <3>2 DEF Used
      <4>2. Cardinality(Used') = Cardinality(Used) + 1
        BY <1>1, <4>1, CountAdd DEF Used
      <4> QED
        BY <1>3, <3>2, <4>2 DEF IInv, CountersMatch, Used
    <3> QED
      BY <3>1, <3>2
  <2>3. ~InFlight(b)
    BY <1>1 DEF InFlight
  <2>4. inflight_n' = Cardinality(Flying')
    <3>1. CASE state'[b] = "staging"
      <4>1. Flying' = Flying
        BY <1>7, <2>1, <2>3, <3>1 DEF Flying, InFlight
      <4> QED
        BY <1>7, <3>1, <4>1 DEF IInv, CountersMatch, Flying
    <3>2. CASE state'[b] = "sending"
      <4>1. Flying' = Flying \cup {b} /\ b \notin Flying
        BY <1>1, <1>7, <2>1, <2>3, <3>2 DEF Flying, InFlight
      <4>2. Cardinality(Flying') = Cardinality(Flying) + 1
        BY <1>1, <4>1, CountAdd DEF Flying
      <4> QED
        BY <1>7, <3>2, <4>2 DEF IInv, CountersMatch, Flying
    <3> QED
      BY <1>7, <3>1, <3>2
  <2> QED
    BY <2>2, <2>4 DEF CountersMatch, Used, Flying
<1>11. used_n' \in Nat /\ inflight_n' \in Nat
  BY <1>10, TableFinite DEF CountersMatch
<1>12. TypeOK'
  BY <1>5, <1>6, <1>7, <1>8, <1>9, <1>11 DEF IInv, TypeOK, StageContext, winVars, tickVars,
     TcpPcs
<1>13. StagingOwned'
  <2>1. \A q \in Peers : q # p /\ agg_idx[q] # 0 => agg_idx[q] \in Slots /\ agg_idx[q] # b
    <3>1. \A q \in Peers : agg_idx[q] # 0 => agg_idx[q] \in Slots /\ state[agg_idx[q]] = "staging"
      BY AggInTable DEF IInv, StagingOwned
    <3>2. CASE agg_idx[p] = 0
      BY <1>1, <3>1, <3>2
    <3>3. CASE agg_idx[p] # 0
      BY <3>1, <3>3 DEF b, IInv, StagingOwned, StageContext
    <3> QED
      BY <3>2, <3>3
  <2>2. \A q \in Peers : agg_idx'[q] # 0 => /\ state'[agg_idx'[q]] = "staging"
                                            /\ dest'[agg_idx'[q]] = pmac'[q]
                                            /\ pmac'[q] # NoMac
    BY <1>5, <1>7, <1>8, <2>1, ConstantsAssumption DEF IInv, StagingOwned, StageContext
  <2>3. \A s \in Slots : state'[s] = "staging" => \E q \in Peers : agg_idx'[q] = s
    <3> SUFFICES ASSUME NEW s \in Slots, state'[s] = "staging"
                 PROVE  \E q \in Peers : agg_idx'[q] = s
      OBVIOUS
    <3>1. CASE s = b
      BY <1>8, <3>1 DEF StageContext
    <3>2. CASE s # b
      <4>1. PICK q \in Peers : agg_idx[q] = s
        BY <1>7, <3>2 DEF IInv, StagingOwned, StageContext
      <4>2. q # p
        BY <3>2, <4>1, ConstantsAssumption DEF b, Slots
      <4> QED
        BY <1>8, <4>1, <4>2
    <3> QED
      BY <3>1, <3>2
  <2>4. \A q, r \in Peers : agg_idx'[q] # 0 /\ agg_idx'[q] = agg_idx'[r] => q = r
    BY <1>8, <2>1 DEF IInv, StagingOwned
  <2> QED
    BY <2>2, <2>3, <2>4 DEF StagingOwned
<1>14. SendingPinned'
  BY <1>1, <1>7, <1>9 DEF StageContext, SendingPinned, TcpSends, TickSends, tickVars, IInv
<1>15. PeerPinned'
  BY <1>1, <1>5, <1>7, <1>9 DEF IInv, StageContext, PeerPinned, peer_find
<1>16. WindowReopens' /\ PeersUnique' /\ ControlInv'
  BY <1>9, StageFrame
<1> QED
  BY <1>10, <1>12, <1>13, <1>14, <1>15, <1>16 DEF IInv

\* The entry of ack_tx_uc up to the first point where the mutex is given up.
LEMMA TxStep ==
  ASSUME IInv, NEW m \in Macs, halow_ack_tx(m)
  PROVE  IInv'
<1> USE DEF tickVars, winVars
<1>1. PICK p \in PeerFor(m) :
        /\ PeerGet(m, p)
        /\ \/ /\ ClearedIfNew(m, p, agg_idx)[p] # 0 => ClearedIfNew(m, p, agg_nsub)[p] < MaxSub
              /\ StageAppend(m, p, state, ClearedIfNew(m, p, agg_idx),
                             ClearedIfNew(m, p, agg_nsub))
           \/ /\ ClearedIfNew(m, p, agg_idx)[p] # 0 /\ WindowOpen
              /\ agg_flush(p)
              /\ TcpWindow("full_send", m, p, ClearedIfNew(m, p, agg_idx)[p])
              /\ UNCHANGED <<dest, used_n>>
           \/ Throttle(state, ClearedIfNew(m, p, agg_idx), ClearedIfNew(m, p, agg_nsub))
  BY DEF halow_ack_tx
<1> DEFINE ns == ClearedIfNew(m, p, agg_nsub)
<1>2. ClearedIfNew(m, p, agg_idx) = agg_idx /\ p \in Peers
  BY <1>1, PeerGetFacts
<1>3. tcp_pc = "idle" /\ lock = "none" /\ UNCHANGED <<winVars, lock, tickVars>>
  BY DEF halow_ack_tx
<1>4. StageContext(m, p, state, ns)
  <2>1. /\ \A s \in Slots : state[s] = "sending" => TickSends /\ s = tick_b
        /\ TickSends => tick_b \in Slots /\ state[tick_b] = "sending"
    BY <1>3 DEF IInv, SendingPinned, TcpSends
  <2> QED
    BY <1>1, <1>3, <2>1, PeerGetFacts DEF StageContext, IInv, TypeOK
<1>5. CASE /\ agg_idx[p] # 0 => ns[p] < MaxSub
           /\ StageAppend(m, p, state, agg_idx, ns)
  BY <1>4, <1>5, StageStep
<1>6. CASE Throttle(state, agg_idx, ns)
  BY <1>4, <1>6, ThrottleStep
<1>7. CASE /\ agg_idx[p] # 0 /\ agg_flush(p)
           /\ TcpWindow("full_send", m, p, agg_idx[p])
           /\ UNCHANGED <<dest, used_n>>
  <2> DEFINE b == agg_idx[p]
  <2>1. tcp_pc' = "full_send" /\ tcp_m' = m /\ tcp_p' = p /\ tcp_b' = b
    BY <1>7 DEF TcpWindow
  <2>2. b \in Slots /\ CountersMatch'
    BY <1>2, <1>7, FlushFacts
  <2>3. inflight_n' \in Nat
    BY <1>7 DEF IInv, TypeOK, agg_flush
  <2>4. TypeOK'
    <3>1. tcp_pc' \in TcpPcs /\ tcp_m' \in Macs /\ tcp_p' \in Nat /\ tcp_b' \in 0 .. NSlots
      BY <1>2, <2>1, <2>2, ConstantsAssumption DEF TcpPcs, Peers, Slots
    <3> QED
      BY <1>2, <1>3, <1>4, <1>7, <2>3, <3>1, FlushFacts DEF IInv, TypeOK, StageContext
  <2>5. StagingOwned'
    BY <1>2, <1>4, <1>7, FlushOwned DEF StageContext
  <2>6. SendingPinned'
    BY <1>2, <1>3, <1>7, <2>1, <2>2, FlushFacts DEF IInv, SendingPinned, TcpSends, TickSends
  <2>7. PeerPinned' /\ PeersUnique' /\ WindowReopens'
    <3>1. PeerPinned'
      BY <1>2, <1>4, <1>7, <2>1, FlushFacts DEF IInv, PeerPinned, StageContext, peer_find
    <3> QED
      BY <1>4, <3>1, StageFrame
  <2>8. dest'[b] = m /\ agg_idx'[p] = 0
    BY <1>2, <1>4, <1>7, FlushFacts DEF IInv, StagingOwned, StageContext
  <2>9. ControlInv'
    BY <1>3, <2>1, <2>8 DEF IInv, ControlInv
  <2> QED
    BY <2>2, <2>4, <2>5, <2>6, <2>7, <2>9 DEF IInv
<1> QED
  BY <1>1, <1>2, <1>5, <1>6, <1>7

\* The rest of tx_bundle_locked after the radio has taken the full bundle.
LEMMA TxResumeStep ==
  ASSUME IInv, tx_bundle_resume
  PROVE  IInv'
<1>1. tcp_pc = "full_send" /\ lock = "none"
      /\ UNCHANGED <<pmac, cur_retries, winVars, lock, tickVars>>
  BY DEF tx_bundle_resume
<1>2. tcp_b \in Slots /\ state[tcp_b] = "sending" /\ tcp_p \in Peers /\ tcp_m \in Macs
      /\ pmac[tcp_p] = tcp_m /\ agg_idx[tcp_p] = 0
  BY <1>1 DEF IInv, SendingPinned, TcpSends, PeerPinned, ControlInv
<1>3. /\ SendDone(tcp_b) \in [Slots -> BufStates]
      /\ SendDone(tcp_b)[tcp_b] = "inflight"
      /\ \A s \in Slots : s # tcp_b => SendDone(tcp_b)[s] = state[s]
  BY <1>2, SendDoneFacts
<1>4. StageContext(tcp_m, tcp_p, SendDone(tcp_b), agg_nsub)
  <2>1. TickSends => tick_b \in Slots /\ tick_b # tcp_b /\ state[tick_b] = "sending"
    BY <1>1 DEF IInv, SendingPinned, TcpSends
  <2>2. \A s \in Slots : s # tcp_b /\ state[s] = "sending" => TickSends /\ s = tick_b
    BY DEF IInv, SendingPinned
  <2> QED
    BY <1>1, <1>2, <1>3, <2>1, <2>2 DEF StageContext, IInv, TypeOK, PeersUnique, PeerPinned,
       peer_find
<1>5. CASE StageAppend(tcp_m, tcp_p, SendDone(tcp_b), agg_idx, agg_nsub)
  BY <1>2, <1>4, <1>5, StageStep
<1>6. CASE Throttle(SendDone(tcp_b), agg_idx, agg_nsub)
  BY <1>4, <1>6, ThrottleStep
<1> QED
  BY <1>5, <1>6 DEF tx_bundle_resume

-----------------------------------------------------------------------------
(* The theorems. *)

\* No step of any task breaks the invariant.
LEMMA NextInv == IInv /\ [Next]_vars => IInv'
<1> SUFFICES ASSUME IInv, [Next]_vars PROVE IInv'
  OBVIOUS
<1>1. CASE UNCHANGED vars
  <2> USE <1>1 DEF vars, bufVars, peerVars, cntVars, winVars, tcpVars, tickVars
  <2>1. CountersMatch'
    BY SameCounts DEF IInv, InFlight
  <2>2. TypeOK' /\ WindowReopens'
    BY DEF IInv, TypeOK, WindowReopens
  <2>3. StagingOwned' /\ PeersUnique' /\ SendingPinned' /\ PeerPinned' /\ ControlInv'
    BY DEF IInv, StagingOwned, PeersUnique, SendingPinned, PeerPinned, ControlInv,
       TcpSends, TickSends, peer_find
  <2> QED
    BY <2>1, <2>2, <2>3 DEF IInv
<1>2. CASE TcpStep
  BY <1>2, TxStep, TxResumeStep, ResumeStep, MoveStep, FlushPeerStep DEF TcpStep
<1>3. CASE TickStep
  BY <1>3, MoveStep, TickServiceStep, ResumeStep, TickHeldStep DEF TickStep
<1>4. CASE \E m \in Macs : rx_ack(m) \/ rx_data(m)
  BY <1>4, RxAckStep, RxDataStep
<1>5. CASE \E w \in MinWindow .. MaxWindow, r \in 0 .. RetryLimit : halow_ack_config_apply(w, r)
  BY <1>5, ConfigStep
<1>6. CASE \E s \in Slots : Age(s)
  BY <1>6, AgeStep
<1> QED
  BY <1>1, <1>2, <1>3, <1>4, <1>5, <1>6 DEF Next

\* IInv holds in every state of every behaviour.
THEOREM Invariance == Spec => []IInv
BY InitInv, NextInv, PTL DEF Spec

\* The tables, counters and positions of the ACK layer keep their types.
THEOREM TypeCorrect == Spec => []TypeOK
<1>1. IInv => TypeOK
  BY DEF IInv
<1> QED
  BY <1>1, Invariance, PTL

\* g_used_n and g_inflight_n always equal what a count of g_bufs would give.
THEOREM CountersCorrect == Spec => []CountersMatch
<1>1. IInv => CountersMatch
  BY DEF IInv
<1> QED
  BY <1>1, Invariance, PTL

\* agg_idx names a live staged bundle for that very peer, and every staged
\* bundle has an owner.
THEOREM StagingCorrect == Spec => []StagingOwned
<1>1. IInv => StagingOwned
  BY DEF IInv
<1> QED
  BY <1>1, Invariance, PTL

\* The buffer buf_tx_send writes to after taking the mutex back is the one it
\* was given, and only the task in the radio call keeps a slot in "sending".
THEOREM SendingCorrect == Spec => []SendingPinned
<1>1. IInv => SendingPinned
  BY DEF IInv
<1> QED
  BY <1>1, Invariance, PTL

\* Eviction never takes an entry that a buffer or the TCP task relies on.
THEOREM PeersCorrect == Spec => []PeerPinned
<1>1. IInv => PeerPinned
  BY DEF IInv
<1> QED
  BY <1>1, Invariance, PTL

\* No node is entered in the peer table twice, however often it is evicted and met
\* again.
THEOREM PeersUniqueCorrect == Spec => []PeersUnique
<1>1. IInv => PeersUnique
  BY DEF IInv
<1> QED
  BY <1>1, Invariance, PTL

\* The congestion window stays between two and the configured window.
THEOREM WindowCorrect == Spec => []WindowReopens
<1>1. IInv => WindowReopens
  BY DEF IInv
<1> QED
  BY <1>1, Invariance, PTL
=============================================================================
