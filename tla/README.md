# TLA+ verification of the HaLow RNode firmware

The firmware turns an 802.11ah (HaLow) radio module into a network interface for Reticulum:
a host sends and receives HDLC-framed Reticulum packets over one TCP connection (or a UART),
and the firmware carries them over the radio between nodes. The radio gives no usable
acknowledgement of its own, so the firmware has a reliability layer, `halow_ack.c`, with
bundles, sequence numbers, bitmap ACKs, retransmission and a congestion window. This
directory models that layer and the parts around it, checks them with TLC on small instances
and proves with TLAPS, for every instance, under the conditions section 4 names, every safety property that the passing runs check.

`PROJECT.json` lists the components, the runs, the correspondence of every definition with
lines of the source, the findings, the hazards and the theorems. Paths below are relative to
the firmware's own sources, `src/src/`.

## 1. Inventory

### Tasks

| task | what it runs | priority and period |
|---|---|---|
| `tcps` | TCP server: `netconn_recv`, stream decoder, `tcp_to_rf`, `halow_ack_tx`, `halow_ack_flush` when the host is quiet | blocks on the host |
| `acktk` | `halow_ack_tick`: retransmit, drop, flush held bundles, deferred ACKs | 10 ms, above the others |
| LMAC receive | `halow_rx_handler`, fragment reassembly, `halow_ack_on_rx`, `rf_to_tcp` | per frame |
| TX completion | returns radio queue bytes, airtime accounting | per frame, from the radio driver |
| LBT task | noise floor, channel activity | periodic |
| link-db sweep | `rns_link_db_sweep_expired` | 60 s; a link times out after 900 s |
| httpd, tcpip | configuration API, DHCP server, lwIP | per request |
| UART SLIP, statistics, telemetry, LED, watchdog | supporting | periodic |

Only the `tcps` task calls `halow_ack_tx` and `halow_ack_flush`. The ACK layer's state is under
one mutex, which `buf_tx_send` gives up during the call into the radio.

### Components

| component | state | operations | interacts with | hard behaviour | what makes it correct |
|---|---|---|---|---|---|
| ACK layer, transmit half (`halow_ack.c`) | `g_bufs`, `g_peers`, `g_used_n`, `g_inflight_n`, `g_cwnd`, configuration | `halow_ack_tx`, `halow_ack_flush`, `halow_ack_tick`, `rx_ack`, `halow_ack_config_apply` | radio, TCP task, web interface | four tasks; the mutex is given up in the middle of a send; peer eviction; configuration changed in flight | counters agree with the table, a buffer has one owner, the window can reopen, every slot comes back |
| ACK layer, receive half | `rx_seq_last`, `rx_seq_win`, dedup ring, `ack_due` | `rx_env`, `rx_data`, `send_ack`, `tick` | the sender on the other node | loss, reordering, retransmission, wrap-around, restart, stale and evicted peers | delivered at most once; acknowledged implies delivered |
| TCP input, stream decoder (`tcp_server.c`, `rns/stream_parser.c`) | decoder state, held frame, netbuf cursor | `tcp_client_loop`, `tcp_server_feed_netbuf`, session reset | ACK layer's backpressure | resuming in the middle of a netbuf; reconnects | the frames handed on are the host's, whole, in order, once |
| TCP output ring (`tcp_server.c`) | ring of owned buffers | enqueue from the receive task, write by `tcps` | receive path | partial and stalled writes, full ring, reconnect | each buffer freed once; a client gets frames of its own time only |
| Link database (`rns/link_db.c`, `halow_pkg_handler.c`) | hash table of links with last use and remote MAC | register, lookup, close, sweep | `tcps`, receive task, sweep task | two-call interleavings, stale clock, full table | chains reach each link once; links in use stay |
| Packet parser, MTU clamp (`rns/`) | none | field extraction | link database | lengths | pure function |
| DHCP server (`dhcpd_core.c`, `net_dhcpd.c`) | leases, server state | DISCOVER, REQUEST, RELEASE, DECLINE, start, stop | network configuration | expiry, restarts, byte order | one holder per address, holders keep theirs |
| Rate adaptation (`halow_ack.c`) | per-peer rate, loss filter, cooldown | step up, step down, collapse | tick, ACKs | wrap of the tick count, oscillation | rate stays in range and recovers |
| Transmit budget, watchdogs (`halow.c`) | bytes in the radio queue, semaphore, wedge timers | send, completion, purge, reboot | radio, LBT, OTA | late completions, blocked waits, a radio that dies | nothing withheld; waits end; no reboot in an update, a reboot when all else failed |
| Fragment reassembly (`halow.c`) | one reassembly slot, one number per node | cut and send, fragment in | receive path, transmit path | loss in between, ids of two senders, restart | output is what one sender sent |
| LBT, airtime, noise floor (`halow_lbt.c`) | noise ring, airtime window | sample, completion | radio | lock timeout, ring limits | counts balance |
| Firmware and file update (`ota/`) | session flag and time, partition, open file | begin, chunk, end | watchdog, web interface, Ethernet | repeated or lost chunks, two transports at once, abandoned sessions | what was confirmed is written; no restart in the middle |
| Configuration (`configdb.c`, `net_ip.c`) | key-value store | read, write | web interface | read and write in two steps | what is read was written |
| Web interface, UART SLIP, statistics, nearby table, telemetry, board support | counters, rings, formatting | | | byte ring between interrupt and task | |
| SDK, `csky/`, `libs/`, cJSON, FlashDB, lwIP, web assets, flasher | third party | | | | environment |

## 2. Modules and the code they model

| module | models | composes |
|---|---|---|
| `AckSlots` | transmit half of `halow_ack.c` | |
| `AckSlotsProofs` | its theorems | `AckSlots` |
| `SeqWindow` | sequence window and bitmap ACK as operators | |
| `Delivery` | abstract at-most-once delivery | |
| `AckLink` | one direction between two nodes: sender, radio, receiver | `SeqWindow`; implements `Delivery` |
| `AckLinkProofs` | its theorems and those of the window | `AckLink`, `SeqWindow` |
| `TcpStream` | host connection to `halow_ack_tx` | |
| `LinkMap` | abstract table of links by id | |
| `LinkDb` | the hash table and the three tasks that use it | implements `LinkMap` |
| `LinkDbProofs` | its theorems, with the refinement | `LinkDb`, `LinkMap` |
| `Dhcpd` | DHCP server | |
| `DhcpdProofs` | its theorems | `Dhcpd` |
| `TcpOut` | the ring to the host and the writing half of the `tcps` task | |
| `TcpProofs` | the theorems of both halves of the TCP server | `TcpOut`, `TcpStream` |
| `TxBudget` | transmit budget, blocking wait, completion, leak watchdog, transmit mark | |
| `TxBudgetProofs` | its theorems | `TxBudget` |
| `Frag` | fragmentation and reassembly at MCS 10, several senders | |
| `FragProofs` | its theorems | `Frag` |
| `Ota` | update sessions and the firmware partition | |
| `Wedge` | hard-wedge watchdog and the MAC's queue as it sees them | |
| `Guard` | who may restart the node, and when | `Ota`, `Wedge` |
| `GuardProofs` | its theorems | `Guard` |
| `MC...` | constants of the instances TLC checks | each its module |

### AckSlots

A step is the code between two points where the mutex may change hands; in loops that span
such points (tick, flush) it is one iteration, with `lock` held from one to the next. The
state of a buffer is `state`, `dest`, `retries_used`, `aged`; of a peer `pmac`, `agg_idx`,
`agg_nsub`, `cur_retries`. `tcp_pc` and `tick_pc` are the places where a task is inside the
radio call (`..._send`) or in a loop. `halow_ack_tx` is one action up to the radio call and
`tx_bundle_resume`, `tx_bundle_end` are what follows it; `FlushStart` to `FlushEnd` and
`TickEnter` to `TickEnd` are the two loops; `rx_ack`, `rx_data`, `halow_ack_config_apply`
are one critical section each.

Time is abstracted to `aged[s]`, a flag that `Age` sets, which says that the slot has reached
the limit that applies to its state; backoff is a free choice. The room in the radio's queue, the outcome of
`os_malloc` and frame sizes are free choices too. An ACK clears any set of in-flight slots of
the node it comes from: which ones it may name is the subject of `AckLink`.

### SeqWindow, AckLink, Delivery

A window is the newest number and the set of the positions of its one-bits, so the word
`rx_seq_win` is `{k : bit k is 1}`. `peer_rx_seq` keeps the undefined `1u << back` for
`back >= 32`: its result is any of the outcomes a build can have (no bit, or the bit modulo
the width). `Capture` and `Covers` are the two ends of a bitmap ACK.

In `AckLink` the sender numbers bundles, sends, retransmits, drops and clears; the radio
holds up to `MaxAir` bundles and `MaxAcks` ACKs, loses any of them and delivers them in any
order. The receive task takes a bundle in three critical sections (`rx_env`, `rx_data`,
`rx_send_ack`) and the receiver's tick sends deferred ACKs between them. `peer_get_stale` and
`peer_create_evicts` are what the receiver's other traffic does to its entry for the sender.
`Restart` is a reboot of the sender, which starts over at number 0. It assumes that the air is empty and
the receiver is between frames, which a reboot takes long enough for. A sender also starts over at 0 when it
evicts its own entry for the receiver and makes it anew; copies may then still be in the air, which is not modelled.

Nothing bounds how late a copy comes: as in the code, a slot that is sent again may be overtaken by any
number of newer bundles. So the receiver does lose track of numbers, and two history variables say when. `forgotten`
has the bundles it took without recording their number (first contact; so late that `1u << back` leaves
the word), or had recorded in a window that was dropped since (stale reset, eviction, a number a
whole window away). `late` says that a bundle has met the undefined shift, which may have set the mark of another number.

`Delivery` says what the layer promises: a bundle is pending, delivered or not, and ends
acknowledged or given up; it is delivered at most once unless it is `forgotten`, and only a delivered one is
acknowledged unless acknowledgements are in `doubt`: after a mark has left its word, or a restart has
used numbers again.

Hashes of bundles are taken to be unique (a bundle is its number in sending order). An ACK
that finds its slot inside the radio call is ignored by the code, which is an ACK lost.

### TcpStream

The host's bytes are cut into netbufs, and those into chunks, anywhere. The decoder's state,
frame buffer and `held` are the code's; the cursor (`nb`, `chunk`, `ofs`) is where feeding
stopped. Each byte is a step, so an ACK may arrive between any two. The ACK layer is `room`,
the frames it will take now; `HeapFails` adds the throttles that happen with room left. `tx_ready`
asks for a margin of two, as the code does, and may be false at any time, since it also
looks at the radio queue.

### LinkDb, LinkMap

The table is the code's: slots, bucket heads, `hash_next`, a count. The `tcps` task
registers a packet and looks its link up in two calls, so the receive path and the sweep may
come between; a throttled packet is registered again on retry. The sweep reads the clock
before it waits for the mutex. Counters, hops, MTU, the displayed state and packets of no
link are left out. The destination a lookup gave is a local of the `tcps` task, `dest`; the
refinement maps it to the answer of the abstract table.

### Dhcpd

A message is one action: parsed, decided, answered, in the `tcpip` thread. Addresses have two
octets (network and host) and keep their byte order through lwIP, the pool arithmetic and
the wire. `holds` is what each client believes it has (it may miss an answer), `reply` the
last answer; neither is server state.

### TcpOut

Frames are numbered as they come over the air; a buffer is its frame's number. The receive task
is one action, `Deliver`, because it holds the ring's mutex throughout or, finding it taken,
drops the frame. The `tcps` task is at one of five places: waiting for a client, popping, writing
(with the mutex released), in the input half that `TcpStream` models, closing. `sent` records
what the connection was given, in bytes, so that a torn frame shows. `freed` counts the frees of
a buffer.

### TxBudget

A sending task is idle, in `tx_budget_wait`, between the budget and the MAC, or between the MAC
and the transmit mark; `halow_tx_skb_complete` is cut where it turns interrupts on again.
`os_sema_down` is modelled as the RTOS library implements it and as every other caller reads
it: 1 for a token, 0 for a timeout. `tx_budget_wait` reads it the other way round, so
`TokenTaken` is a try that does not look at the budget. The MAC (external) takes, refuses,
completes or loses a frame. Of the airtime account only the transmit mark is kept, with the
number of airtime cycles since the last completion.

### Frag

Each node has its counter, its mutex, the static buffer and two tasks; the receiver has the code's
one slot. A unit of data names its sender, packet, length and place, so that a delivered buffer can be
compared with what was sent. The senders' frames arrive in order or not at all: they are
broadcast, which the MAC neither acknowledges nor repeats, from one queue. A node that
restarts sleeps for five seconds (`main.c:334`), longer than the reassembly timeout.

### Ota, Wedge, Guard

`Ota` is the session flag, its age, `g_ota_erased` and the partition, with a chunk of flash being
erased, of the web session, or other. Web and Ethernet write under the same flag. `held` is history: an undisturbed
web session. So are `acked`, the chunks a web session was told are written, `lost`, those of them erased since by
a first chunk, and `foreign`, the chunks Ethernet wrote. `Wedge` is the
watchdog, `wedge_since` and `wedge_purge_jiff` as ages, with the MAC reduced to a number of queued
frames, a lost completion (`leaked`), channel-access interrupts and the death of the radio.
Between two steps of time the watchdog has run and found nothing to do (`Settled`), since
it runs every 10 ms and its periods are seconds. That is an idealisation: the tick that runs it may be blocked for about 2 s
per deferred ACK in `tx_budget_wait` (`halow.c:451`, from `halow_ack.c:1533`), so that with several in a row a run comes
later than the model says. `Guard` composes the two with the commands that
restart the node: the watchdog's own, which pauses 50 ms between asking and restarting, the web
interface's two, which ask, and the Ethernet command, which does not. A handler of an
update is one step.

## 3. Runs

| run | instance | checks |
|---|---|---|
| `slots` | 3 slots, 2 peer entries, 3 nodes, bundles of at most 2, window 2..3, 1 retry | `TypeOK`, `CountersMatch`, `StagingOwned`, `SendingPinned`, `PeerPinned`, `PeersUnique`, `WindowReopens` |
| `slots_drain` | 2 slots, 2 peers, 2 nodes, with fairness | `SlotsDrainWithRetries`: every slot comes back |
| `link` | 4 bundles, numbers modulo 8, window 3, shift width 2, start at 0 and before the wrap, 2 bundles in the air, copies however late | `TypeOK`, `MarkedWasDelivered`, `NewestStays`, `DeliveryHolds` |
| `link_crowd` | 3 bundles from first contact, window 4, shift width 2, start at the shift width, the sender restarts once, the receiver's entry is reset and evicted at any moment, copies however late | `AtMostOnce`, `AckedNumberDelivered` |
| `link_swallow` | 3 bundles, one restart | violates `AckedWasDelivered` |
| `tcp_in` | two connections, frames with escapes and an overlong one, with fairness | `WholeInOrder`, `NoneLost`, `NetbufFinishes` |
| `links` | 4 ids in one chain for 3 slots, 1 node | `TypeOK`, `ChainsExact`, `ActiveKept`, `MapHolds` |
| `dhcpd` | 3 clients, 2 addresses, 2 starts, clock to 3, leases of 2 | `TypeOK`, `UniqueSinceStart`, `KeepsAddress` |
| `tcp_out` | 4 frames of 2 bytes, a ring of 2, bursts of 2, 2 connections, with fairness | `TypeOK`, `BufferOwnedOnce`, `HostSeesOwnFrames`, `RingDrains` |
| `tx_budget` | 2 sending tasks, one of them the tick, 1 reporter, a budget of 2, frames of 1 and 2, 2 tries, 1 lost completion, with fairness | `TypeOK`, `NothingWithheld`, `MarkHeals`, `WaitEnds` |
| `frag` | 2 senders of 2 tasks, packets of 1, 2 and 3 parts and one too long, 3 packets, 1 restart | `TypeOK`, `WholeOfOneSender`, `UndisturbedIsDelivered` |
| `guard` | images of 2 chunks, a queue of 1, 2 strikes, with fairness | `AckedIsFlashed`, `RebootOnlyWhenMute`, `SessionSurvives`, `ForsakenRestarts` |

### Why the bounds are enough

* `slots`: more nodes than peer entries, so that eviction happens; three slots hold one
  staged, one in flight and one in the radio call at a time; a retry limit of one lets a slot
  be sent, sent again and given up; two window sizes make shrinking and reopening happen.
  Nodes are interchangeable, so symmetry over them is sound (safety only).
* `link`: the code's sequence window and shift width, 64 and 32, become 3 and 2 in `link` and 4 and 2 in `link_crowd`. With four
  bundles and a window of 3 a copy comes in time, so late that its mark leaves the word, and (over the skipped
  number) a whole window late; the start before the wrap passes the skipped number. `link` starts with nodes that know each
  other, `link_crowd` before first contact and with everything that makes the receiver forget. Its sender starts at the shift width, so that after
  a restart its numbers are that far behind. In the
  violating run only one bundle is in the air at a time, so that the radio itself does not reorder: retransmission alone is enough.
* `tcp_in`: a netbuf may hold three frames, the least in which a frame is throttled after
  another was taken and a third follows. `Window` is 2, the margin `tx_ready` asks for.
* `links`: a timeout of 0 with clock values to 2 is the smallest instance in which a link is
  swept (a last use of 0 means never used) and another is used after the sweep read its
  clock. One node tells learned from not learned. All ids share a bucket, which makes the chain long:
  head, middle and tail leave it in any order, and with one id more than slots the table fills
  and slots are used again. Ids are interchangeable, so symmetry over them is sound.
* `dhcpd`: one client more than addresses; two starts, so that leases of an earlier start
  overlap with those of the next; the clock lets a lease expire and its address be given away
  and expire again.
* `tcp_out`: the ring (6 bytes, of which a ring uses 5, for descriptors of 2) overflows with the third frame, a frame of two
  bytes can be torn, a burst ends before the ring is empty, and frames wait across a reconnect.
* `tx_budget`: one frame can fill the budget and two share it; two tries tell a counted try
  from an uncounted one; the semaphore's limit of one token is its smallest, and more tokens
  only add tries of the same kind.
* `frag`: the longest packet fills the buffer exactly, one is shorter than its parts could hold, one is
  refused; two senders, two tasks and a restart meet under the same number. With three packets
  the numbers do not wrap: it would take 256 packets within the timeout of one second.
  `MaxAir` limits only how far a sender runs ahead of the air. Senders and tasks are interchangeable.
* `guard`: a unit of time is `HALOW_TX_WEDGE_TMO_MS` (5 s); the contention and reboot periods, 15 and
  30 s, become 2 and 3 units, three strikes become two, the session timeout of ten minutes 2
  units. What matters is their order, a purge before its longer variant, that before the
  reboot, a session that may time out before and after the last strike, and that the reboot period has room
  for the strikes (`RoomForStrikes`, section 4): 1 + 2 <= 3 as 10 + 15 <= 30 in the code.

`CHECK_DEADLOCK FALSE` is used in `AckLink` (a behaviour ends after `N` bundles), `LinkDb` and
`Dhcpd` (their clocks are bounded) and `TcpOut` (frames and clients are). The others never stop.

### Fairness

* `AckSlots`: strong fairness of the tick's steps and of the TCP task finishing a call,
  weak fairness of time. The tick task has the highest priority and loops forever, a task
  that waits for the mutex is given it, and time passes. Nothing is assumed of ACKs, traffic or the radio's queue.
* `TcpStream`: weak fairness of the task and of ACKs (the slots are given back, which
  `slots_drain` shows); strong fairness of a frame being taken while its netbuf is fed, since
  memory comes back with the slots. Nothing is assumed of the host.
* `TcpOut`: weak fairness of the writing half, of the input half coming to its end, and of closing. `netconn_recv`
  does not block, and a wait for the radio is bounded (`WaitEnds`). Nothing is assumed of the
  host, which may stop reading and never close.
* `TxBudget`: weak fairness of the tasks that send and of the airtime task. The MAC promises
  nothing: completions may never come.
* `Guard`: strong fairness of time, weak fairness of the watchdog, the restart it decided on, and
  the MAC's transmit task serving a purge. Nothing is assumed of clients, frames or the radio.

## 4. Proofs

`tlapm` checks every theorem for all values of the constants that satisfy the named
assumptions of the modules.

**AckSlotsProofs.** The invariant `IInv` is the conjunction of `TypeOK`, `CountersMatch`,
`StagingOwned`, `SendingPinned`, `PeerPinned`, `PeersUnique`, `WindowReopens` and
`ControlInv` (which task may be where while which holds the mutex). None of the parts is
inductive alone: the counters are right because a task that returns from the radio call finds
its own slot (`SendingPinned`); that holds because nobody frees or reuses a slot in `sending`;
staging is owned because eviction spares the peers that `PeerPinned` names. `Invariance` is
`Spec => []IInv`, with one step per action; `TypeCorrect`, `CountersCorrect`,
`StagingCorrect`, `SendingCorrect`, `PeersCorrect`, `PeersUniqueCorrect`, `WindowCorrect` are its consequences. The counting lemmas rest on `FiniteSetTheorems`.

**AckLinkProofs**, the window. `CaptureExact`: a bitmap ACK covers exactly the numbers the window marks,
across the wrap. `RxSeqType`: `peer_rx_seq` leaves a window whatever the undefined shift does.
`RxSeqExact`: a number less than the shift width behind the newest, or less than a
window ahead, is marked and nothing else changes inside the window. These are the facts
behind `MarkedWasDelivered`, for the real 16-bit, 64 and 32 as for the small instance.

**AckLinkProofs**, the link. `TypesCorrect` is unconditional: `TypeOK` is inductive with `Sent`, `CopiesSent` (below) and
`NewestMarked` (the newest number is marked), and with it a bundle is handed up no more often than it was sent,
late shifts included. The rest holds whatever is restarted, reset or evicted and however late a copy comes; what
the code then loses is an exception in the property, never a premise of the theorem.

`LinkInvariance` is `Spec => []LInv`, where `LInv` is the types and `late \/ IInv`, and `IInv` is `TypeOK`, `Sent` (what is on its way was sent),
`CopiesSent` (a bundle arrives no more often than it was sent), `MarksTrue`, `FidsTrue`, `AcksTrue` (each mark
in the window, each id in the dedup ring and in the receive and tick tasks' lists, each ACK in the air is
of a number that arrived) and `AckedTrue`. What is acknowledged is true only because of what the ACK in the air says,
and that because of the window it was captured from, so the property needs all of them. `MarksAndAcksCorrect` follows
for all constants: `MarkedWasDelivered` and `AckedNumberDelivered`.

`Numbered` says how far apart the numbers of the bundles around are, the skipped number at the wrap included; with a restart, of
those sent since. With it and `N + Win <= Mod`, `NewestStaysCorrect`: the newest number goes back only for a bundle
a whole window behind, which `peer_rx_seq` takes for a jump.

`KInv` adds `Kept` (a bundle that was taken, not forgotten, and of which a copy may still come, is marked, or has left
the window at its old end), `Once` and `NoRing`. `AtMostOnce` is not inductive without `Kept`: a bundle is not taken again because it is
marked. `AtMostOnceCorrect` and `DeliveryCorrect`, the refinement of `Delivery` step by step, follow from it under `FewNumbers`,
2 (N + Win) <= Mod: the bundles of a behaviour, and the windows, take up at most half of the numbers (some 32,700 bundles
with 16 bits). In a longer behaviour a copy that waits while the counter goes round would meet its own number
again; what prevents that is time, a slot living three seconds, which the model does not count.

**DhcpdProofs.** `IInv` is `TypeOK`, `HoldsPast` (no hold is longer than a lease from now),
`AllBacked` (every live hold of this start is backed by the first slot of its client, with the
same address, for at least as long) and `UniqueSinceStart`. Uniqueness alone says nothing of the table and
is not inductive; `AllBacked` is what a REQUEST decides on. Consequences:
`DhcpdTypeCorrect`, `UniqueSinceStartCorrect` and `KeepsAddressCorrect`.

**TcpProofs**, the way out. `IInv` is `TypeOK`, `RingOrdered` (the ring is in order of arrival and younger than the
frame in hand), `SentBefore` (what a connection was given is younger than the connection and older than what waits),
`Accounted` (a frame is freed, once, when it has arrived and is neither in the ring nor in hand) and
`BurstLasts`. `HostSeesOwnFrames` is about what was written, and next to be written is what the ring holds: hence the first two.
Consequences: `TcpOutTypeCorrect`, `BufferOwnedOnceCorrect`, `HostSeesOwnFramesCorrect`, for any ring, frame and burst size.

**TcpProofs**, the way in. Frames are told from bytes by a decoder that has no memory of the stream, so the invariant
has to say what it must have made of every prefix. `At(ps, n, st, fr, o)` does: after `n` bytes of the
payloads `ps`, framed, the decoder is between two frames, or in frame `k` behind `j` bytes of its payload (`Inside`), or past
an ESC (`Escaping`), with the first `j` bytes in `fr`, or none once there are more than `MaxFrame`, and in `o` the
payloads before that fit. `AtStep`: the next byte of the stream leads to the next place. `StreamInv` adds that the netbuf in
hand, the one in the queue and the bytes not sent are, end to end, the rest of the host's stream (`Placed`), that the decoder is
at the cursor (`Decoded`; a held frame counts as handed on), and where the cursor may be. `WholeInOrderCorrect`
and `NoneLostCorrect` follow, for any payloads, frame and netbuf size, every cut, throttling and reconnect.

**LinkDbProofs.** `LinkInv` is `TypeOK`, `TableOK` and two facts on the tasks. `TableOK(d)` says that ids are unique, the count is
right, and for each bucket there is a walk along `hash_next` that meets each used slot of that bucket once, no other, and
ends (`IsChain`). Each operation gets its own witness: entering puts an index in front of the walk, `remove_index` takes one out of it,
wherever it is, and the sweep is the loop of such removals (`Swept`), of which it is proved that the slots left
are exactly those not expired. Consequences: `LinkTypeCorrect`, `ChainsExactCorrect`, the action property `ActiveKeptCorrect`, and
`MapCorrect`, the refinement of `LinkMap`: a lookup along the chain finds the slot of the id if there is one
and only then, so that registering, closing, sweeping, learning and looking up are steps of the abstract table. For any slots, buckets, hash and
set of links.

**TxBudgetProofs.** The bytes of a set of frames are a set of pairs of frame and place, so that the sums are
cardinalities. `IInv` is `TypeOK`, the frames in the MAC being finitely many, and `NothingWithheld`, which is
inductive with them: the budget cannot pass its size because the bytes that come back are missing from it.
Consequences: `BudgetTypeCorrect`, `NothingWithheldCorrect`, for any tasks, lengths and size.

**FragProofs.** `IInv` is `TypeOK`, `MoreTypes`, `Node` for every sender, `SlotOK`, `RunOK` and
`WholeOfOneSender`. `Node` says that a task's frame is the part its job names, that frames in the air and jobs
of tasks under one number are of one packet with its parts in order, and that a node in its first
seconds has nothing in the air. `SlotOK`: a slot that met one sender holds the first parts of a
packet and what is to come under its number continues it, or it misses a part that will not come any more;
or else the sender has restarted since, and then the slot is too old when it sends again. That is why a part placed
by the sizes of the parts before it lands in its place. `RunOK` is the same for `UndisturbedIsDelivered`, which
must not depend on who else met the slot. Consequences: `FragTypeCorrect`,
`WholeOfOneSenderCorrect`, `UndisturbedCorrect`, for any number of senders, tasks and parts and any lengths, for
fewer packets than there are numbers (`Uuids > MaxPackets`: 255 with 8 bits). Beyond that safety rests on
time, 256 packets not being sent within the timeout, which the model does not count.

**GuardProofs.** `IInv` is `TypeOK`, `AckedIsFlashed`, `CleanOrForeign` (while a session is open an erased partition holds
only chunks of the web and what Ethernet wrote), `HeldIsActive` (the flag of an undisturbed web session is down only after its
timeout) and `DecidedUnheld` (in the watchdog's pause no live session is open). `AckedIsFlashed`
is not inductive without `CleanOrForeign`, since flash that is not erased spoils what is written, nor
`SessionSurvives` without the last two, since the restart comes a step after the question. Consequences:
`AckedIsFlashedCorrect` and the action property `SessionSurvivesCorrect`, for every
length of image and every choice of periods. `RebootOnlyWhenMuteCorrect` needs one condition on the periods,
`RoomForStrikes`: (Strikes - 1) * WedgeTmo + ContendTmo <= RebootTmo. The watchdog keeps its strikes when a completion
ends a wait (`RunMoving`), so a decision may rest on strikes from before; `Waited` shows that the purges of the new wait make
up for them, one per `WedgeTmo` (`wedge_since - wedge_purge <= silent * WedgeTmo`), unless channel access lengthened the
interval, and then the purge that takes the strikes back is due before the restart. The code's periods satisfy the
condition (2 * 5000 + 15000 <= 30000) and it is exact: with one unit less TLC finds a restart after too few silent
purges (periods of 2, 3 and 6, three strikes).

**Induction.** The library's induction schemes take an operator as a parameter, which the provers cannot instantiate.
`LinkDb`'s walks and sweep and the community modules' `FlattenSeq` are recursive functions, and what they compute is
proved by a least counterexample instead: the set of places where the claim fails is a set of naturals, and `LeastOf`, from
the well-foundedness of `<`, gives its least element.

**Only model-checked.** Liveness: `SlotsDrainWithRetries`, `NetbufFinishes`, `RingDrains`,
`MarkHeals`, `WaitEnds`, `ForsakenRestarts`. Fairness and `ENABLED` are outside the prover's reach. The behaviours of
section 5 that violate a property are TLC's too.

## 5. Findings

One run, `link_swallow`, has as its property what a comment and a test of the repository say, and
TLC finds it violated by what the code does: after a restart of the sender its first bundles
are taken for copies, consumed and acknowledged. Quotations and lines are in `PROJECT.json`.

Six more properties are stated in the modules and violated by the code. Each has a
configuration of its own, with which TLC shows the behaviour:

| property | configuration | what the code does |
|---|---|---|
| `AckLink!NeverTwice` | `AckLinkLate.cfg` | `1u << back` (`halow_ack.c:417`) shifts 32 bits by up to 63: a bundle 32 or more numbers late is not marked (the comment at 413 says "MARK it received") and may be delivered twice (`tests/ack/suite/test_pipeline.c:852`: "every packet delivered AT MOST once") |
| `AckLink!AckedWasDelivered` | `AckLinkShift.cfg` | the same shift, with no restart: a bundle 32 to 63 numbers late sets the mark of another number (on a core that shifts modulo 32), so that a bundle never delivered is acknowledged, and taken for a copy if it comes |
| `TcpStream!HeldGoesOut` | `TcpStreamHeld.cfg` | a frame throttled by the last byte of a netbuf is retried (`tcp_server.c:352`) only while the ACK layer has no room: with room it waits for the host's next bytes (`test_pipeline.c:507`: "heap recovers: the held frame goes through") |
| `Dhcpd!OfferHonoured` | `DhcpdExpired.cfg` | a client with an expired lease is offered another slot and, when it requests that, judged by the expired one and refused (`dhcpd_core.c:178`; `tests/ack/suite/test_dhcpd_core.c:135`: "discover -> offer -> request(that ip) -> ack") |
| `Dhcpd!OffersOnSubnet` | `DhcpdSubnet.cfg` | the pool is counted in the first octet of an address in memory order and written to the wire reversed (`net_dhcpd.c:72`; the comment at line 22: "offers x.x.x.200 .. .200+size-1") |
| `Ota!ToldIsFlashed` | `GuardRepeat.cfg` | a first chunk that is repeated in the middle of a web update, as by a client that starts over after a lost answer without a new begin, erases the partition (`ota/ota.c:83`) and with it chunks the session was told are written; only the CRC of the end tells. `AckedIsFlashed` names this as its exception |

`TxBudget!ShedOnlyWhenShort` is violated too, with `TxBudget.cfg` and that property:
`tx_budget_wait` (`halow.c:454`) takes `os_sema_down(...) == 0` for success, while the RTOS
answers 1 for a token and 0 for a timeout (so `sys_arch.c:135`, `hg_crc.c:144`,
`mars_lmac_tx.c:377`; the test harness has a stub that answers 0, `tests/ack/harness.c:34`). A wait
that is woken by completions does not look at the budget, and sheds the frame when its tries are
used up although there is room; the comment above it says "wait for TX-complete refunds instead of
shedding the frame".

The models show these as well, which is why some properties are stated as they are:

* The leak watchdog never repairs a leak. It returns while `tx_work_pending()`, which is true
  whenever the budget is short; it resyncs only a budget that is full. `inc/halow.h:44` says "self-heal
  the TX budget after lost TX-complete events". Instead, a node that lost a completion and
  then has nothing to send is purged and, when no channel access comes either, restarted
  after 30 s by the hard-wedge watchdog, however sound its radio.
* The purge completes what it drops, and those completions reset `wedge_since` (`halow.c:815`): a
  dead radio that is given frames all the time is purged for ever and never restarted.
  `ForsakenRestarts` has the condition that nothing is queued.
* Two senders that use the same 8-bit number at the same time are mixed into one packet: the
  slot is not keyed by sender. `WholeOfOneSender` excepts it.
* After a stalled write ("send stuck -> close") the connection stays open with a part of the frame
  written; what follows is the next frame.
* A firmware session over Ethernet sets the flag and not its time, so once the node is up for ten
  minutes (or the last web session is as old) the guard does not hold, although the comment at
  `ota/ota.c:288` says "Arm the OTA guard for eth flash sessions too"; it also ends or takes over
  a web session, whose chunks it erases or overwrites (`lost` and `foreign` in `AckedIsFlashed`). `SessionSurvives` is about web sessions no Ethernet frame came into.
* A file session has no timeout (`ota/ota_lfs.c:29`): one that is abandoned keeps the watchdog from its
  restart for good. A session that begins in the watchdog's pause of 50 ms is cut off.
* Ages in `tick_service_bufs` are unsigned, and `now` is read before the mutex is waited for and not again
  after a retransmission gave it up (`halow_ack.c:1491`, `1542`): a bundle sent in between is younger
  than `now` and is dropped as past its deadline. `AckSlots` lets the deadline strike any slot in
  flight, so what it shows holds in this case too; that the bundle is lost is from reading the code.
* With `max_retries` set to 0 `halow_ack_tick` returns before the slots are served, so frames in
  flight keep their slots until retries are on again: `SlotsDrainWithRetries` has that condition.
* The first bundle of an unknown node is recorded in the dedup ring only (the peer entry is made
  after `rx_env`), and may be delivered again once the ring has moved on: it is `forgotten`.
* A bundle a whole window behind the newest is taken for a jump forward and resets the window; `NewestStays` and `AtMostOnce`
  name it as their exception. With 16 slots and a slot life of three seconds such a bundle needs 64 newer ones to be
  delivered in the time one is retried.
* Every start of the DHCP server, also one on an unchanged configuration, forgets the leases:
  `UniqueSinceStart` is about one start.
* A declined address is free again at once, although a comment says that it is kept until its
  lease expires.

## 6. Not modelled

* Arithmetic of the ACK timers, broadcast frames, ACK pacing by EVM: `AckSlots` and `AckLink`
  take their outcomes as free choices.
* Rate adaptation and the noise floor: fixed- and floating-point filters over measured values, of
  which a small instance says nothing.
* `tx_watchdog_bo_timeout`, CCA and gain control: register I/O.
* Updates: the web task and the TCP/IP thread overlapping inside an erase, the contents of files, TFTP.
* The byte ring of the UART, one producer and one consumer on one core, and lwIP's SLIP behind it.
* Packet parsing, configuration access, JSON and web formatting, logging, statistics, board support:
  conversions, copies or register I/O, with no state of their own that control depends on.
* The SDK, lwIP, FlashDB and the RTOS are environment. The SDK and the libraries are nearly all of the
  repository's lines, so the part of them that the map covers says little; of the firmware's own
  concurrent parts the modules cover the ACK layer, the TCP server, the link table, the DHCP server, the
  transmit path with its watchdogs, reassembly and updates.
* A composition of receive path, ring and transmit budget was tried: the product is beyond
  TLC, and the parts meet in one assumption only (a wait for the radio ends), which `WaitEnds` discharges.

## 7. Plan

Done, in this order: the ACK layer's transmit half and its proof; the sequence window and the
link; the TCP input; the DHCP server and its proof; the link database; the way out to the host, the
transmit budget, reassembly, and updates with the watchdog; the proofs of the link and its refinement, of the
ring to the host, of the budget and of reassembly; the proofs of the stream decoder, of the link database and its
refinement, of the link's types and of the watchdog's patience.

Left:

1. `AckTimers`: the 32-bit clock, the tick's clock read before the mutex, ages and backoff, by refining `Age`.
2. The UART's byte ring.
