-------------------------------- MODULE Frag --------------------------------
(***************************************************************************)
(* Fragmentation at the slowest rate, MCS 10 (halow.c): a sender cuts a    *)
(* packet into at most MaxTotal parts, the receiver puts them together in  *)
(* the one slot it has for all senders.                                    *)
(*                                                                         *)
(* A part names its packet by an 8-bit number that every sender counts by  *)
(* itself, from 0 at boot; the slot does not know who sent a part. The     *)
(* frames of a sender arrive in the order it sent them (one queue of the   *)
(* MAC, broadcast and so without retransmission), if they arrive. A unit   *)
(* of length stands for a run of bytes; a unit of a packet is the tuple    *)
(* of its sender, its packet, the packet's length and its place in it.     *)
(***************************************************************************)
EXTENDS Integers, Sequences, FiniteSets

CONSTANTS
  Senders,     \* the nodes that send
  Tasks,       \* the tasks of a node that send
  None,        \* no task, no unit
  MaxPayload,  \* HALOW_FRAG_MAX_PAYLOAD
  MaxTotal,    \* HALOW_FRAG_MAX_TOTAL
  Timeout,     \* HALOW_FRAG_TIMEOUT_MS
  Uuids,       \* values of a uint8_t
  Lens,        \* lengths of packets
  MaxPackets,  \* bound: packets the nodes send
  MaxBoots,    \* bound: restarts
  MaxAir       \* bound: frames of a node in its MAC

ASSUME FragAssumption ==
  /\ {MaxPayload, MaxTotal, Timeout, MaxPackets} \subseteq Nat \ {0} /\ MaxBoots \in Nat
  /\ MaxAir \in Nat \ {0}
  /\ Lens \subseteq Nat \ {0}
  /\ Uuids \in Nat /\ Uuids > MaxPackets
  /\ None \notin Tasks /\ IsFiniteSet(Senders)

BufSize == MaxPayload * MaxTotal

VARIABLES
  frag_tx_uuid,   \* each node's counter
  mu, frag,       \* its g_frag_mu (owner or None) and the frame it protects
  pc, job,        \* each task in halow_tx_mcs10_frag, and its packet
  air,            \* frames on the way from each node
  sent, boots,    \* packets of each node and restarts so far
  up,             \* time since a node's restart
  slot,           \* frag_reasm, with the senders whose parts it met
  buf,            \* its buffer
  age,            \* time since last_tick
  got,            \* history: what g_rx_cb was given for the last frame
  run             \* history: the parts that came in one after the other

sendVars == <<frag_tx_uuid, mu, frag, pc, job, sent, boots, up>>
rxVars == <<slot, buf, age, got, run>>
vars == <<sendVars, air, rxVars>>

NoFrame == [uuid |-> 0, total |-> 0, seq |-> 0, data |-> <<>>]
NoJob == [pkt |-> 0, len |-> 0, uuid |-> 0, i |-> 0]
NoRun == [pkt |-> <<>>, n |-> 0, total |-> 0]
Nothing == [data |-> <<>>, from |-> {}]
Later(t) == IF t > Timeout THEN t ELSE t + 1

Init ==
  /\ frag_tx_uuid = [s \in Senders |-> 0]
  /\ mu = [s \in Senders |-> None] /\ frag = [s \in Senders |-> NoFrame]
  /\ pc = [s \in Senders |-> [t \in Tasks |-> "idle"]]
  /\ job = [s \in Senders |-> [t \in Tasks |-> NoJob]]
  /\ air = [s \in Senders |-> <<>>]
  /\ sent = [s \in Senders |-> 0] /\ boots = 0
  /\ up = [s \in Senders |-> Timeout + 1]
  /\ slot = [active |-> FALSE, uuid |-> 0, total |-> 0, received |-> 0,
             part_len |-> [i \in 0 .. MaxTotal - 1 |-> 0], from |-> {}]
  /\ buf = [k \in 1 .. BufSize |-> None]
  /\ age = 0 /\ got = Nothing /\ run = NoRun

-----------------------------------------------------------------------------
(* halow_tx_mcs10_frag. *)

Units(s, p, len) == [k \in 1 .. len |-> <<s, p, len, k>>]

Parts(len) == (len + MaxPayload - 1) \div MaxPayload

ChunkLen(len, i) ==
  IF len - i * MaxPayload > MaxPayload THEN MaxPayload ELSE len - i * MaxPayload

Goto(s, t, where) == pc' = [pc EXCEPT ![s][t] = where]

SentSoFar == Cardinality({b \in Senders \X (1 .. MaxPackets) : b[2] <= sent[b[1]]})

\* The number is drawn with interrupts off, before the mutex. A packet of more
\* than MaxTotal parts is refused.
Draw(s, t, len) ==
  /\ pc[s][t] = "idle" /\ up[s] > Timeout
  /\ SentSoFar < MaxPackets /\ sent' = [sent EXCEPT ![s] = @ + 1]
  /\ IF len > BufSize THEN UNCHANGED <<frag_tx_uuid, pc, job>>
     ELSE /\ frag_tx_uuid' = [frag_tx_uuid EXCEPT ![s] = (@ + 1) % Uuids]
          /\ job' = [job EXCEPT ![s][t] = [pkt |-> sent'[s], len |-> len,
                                           uuid |-> frag_tx_uuid'[s], i |-> 0]]
          /\ Goto(s, t, "lock")
  /\ UNCHANGED <<mu, frag, boots, up, air, rxVars>>

Lock(s, t) ==
  /\ pc[s][t] = "lock" /\ mu[s] = None
  /\ mu' = [mu EXCEPT ![s] = t]
  /\ Goto(s, t, "fill")
  /\ UNCHANGED <<frag_tx_uuid, frag, job, sent, boots, up, air, rxVars>>

\* The header and the next part go into the static buffer.
Fill(s, t) ==
  LET j == job[s][t]
      off == j.i * MaxPayload
      chunk == ChunkLen(j.len, j.i)
  IN  /\ pc[s][t] = "fill"
      /\ frag' = [frag EXCEPT ![s] =
                    [uuid |-> j.uuid, total |-> Parts(j.len), seq |-> j.i,
                     data |-> SubSeq(Units(s, j.pkt, j.len), off + 1, off + chunk)]]
      /\ Goto(s, t, "send")
      /\ UNCHANGED <<frag_tx_uuid, mu, job, sent, boots, up, air, rxVars>>

\* Back to the caller, with the mutex given up.
Return(s, t) ==
  /\ mu' = [mu EXCEPT ![s] = None]
  /\ job' = [job EXCEPT ![s][t] = NoJob]
  /\ Goto(s, t, "idle")

\* halow_send_frame copies the buffer and hands the frame to the MAC.
SendPart(s, t) ==
  LET j == job[s][t]
  IN  /\ pc[s][t] = "send" /\ Len(air[s]) < MaxAir
      /\ air' = [air EXCEPT ![s] = Append(@, frag[s])]
      /\ IF j.i + 1 = Parts(j.len) THEN Return(s, t)
         ELSE /\ job' = [job EXCEPT ![s][t].i = @ + 1]
              /\ Goto(s, t, "fill") /\ UNCHANGED mu
      /\ UNCHANGED <<frag_tx_uuid, frag, sent, boots, up, rxVars>>

\* It fails, for want of memory or budget: the rest of the packet is not sent.
SendFails(s, t) ==
  /\ pc[s][t] = "send"
  /\ Return(s, t)
  /\ UNCHANGED <<frag_tx_uuid, frag, sent, boots, up, air, rxVars>>

\* A node restarts: what its MAC held is gone and its numbers start over. It does
\* not send for the five seconds main sleeps first.
Restart(s) ==
  /\ boots < MaxBoots
  /\ boots' = boots + 1 /\ up' = [up EXCEPT ![s] = 0]
  /\ frag_tx_uuid' = [frag_tx_uuid EXCEPT ![s] = 0]
  /\ mu' = [mu EXCEPT ![s] = None] /\ frag' = [frag EXCEPT ![s] = NoFrame]
  /\ pc' = [pc EXCEPT ![s] = [t \in Tasks |-> "idle"]]
  /\ job' = [job EXCEPT ![s] = [t \in Tasks |-> NoJob]]
  /\ air' = [air EXCEPT ![s] = <<>>]
  /\ UNCHANGED <<sent, rxVars>>

-----------------------------------------------------------------------------
(* halow_lmac_rx_mcs10. *)

\* The slot, or what is left of it: a part that comes too late finds it empty.
Current == slot.active /\ age <= Timeout

frag_reasm_reset(f) ==
  [active |-> TRUE, uuid |-> f.uuid, total |-> f.total, received |-> 0,
   part_len |-> [i \in 0 .. MaxTotal - 1 |-> 0], from |-> {}]

\* Mutant: neither the number nor the time is looked at.
Opened_any(f) == IF slot.active THEN slot ELSE frag_reasm_reset(f)

\* The slot that the part goes to.
Opened(f) == IF Current /\ slot.uuid = f.uuid THEN slot ELSE frag_reasm_reset(f)

\* Where a part goes: after the parts before it that are there.
Offset(r, seq) ==
  Cardinality({b \in (0 .. seq - 1) \X (1 .. MaxPayload) : b[2] <= r.part_len[b[1]]})

\* Mutant: a part that is there already is counted again.
Fits_twice(r, f) == f.seq < r.total /\ Offset(r, f.seq) + Len(f.data) <= BufSize

\* Mutant: the last byte of the buffer is not used.
Fits_below(r, f) ==
  /\ f.seq < r.total /\ r.part_len[f.seq] = 0
  /\ Offset(r, f.seq) + Len(f.data) < BufSize

\* frag_reasm_store takes the part: it belongs, is not there yet, and has room.
Fits(r, f) ==
  /\ f.seq < r.total /\ r.part_len[f.seq] = 0
  /\ Offset(r, f.seq) + Len(f.data) <= BufSize

frag_reasm_store(r, f, s) ==
  IF Fits(r, f)
    THEN [r EXCEPT !.part_len[f.seq] = Len(f.data), !.received = @ + 1,
                   !.from = @ \union {s}]
    ELSE [r EXCEPT !.from = @ \union {s}]

Written(r, f) ==
  IF Fits(r, f)
    THEN [k \in DOMAIN buf |->
            IF k \in Offset(r, f.seq) + 1 .. Offset(r, f.seq) + Len(f.data)
              THEN f.data[k - Offset(r, f.seq)] ELSE buf[k]]
    ELSE buf

\* History: the packet f is a part of, and how many of its parts have come in a row,
\* with no other packet's part and no timeout between them, since a moment when the
\* slot held no part under the same number.
Follow(f) ==
  LET pkt == <<f.data[1][1], f.data[1][2]>>
      free == ~(Current /\ slot.uuid = f.uuid)
      follows == run.pkt = pkt /\ run.n = f.seq /\ Current
  IN  IF (f.seq = 0 /\ free) \/ (f.seq > 0 /\ follows)
        THEN [pkt |-> pkt, n |-> f.seq + 1, total |-> f.total]
        ELSE NoRun

\* A packet of one part bypasses the slot.
ReceiveSingle(s) ==
  /\ air[s] # <<>> /\ Head(air[s]).total = 1
  /\ got' = [data |-> Head(air[s]).data, from |-> {s}]
  /\ air' = [air EXCEPT ![s] = Tail(@)]
  /\ UNCHANGED <<sendVars, slot, buf, age, run>>

ReceivePart(s) ==
  LET f == Head(air[s])
      r == Opened(f)
      stored == frag_reasm_store(r, f, s)
      complete == stored.received = stored.total
      length == Offset(stored, stored.total)
  IN  /\ air[s] # <<>> /\ f.total > 1
      /\ buf' = Written(r, f)
      /\ slot' = [stored EXCEPT !.active = ~complete]
      /\ got' = IF complete THEN [data |-> SubSeq(buf', 1, length), from |-> stored.from] ELSE Nothing
      /\ age' = 0
      /\ run' = Follow(f)
      /\ air' = [air EXCEPT ![s] = Tail(@)]
      /\ UNCHANGED sendVars

Lose(s) ==
  /\ air[s] # <<>>
  /\ air' = [air EXCEPT ![s] = Tail(@)]
  /\ UNCHANGED <<sendVars, rxVars>>

\* Time passes.
Tick ==
  /\ age' = Later(age)
  /\ up' = [s \in Senders |-> Later(up[s])]
  /\ UNCHANGED <<frag_tx_uuid, mu, frag, pc, job, air, sent, boots, slot, buf, got, run>>

Next ==
  \/ \E s \in Senders, t \in Tasks :
       (\E l \in Lens : Draw(s, t, l)) \/ Lock(s, t) \/ Fill(s, t) \/ SendPart(s, t) \/ SendFails(s, t)
  \/ \E s \in Senders : Restart(s) \/ ReceiveSingle(s) \/ ReceivePart(s) \/ Lose(s)
  \/ Tick

Spec == Init /\ [][Next]_vars

-----------------------------------------------------------------------------
(* Properties. *)

TypeOK ==
  /\ frag_tx_uuid \in [Senders -> 0 .. Uuids - 1] /\ mu \in [Senders -> Tasks \union {None}]
  /\ pc \in [Senders -> [Tasks -> {"idle", "lock", "fill", "send"}]]
  /\ \A s \in Senders, t \in Tasks : (pc[s][t] \in {"fill", "send"}) = (mu[s] = t)
  /\ sent \in [Senders -> 0 .. MaxPackets] /\ boots \in 0 .. MaxBoots
  /\ up \in [Senders -> 0 .. Timeout + 1] /\ age \in 0 .. Timeout + 1
  /\ slot.active \in BOOLEAN /\ slot.total \in 0 .. MaxTotal
  /\ slot.part_len \in [0 .. MaxTotal - 1 -> 0 .. MaxPayload]
  /\ slot.received = Cardinality({i \in DOMAIN slot.part_len : slot.part_len[i] > 0})
  /\ slot.active => slot.received \in 1 .. slot.total - 1

Packet(d, pkt) == \A k \in DOMAIN d : d[k] = <<pkt[1], pkt[2], Len(d), k>>

\* What is handed up is a packet somebody sent, whole, although parts are placed
\* by the parts before them, the buffer is never cleared and the numbers start
\* over after a restart; the exception is a slot that met parts of two senders
\* under the same number, which nothing keeps apart.
WholeOfOneSender ==
  Cardinality(got.from) = 1 => Packet(got.data, <<got.data[1][1], got.data[1][2]>>)

\* A packet whose parts come one after the other is handed up with its last part,
\* whatever an unfinished packet left in the slot, however short packets come
\* in between, and whoever else sends, unless the slot held its number already.
UndisturbedIsDelivered ==
  [][(run' # run /\ run' # NoRun /\ run'.n = run'.total)
       => got' # Nothing /\ Packet(got'.data, run'.pkt)]_vars
=============================================================================
