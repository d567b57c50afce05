----------------------------- MODULE FragProofs -----------------------------
(***************************************************************************)
(* Proofs about fragmentation and reassembly, for any number of senders,   *)
(* tasks and parts and any lengths: what is handed up from a slot that met *)
(* one sender is a packet of that sender, whole, and a packet whose parts  *)
(* come one after the other is handed up.                                  *)
(***************************************************************************)
EXTENDS Frag, FiniteSetTheorems, SequenceTheorems, TLAPS

-----------------------------------------------------------------------------
(* The inductive invariant. *)

Unit == Senders \X Nat \X Nat \X Nat
Frame == [uuid : Nat, total : Nat, seq : Nat, data : Seq(Unit)]
Job == [pkt : Nat, len : Nat, uuid : Nat, i : Nat]

Slots == [active : BOOLEAN, uuid : Nat, total : Nat, received : Nat,
          part_len : [0 .. MaxTotal - 1 -> 0 .. MaxPayload], from : SUBSET Senders]

\* The types that TypeOK leaves out.
MoreTypes ==
  /\ air \in [Senders -> Seq(Frame)] /\ frag \in [Senders -> Frame]
  /\ job \in [Senders -> [Tasks -> Job]]
  /\ buf \in [1 .. BufSize -> Unit \cup {None}]
  /\ slot \in Slots

\* The units of a packet before part i.
Off(i) == i * MaxPayload

\* Frame f carries part c.i of the packet of node s that job c names.
Carries(f, s, c) ==
  /\ f.uuid = c.uuid /\ f.total = Parts(c.len) /\ f.seq = c.i
  /\ Len(f.data) = ChunkLen(c.len, c.i)
  /\ \A k \in 1 .. Len(f.data) : f.data[k] = <<s, c.pkt, c.len, Off(c.i) + k>>

\* The job that a frame is a part of.
JobOf(f) == [pkt |-> f.data[1][2], len |-> f.data[1][3], uuid |-> f.uuid, i |-> f.seq]

\* A node that has counted n packets and given out u numbers took job c.
Took(c, n, u) ==
  /\ c.pkt \in 1 .. n /\ c.len \in Lens /\ c.len <= BufSize
  /\ c.uuid \in 1 .. u /\ c.i \in 0 .. Parts(c.len) - 1

Busy(s, t) == pc[s][t] # "idle"

JobsOK(s) ==
  \A t \in Tasks : Busy(s, t) =>
    /\ Took(job[s][t], sent[s], frag_tx_uuid[s])
    /\ pc[s][t] = "lock" => job[s][t].i = 0
    /\ pc[s][t] = "send" => Carries(frag[s], s, job[s][t])

FramesOK(s) ==
  \A n \in 1 .. Len(air[s]) :
    /\ Took(JobOf(air[s][n]), sent[s], frag_tx_uuid[s])
    /\ Carries(air[s][n], s, JobOf(air[s][n]))

\* The numbers of one start do not wrap, and a node that has just started is silent.
Started(s) ==
  /\ frag_tx_uuid[s] <= sent[s]
  /\ air[s] # <<>> => up[s] > Timeout
  /\ \A t \in Tasks : Busy(s, t) => up[s] > Timeout

\* A number stands for one packet, and c is an earlier part of it than d.
Before(c, d) ==
  /\ c.uuid = d.uuid <=> c.pkt = d.pkt
  /\ c.uuid = d.uuid => c.len = d.len /\ c.i < d.i

\* The frames and the tasks of a node: one packet per number, its parts in order.
InOrder(s) ==
  /\ \A t, v \in Tasks : Busy(s, t) /\ Busy(s, v) /\ t # v =>
       job[s][t].uuid # job[s][v].uuid /\ job[s][t].pkt # job[s][v].pkt
  /\ \A m, n \in 1 .. Len(air[s]) : m < n => Before(JobOf(air[s][m]), JobOf(air[s][n]))
  /\ \A n \in 1 .. Len(air[s]), t \in Tasks : Busy(s, t) => Before(JobOf(air[s][n]), job[s][t])

Node(s) == JobsOK(s) /\ FramesOK(s) /\ Started(s) /\ InOrder(s)

\* What is still to come of node s.
Coming(s) ==
  {JobOf(air[s][n]) : n \in 1 .. Len(air[s])} \cup {job[s][t] : t \in {v \in Tasks : Busy(s, v)}}

\* What is to come under number u is of packet p, from part n on.
Rest(s, u, p, len, n) ==
  \A c \in Coming(s) : c.uuid = u => c.pkt = p /\ c.len = len /\ c.i >= n

\* The slot holds the first n parts of a packet, and only those.
Holds(s, p, len, n) ==
  /\ 0 < n /\ n < Parts(len)
  /\ slot.total = Parts(len)
  /\ \A i \in 0 .. MaxTotal - 1 : slot.part_len[i] = IF i < n THEN MaxPayload ELSE 0
  /\ \A k \in 1 .. Off(n) : buf[k] = <<s, p, len, k>>

\* A slot that met one node only is of one packet of it: it holds the first parts,
\* or misses one that will not come.
OfPacket(s, p, len, n) ==
  /\ len <= BufSize /\ p <= sent[s] /\ slot.uuid <= frag_tx_uuid[s]
  /\ slot.total = Parts(len) /\ n < Parts(len)
  /\ \/ Holds(s, p, len, n) /\ Rest(s, slot.uuid, p, len, n)
     \/ slot.part_len[n] = 0 /\ Rest(s, slot.uuid, p, len, n + 1)

OneSender(s) ==
  \E p \in 1 .. MaxPackets, len \in Lens, n \in 0 .. MaxTotal - 1 : OfPacket(s, p, len, n)

\* ... unless the node has started since: then the slot is as old as that, and too
\* old when the node sends. No part beyond the last one is there.
SlotOK ==
  slot.active =>
    /\ slot.from # {}
    /\ \A i \in 0 .. MaxTotal - 1 : i >= slot.total => slot.part_len[i] = 0
    /\ \A s \in Senders : slot.from = {s} => age >= up[s] \/ OneSender(s)

\* What is to come of packet p has number u.
SameNumber(s, u, p, len) ==
  \A c \in Coming(s) : c.pkt = p => c.uuid = u /\ c.len = len

\* The parts that came in a row are what the slot holds.
RunOf(s, p, len) ==
  /\ len <= BufSize /\ p <= sent[s] /\ run.pkt = <<s, p>> /\ run.total = Parts(len)
  /\ Holds(s, p, len, run.n) /\ SameNumber(s, slot.uuid, p, len)

RunOK ==
  slot.active /\ run.n > 0 =>
    \E s \in Senders, p \in 1 .. MaxPackets, len \in Lens : RunOf(s, p, len)

IInv ==
  /\ TypeOK /\ MoreTypes /\ \A s \in Senders : Node(s)
  /\ SlotOK /\ RunOK /\ WholeOfOneSender

\* TypeOK, for the senders and for the slot.
SendTypes ==
  /\ frag_tx_uuid \in [Senders -> 0 .. Uuids - 1] /\ mu \in [Senders -> Tasks \union {None}]
  /\ pc \in [Senders -> [Tasks -> {"idle", "lock", "fill", "send"}]]
  /\ \A s \in Senders, t \in Tasks : (pc[s][t] \in {"fill", "send"}) = (mu[s] = t)
  /\ sent \in [Senders -> 0 .. MaxPackets] /\ boots \in 0 .. MaxBoots
  /\ up \in [Senders -> 0 .. Timeout + 1]

SlotTypes ==
  /\ age \in 0 .. Timeout + 1
  /\ slot.active \in BOOLEAN /\ slot.total \in 0 .. MaxTotal
  /\ slot.part_len \in [0 .. MaxTotal - 1 -> 0 .. MaxPayload]
  /\ slot.received = Cardinality({i \in DOMAIN slot.part_len : slot.part_len[i] > 0})
  /\ slot.active => slot.received \in 1 .. slot.total - 1

LEMMA TypeParts == TypeOK <=> SendTypes /\ SlotTypes
BY DEF TypeOK, SendTypes, SlotTypes

-----------------------------------------------------------------------------
(* Constants, and the arithmetic of parts. *)

LEMMA FragConstants ==
  /\ MaxPayload \in Nat /\ MaxPayload > 0 /\ MaxTotal \in Nat /\ MaxTotal > 0
  /\ Timeout \in Nat /\ Timeout > 0 /\ MaxPackets \in Nat /\ MaxPackets > 0
  /\ MaxBoots \in Nat /\ MaxAir \in Nat /\ MaxAir > 0
  /\ Uuids \in Nat /\ Uuids > MaxPackets
  /\ None \notin Tasks /\ IsFiniteSet(Senders)
  /\ \A l \in Lens : l \in Nat /\ l > 0
<1>1. {MaxPayload, MaxTotal, Timeout, MaxPackets} \subseteq Nat \ {0} /\ Lens \subseteq Nat \ {0}
  BY FragAssumption
<1>2. \A l \in Lens : l \in Nat /\ l > 0
  BY <1>1
<1>3. \A x \in {MaxPayload, MaxTotal, Timeout, MaxPackets} : x \in Nat /\ x > 0
  BY <1>1
<1>4. MaxAir \in Nat /\ MaxAir > 0 /\ MaxBoots \in Nat /\ Uuids \in Nat /\ Uuids > MaxPackets
  BY FragAssumption
<1>5. None \notin Tasks /\ IsFiniteSet(Senders)
  BY FragAssumption
<1> QED
  BY <1>2, <1>3, <1>4, <1>5

LEMMA OffFacts ==
  /\ Off(0) = 0 /\ Off(MaxTotal) = BufSize
  /\ \A i \in Nat : Off(i) \in Nat /\ Off(i + 1) = Off(i) + MaxPayload
  /\ \A i, j \in Nat : i < j => Off(i) + MaxPayload <= Off(j)
<1> DEFINE P == MaxPayload
<1>1. P \in Nat /\ P > 0 /\ MaxTotal \in Nat
  BY FragConstants
<1> HIDE DEF P
<1>2. 0 * P = 0 /\ MaxTotal * P = P * MaxTotal
  BY <1>1
<1>3. ASSUME NEW i \in Nat PROVE i * P \in Nat /\ (i + 1) * P = i * P + P
  BY <1>1
<1>4. ASSUME NEW i \in Nat, NEW j \in Nat, i < j PROVE i * P + P <= j * P
  <2>1. j - (i + 1) \in Nat
    BY <1>4
  <2>2. (j - (i + 1)) * P \in Nat
    BY <2>1, <1>1
  <2>3. j * P = (j - (i + 1)) * P + (i + 1) * P
    BY <1>1
  <2> QED
    BY <2>2, <2>3, <1>3, <1>1
<1> QED
  BY <1>2, <1>3, <1>4 DEF Off, BufSize, P

\* Where the parts of a packet begin and end.
LEMMA PartFacts ==
  ASSUME NEW len \in Lens, len <= BufSize
  PROVE  /\ Parts(len) \in 1 .. MaxTotal
         /\ \A i \in 0 .. Parts(len) - 1 :
              /\ ChunkLen(len, i) \in 1 .. MaxPayload /\ Off(i) + ChunkLen(len, i) <= len
              /\ i + 1 < Parts(len) => ChunkLen(len, i) = MaxPayload
              /\ i + 1 = Parts(len) => Off(i) + ChunkLen(len, i) = len
<1> DEFINE P == MaxPayload
           n == Parts(len)
<1>1. P \in Nat /\ P > 0 /\ MaxTotal \in Nat /\ len \in Nat /\ len > 0 /\ BufSize \in Nat
      /\ Off(MaxTotal) = BufSize
  BY FragConstants, OffFacts
<1>2. n = (len + P - 1) \div P
  BY DEF Parts
<1> HIDE DEF P, n
<1>3. n \in Nat /\ n * P <= len + P - 1 /\ len + P - 1 < n * P + P
  <2>1. ASSUME NEW a \in Nat, NEW b \in Nat, b > 0
        PROVE  (a \div b) \in Nat /\ (a \div b) * b <= a /\ a < (a \div b) * b + b
    BY <2>1
  <2>2. len + P - 1 \in Nat
    BY <1>1
  <2> QED
    BY <1>1, <1>2, <2>1, <2>2
<1>4. n # 0
  BY <1>1, <1>3
<1>5. Off(n) < len + P /\ len <= Off(n)
  BY <1>1, <1>3 DEF Off, P
<1>6. n <= MaxTotal
  <2>1. SUFFICES ASSUME MaxTotal < n PROVE FALSE
    BY <1>1, <1>3
  <2>2. Off(MaxTotal) + P <= Off(n)
    BY <2>1, <1>1, <1>3, OffFacts DEF P
  <2>3. Off(n) \in Nat
    BY <1>3, OffFacts
  <2> QED
    BY <2>2, <2>3, <1>1, <1>5
<1>7. ASSUME NEW i \in 0 .. n - 1
      PROVE  /\ ChunkLen(len, i) \in 1 .. P /\ Off(i) + ChunkLen(len, i) <= len
             /\ i + 1 < n => ChunkLen(len, i) = P
             /\ i + 1 = n => Off(i) + ChunkLen(len, i) = len
  <2>1. i \in Nat /\ i < n /\ Off(i) \in Nat /\ Off(n) \in Nat /\ Off(i) + P <= Off(n)
    BY <1>3, OffFacts DEF P
  <2>2. i + 1 = n => Off(n) = Off(i) + P
    BY <2>1, OffFacts DEF P
  <2>3. i + 1 < n => Off(i) + P + P <= Off(n)
    <3>1. i + 1 \in Nat
      BY <2>1
    <3> QED
      BY <3>1, <2>1, <1>3, OffFacts DEF P
  <2>4. ChunkLen(len, i) = IF len - Off(i) > P THEN P ELSE len - Off(i)
    BY DEF ChunkLen, Off, P
  <2> QED
    BY <1>1, <1>3, <1>5, <2>1, <2>2, <2>3, <2>4
<1> QED
  BY <1>3, <1>4, <1>6, <1>7, <1>1 DEF n, P

-----------------------------------------------------------------------------
(* Frames. *)

\* A frame tells the job it is a part of.
LEMMA JobOfCarried ==
  ASSUME NEW f \in Frame, NEW s \in Senders, NEW c \in Job, NEW n, NEW u,
         Took(c, n, u), Carries(f, s, c)
  PROVE  JobOf(f) = c
<1>1. Len(f.data) >= 1 /\ Len(f.data) \in Nat
  BY PartFacts, FragConstants DEF Took, Carries
<1>2. f.data[1] = <<s, c.pkt, c.len, Off(c.i) + 1>>
  BY <1>1 DEF Carries
<1>3. f.data[1][2] = c.pkt /\ f.data[1][3] = c.len /\ f.uuid = c.uuid /\ f.seq = c.i
  BY <1>2 DEF Carries
<1> QED
  BY <1>3 DEF JobOf, Job

\* What Fill puts into the buffer carries the part.
LEMMA FilledCarries ==
  ASSUME NEW s \in Senders, NEW c \in Job, NEW n, NEW u, Took(c, n, u),
         NEW f, f = [uuid |-> c.uuid, total |-> Parts(c.len), seq |-> c.i,
                     data |-> SubSeq(Units(s, c.pkt, c.len), c.i * MaxPayload + 1,
                                     c.i * MaxPayload + ChunkLen(c.len, c.i))]
  PROVE  f \in Frame /\ Carries(f, s, c)
<1> DEFINE a == Off(c.i)
           z == ChunkLen(c.len, c.i)
           U == Units(s, c.pkt, c.len)
<1>1. a \in Nat /\ z \in Nat /\ z >= 1 /\ a + z <= c.len /\ c.len \in Nat /\ c.pkt \in Nat
  <2>1. c.len \in Lens /\ c.len <= BufSize /\ c.i \in 0 .. Parts(c.len) - 1 /\ c.i \in Nat
        /\ c.len \in Nat /\ c.pkt \in Nat
    BY DEF Took, Job
  <2>2. Off(c.i) \in Nat
    BY <2>1, OffFacts
  <2>3. ChunkLen(c.len, c.i) \in 1 .. MaxPayload /\ Off(c.i) + ChunkLen(c.len, c.i) <= c.len
    BY <2>1, PartFacts
  <2> QED
    BY <2>1, <2>2, <2>3, FragConstants
<1>2. f.data = SubSeq(U, a + 1, a + z)
  BY DEF Off
<1> HIDE DEF a, z
<1>3. \A k \in a + 1 .. a + z : k \in 1 .. c.len /\ U[k] = <<s, c.pkt, c.len, k>>
  BY <1>1 DEF Units
<1>4. \A k \in a + 1 .. a + z : U[k] \in Unit
  <2>1. \A k \in Nat : <<s, c.pkt, c.len, k>> \in Unit
    BY <1>1 DEF Unit
  <2>2. \A k \in a + 1 .. a + z : k \in Nat
    BY <1>1
  <2> QED
    BY <1>3, <2>1, <2>2
<1> HIDE DEF U
<1>5. /\ f.data \in Seq(Unit) /\ Len(f.data) = z
      /\ \A k \in 1 .. z : f.data[k] = U[a + k]
  <2>1. a + 1 \in Int /\ a + z \in Int /\ a + 1 <= a + z /\ a + z - (a + 1) + 1 = z
    BY <1>1
  <2>2. /\ SubSeq(U, a + 1, a + z) \in Seq(Unit) /\ Len(SubSeq(U, a + 1, a + z)) = z
        /\ \A k \in 1 .. z : SubSeq(U, a + 1, a + z)[k] = U[a + 1 + k - 1]
    <3> DEFINE m == a + 1
               e == a + z
    <3>1. \A k \in m .. e : U[k] \in Unit
      BY <1>4, Zenon
    <3>a. m \in Int /\ e \in Int /\ m <= e /\ e - m + 1 = z
      BY <1>1
    <3> HIDE DEF m, e
    <3>2. /\ SubSeq(U, m, e) \in Seq(Unit)
          /\ Len(SubSeq(U, m, e)) = IF m <= e THEN e - m + 1 ELSE 0
          /\ \A k \in 1 .. e - m + 1 : SubSeq(U, m, e)[k] = U[m + k - 1]
      BY <3>1, <3>a, SubSeqProperties
    <3> QED
      BY <3>a, <3>2 DEF m, e
  <2>3. \A k \in 1 .. z : a + 1 + k - 1 = a + k
    BY <1>1
  <2> QED
    BY <1>2, <2>2, <2>3
<1>6. \A k \in 1 .. z : f.data[k] = <<s, c.pkt, c.len, a + k>>
  <2>1. \A k \in 1 .. z : a + k \in a + 1 .. a + z
    BY <1>1
  <2> QED
    BY <1>3, <1>5, <2>1
<1>7. Parts(c.len) \in Nat
  BY PartFacts, FragConstants DEF Took
<1>8. f \in Frame
  BY <1>5, <1>7 DEF Frame, Job
<1> QED
  BY <1>5, <1>6, <1>8 DEF Carries, a, z

LEMMA TookMore ==
  ASSUME NEW c, NEW n \in Nat, NEW u \in Nat, NEW m \in Nat, NEW v \in Nat,
         Took(c, n, u), n <= m, u <= v
  PROVE  Took(c, m, v)
BY DEF Took

\* Types of what belongs to a node.
LEMMA NodeTypes ==
  ASSUME TypeOK, MoreTypes, NEW s \in Senders
  PROVE  /\ air[s] \in Seq(Frame) /\ Len(air[s]) \in Nat /\ frag[s] \in Frame
         /\ sent[s] \in Nat /\ sent[s] <= MaxPackets
         /\ frag_tx_uuid[s] \in Nat /\ up[s] \in Nat /\ up[s] <= Timeout + 1
         /\ \A t \in Tasks : job[s][t] \in Job /\ pc[s][t] \in {"idle", "lock", "fill", "send"}
         /\ \A n \in 1 .. Len(air[s]) : air[s][n] \in Frame
<1>1. air[s] \in Seq(Frame) /\ frag[s] \in Frame /\ \A t \in Tasks : job[s][t] \in Job
  BY DEF MoreTypes
<1>2. \A n \in 1 .. Len(air[s]) : air[s][n] \in Frame
  BY <1>1, ElementOfSeq
<1>3. /\ sent[s] \in 0 .. MaxPackets /\ frag_tx_uuid[s] \in 0 .. Uuids - 1 /\ up[s] \in 0 .. Timeout + 1
      /\ \A t \in Tasks : pc[s][t] \in {"idle", "lock", "fill", "send"}
  BY DEF TypeOK
<1>4. Len(air[s]) \in Nat
  BY <1>1, LenProperties
<1> QED
  BY <1>1, <1>2, <1>3, <1>4, FragConstants

LEMMA ComingJobs ==
  ASSUME TypeOK, MoreTypes, NEW s \in Senders, Node(s), NEW c \in Coming(s)
  PROVE  c \in Job /\ Took(c, sent[s], frag_tx_uuid[s])
<1>1. CASE \E n \in 1 .. Len(air[s]) : c = JobOf(air[s][n])
  <2>1. PICK n \in 1 .. Len(air[s]) : c = JobOf(air[s][n])
    BY <1>1
  <2>2. Took(c, sent[s], frag_tx_uuid[s]) /\ air[s][n] \in Frame
    BY <2>1, NodeTypes DEF Node, FramesOK
  <2>3. c.pkt \in Nat /\ c.len \in Nat /\ c.uuid \in Nat /\ c.i \in Nat
    BY <2>2, FragConstants DEF Took
  <2> QED
    BY <2>1, <2>2, <2>3 DEF JobOf, Job
<1>2. CASE \E t \in Tasks : Busy(s, t) /\ c = job[s][t]
  BY <1>2, NodeTypes DEF Node, JobsOK
<1> QED
  BY <1>1, <1>2 DEF Coming

\* A node that nothing happens to.
LEMMA Elsewhere ==
  ASSUME NEW v \in Senders, Node(v),
         air'[v] = air[v], frag'[v] = frag[v], pc'[v] = pc[v], job'[v] = job[v],
         sent'[v] = sent[v], frag_tx_uuid'[v] = frag_tx_uuid[v],
         up[v] > Timeout => up'[v] > Timeout
  PROVE  Node(v)' /\ Coming(v)' = Coming(v)
<1>1. JobsOK(v)' /\ FramesOK(v)'
  BY DEF Node, JobsOK, FramesOK, Busy
<1>2. Started(v)'
  BY DEF Node, Started, Busy
<1>3. InOrder(v)'
  BY DEF Node, InOrder, Busy
<1>4. Coming(v)' = Coming(v)
  BY DEF Coming, Busy
<1> QED
  BY <1>1, <1>2, <1>3, <1>4 DEF Node

-----------------------------------------------------------------------------
(* Steps that leave the slot alone. *)

\* What is to come of node s after a step was to come before it, or is new.
Moved(s) ==
  \A c \in Coming(s)' :
    \/ \E d \in Coming(s) : /\ c.uuid = d.uuid /\ c.pkt = d.pkt /\ c.len = d.len
                            /\ c.i \in Nat /\ d.i \in Nat /\ c.i >= d.i
    \/ c.uuid > frag_tx_uuid[s] /\ c.pkt > sent[s]

LEMMA RestMoved ==
  ASSUME NEW s \in Senders, Moved(s), sent[s] \in Nat, frag_tx_uuid[s] \in Nat,
         NEW u \in Nat, NEW p \in Nat, NEW len, NEW n \in Nat
  PROVE  /\ u <= frag_tx_uuid[s] /\ Rest(s, u, p, len, n) => Rest(s, u, p, len, n)'
         /\ p <= sent[s] /\ SameNumber(s, u, p, len) => SameNumber(s, u, p, len)'
<1>1. ASSUME u <= frag_tx_uuid[s], Rest(s, u, p, len, n), NEW c \in Coming(s)', c.uuid = u
      PROVE  c.pkt = p /\ c.len = len /\ c.i >= n
  <2>1. ~(c.uuid > frag_tx_uuid[s])
    BY <1>1
  <2>2. PICK d \in Coming(s) : /\ c.uuid = d.uuid /\ c.pkt = d.pkt /\ c.len = d.len
                               /\ c.i \in Nat /\ d.i \in Nat /\ c.i >= d.i
    BY <1>1, <2>1 DEF Moved
  <2>3. d.pkt = p /\ d.len = len /\ d.i >= n
    BY <1>1, <2>2 DEF Rest
  <2> QED
    BY <2>2, <2>3
<1>2. ASSUME p <= sent[s], SameNumber(s, u, p, len), NEW c \in Coming(s)', c.pkt = p
      PROVE  c.uuid = u /\ c.len = len
  <2>1. ~(c.pkt > sent[s])
    BY <1>2
  <2>2. PICK d \in Coming(s) : c.uuid = d.uuid /\ c.pkt = d.pkt /\ c.len = d.len
    BY <1>2, <2>1 DEF Moved
  <2> QED
    BY <1>2, <2>2 DEF SameNumber
<1> QED
  BY <1>1, <1>2 DEF Rest, SameNumber

LEMMA SlotKept ==
  ASSUME TypeOK, MoreTypes, SlotOK, RunOK, UNCHANGED <<slot, buf, run>>,
         \A s \in Senders : Moved(s) /\ sent'[s] \in Nat /\ sent'[s] >= sent[s],
         \A s \in Senders : \/ frag_tx_uuid'[s] \in Nat /\ frag_tx_uuid'[s] >= frag_tx_uuid[s]
                            \/ age' >= up'[s],
         \A s \in Senders : age >= up[s] => age' >= up'[s]
  PROVE  SlotOK' /\ RunOK'
<1>a. \A s \in Senders : sent[s] \in Nat /\ frag_tx_uuid[s] \in Nat
  BY NodeTypes
<1>b. slot.uuid \in Nat
  BY DEF MoreTypes, Slots
<1>c. MaxPackets \in Nat /\ MaxTotal \in Nat
  BY FragConstants
<1>d. \A s, p, len, n : Holds(s, p, len, n)' <=> Holds(s, p, len, n)
  BY DEF Holds
<1>1. ASSUME slot.active, NEW s \in Senders, slot.from = {s}
      PROVE  age' >= up'[s] \/ OneSender(s)'
  <2>1. CASE age >= up[s]
    BY <2>1
  <2>2. CASE OneSender(s) /\ frag_tx_uuid'[s] \in Nat /\ frag_tx_uuid'[s] >= frag_tx_uuid[s]
    <3>1. PICK p \in 1 .. MaxPackets, len \in Lens, n \in 0 .. MaxTotal - 1 : OfPacket(s, p, len, n)
      BY <2>2 DEF OneSender
    <3>2. p \in Nat /\ n \in Nat /\ n + 1 \in Nat
      BY <1>c
    <3>3. len <= BufSize /\ p <= sent'[s] /\ slot.uuid <= frag_tx_uuid'[s]
      BY <1>a, <1>b, <2>2, <3>1, <3>2 DEF OfPacket
    <3>4. /\ Rest(s, slot.uuid, p, len, n) => Rest(s, slot.uuid, p, len, n)'
          /\ Rest(s, slot.uuid, p, len, n + 1) => Rest(s, slot.uuid, p, len, n + 1)'
      <4>1. ASSUME NEW u, u = slot.uuid, NEW m \in Nat, Rest(s, u, p, len, m)
            PROVE  Rest(s, u, p, len, m)'
        BY <1>a, <1>b, <3>1, <3>2, <4>1, RestMoved DEF OfPacket
      <4> QED
        BY <3>2, <4>1 DEF Rest
    <3>5. OfPacket(s, p, len, n)'
      BY <1>d, <3>1, <3>3, <3>4 DEF OfPacket
    <3> QED
      BY <3>5 DEF OneSender
  <2> QED
    BY <1>1, <2>1, <2>2 DEF SlotOK
<1>2. SlotOK'
  BY <1>1 DEF SlotOK
<1>3. ASSUME slot.active, run.n > 0
      PROVE  (\E s \in Senders, p \in 1 .. MaxPackets, len \in Lens : RunOf(s, p, len))'
  <2>1. PICK s \in Senders, p \in 1 .. MaxPackets, len \in Lens : RunOf(s, p, len)
    BY <1>3 DEF RunOK
  <2>2. p \in Nat /\ p <= sent'[s] /\ p <= sent[s]
    BY <1>a, <1>c, <2>1 DEF RunOf
  <2>3. ASSUME NEW u, u = slot.uuid, SameNumber(s, u, p, len)
        PROVE  SameNumber(s, u, p, len)'
    BY <1>a, <1>b, <2>2, <2>3, RestMoved
  <2>4. SameNumber(s, slot.uuid, p, len)'
    BY <2>1, <2>3 DEF RunOf, SameNumber
  <2>5. RunOf(s, p, len)'
    BY <1>d, <2>1, <2>2, <2>4 DEF RunOf, Holds
  <2> QED
    BY <2>5
<1>4. RunOK'
  BY <1>3 DEF RunOK
<1> QED
  BY <1>2, <1>4

\* A step of one node.
LEMMA NodeStep ==
  ASSUME IInv, NEW s \in Senders, SendTypes', MoreTypes', Node(s)', Moved(s),
         sent'[s] \in Nat /\ sent'[s] >= sent[s],
         frag_tx_uuid'[s] \in Nat /\ frag_tx_uuid'[s] >= frag_tx_uuid[s],
         UNCHANGED <<slot, buf, run, age, up>>, WholeOfOneSender',
         \A v \in Senders \ {s} : /\ air'[v] = air[v] /\ frag'[v] = frag[v] /\ pc'[v] = pc[v]
                                  /\ job'[v] = job[v] /\ sent'[v] = sent[v]
                                  /\ frag_tx_uuid'[v] = frag_tx_uuid[v]
  PROVE  IInv'
<1>a. TypeOK /\ MoreTypes /\ SlotOK /\ RunOK /\ SlotTypes /\ \A v \in Senders : Node(v)
  BY TypeParts DEF IInv
<1>1. \A v \in Senders \ {s} : Node(v)' /\ Coming(v)' = Coming(v)
  <2>1. \A v \in Senders : up'[v] = up[v]
    OBVIOUS
  <2> QED
    BY <1>a, <2>1, Elsewhere
<1>2. \A v \in Senders : Moved(v)
  <2>1. ASSUME NEW v \in Senders \ {s} PROVE Moved(v)
    <3>1. \A c \in Coming(v) : c.i \in Nat /\ c.i >= c.i
      BY <1>a, ComingJobs DEF Job
    <3> QED
      BY <1>1, <3>1 DEF Moved
  <2> QED
    BY <2>1
<1>3. /\ \A v \in Senders : sent'[v] \in Nat /\ sent'[v] >= sent[v]
      /\ \A v \in Senders : frag_tx_uuid'[v] \in Nat /\ frag_tx_uuid'[v] >= frag_tx_uuid[v]
  BY <1>a, NodeTypes
<1>4. \A v \in Senders : age >= up[v] => age' >= up'[v]
  OBVIOUS
<1>5. SlotOK' /\ RunOK'
  BY <1>a, <1>2, <1>3, <1>4, SlotKept
<1>6. SlotTypes'
  BY <1>a DEF SlotTypes
<1>7. TypeOK'
  BY <1>6 DEF TypeOK, SendTypes, SlotTypes
<1>8. \A v \in Senders : Node(v)'
  BY <1>1
<1> QED
  BY <1>5, <1>7, <1>8 DEF IInv

-----------------------------------------------------------------------------
(* The steps of a sender. *)

LEMMA SentRoom ==
  ASSUME TypeOK, NEW s \in Senders, SentSoFar < MaxPackets
  PROVE  sent[s] + 1 \in 1 .. MaxPackets
<1> DEFINE B == {b \in Senders \X (1 .. MaxPackets) : b[2] <= sent[b[1]]}
           A == {s} \X (1 .. MaxPackets)
<1>a. MaxPackets \in Nat /\ IsFiniteSet(Senders) /\ sent \in [Senders -> 0 .. MaxPackets]
  BY FragConstants DEF TypeOK
<1>1. SUFFICES ASSUME sent[s] = MaxPackets PROVE FALSE
  BY <1>a
<1>2. IsFiniteSet(1 .. MaxPackets) /\ Cardinality(1 .. MaxPackets) = MaxPackets
  <2>1. ASSUME NEW k \in Nat PROVE IsFiniteSet(1 .. k) /\ Cardinality(1 .. k) = k
    BY FS_Interval
  <2> QED
    BY <1>a, <2>1
<1>3. IsFiniteSet({s}) /\ Cardinality({s}) = 1
  BY FS_Singleton
<1>4. IsFiniteSet(A) /\ Cardinality(A) = 1 * MaxPackets
  <2> DEFINE K == 1 .. MaxPackets
             Z == {s}
  <2>1. IsFiniteSet(K) /\ Cardinality(K) = MaxPackets /\ IsFiniteSet(Z) /\ Cardinality(Z) = 1
    BY <1>2, <1>3
  <2> HIDE DEF K, Z
  <2>2. IsFiniteSet(Z \X K) /\ Cardinality(Z \X K) = 1 * MaxPackets
    BY <2>1, FS_Product
  <2> QED
    BY <2>2 DEF K, Z
<1>5. IsFiniteSet(Senders \X (1 .. MaxPackets))
  BY <1>a, <1>2, FS_Product
<1>6. IsFiniteSet(B)
  <2>1. B \in SUBSET (Senders \X (1 .. MaxPackets))
    OBVIOUS
  <2> QED
    BY <1>5, <2>1, FS_Subset
<1>7. A \in SUBSET B
  BY <1>1
<1>8. Cardinality(A) <= Cardinality(B) /\ Cardinality(B) \in Nat
  <2> HIDE DEF A, B
  <2> QED
    BY <1>6, <1>7, FS_Subset, FS_CardinalityType
<1>9. Cardinality(B) < MaxPackets
  BY DEF SentSoFar
<1> QED
  BY <1>a, <1>4, <1>8, <1>9

\* A task of node s goes to another place in the code.
LEMMA PlaceMoves ==
  ASSUME TypeOK, NEW s \in Senders, NEW t \in Tasks, NEW w \in {"idle", "lock", "fill", "send"},
         pc' = [pc EXCEPT ![s][t] = w]
  PROVE  /\ pc' \in [Senders -> [Tasks -> {"idle", "lock", "fill", "send"}]]
         /\ pc'[s][t] = w
         /\ \A v \in Tasks \ {t} : pc'[s][v] = pc[s][v]
         /\ \A v \in Senders \ {s} : pc'[v] = pc[v]
<1>1. pc \in [Senders -> [Tasks -> {"idle", "lock", "fill", "send"}]]
  BY DEF TypeOK
<1>2. pc[s] \in [Tasks -> {"idle", "lock", "fill", "send"}]
  BY <1>1
<1>3. pc'[s] = [pc[s] EXCEPT ![t] = w]
  BY <1>1
<1> QED
  BY <1>1, <1>2, <1>3

\* A job and a place in the code are given to one task of node s.
LEMMA TaskMoves ==
  ASSUME TypeOK, MoreTypes, NEW s \in Senders, NEW t \in Tasks, NEW j \in Job,
         NEW w \in {"idle", "lock", "fill", "send"},
         pc' = [pc EXCEPT ![s][t] = w], job' = [job EXCEPT ![s][t] = j]
  PROVE  /\ pc' \in [Senders -> [Tasks -> {"idle", "lock", "fill", "send"}]]
         /\ job' \in [Senders -> [Tasks -> Job]]
         /\ pc'[s][t] = w /\ job'[s][t] = j
         /\ \A v \in Tasks \ {t} : pc'[s][v] = pc[s][v] /\ job'[s][v] = job[s][v]
         /\ \A v \in Senders \ {s} : pc'[v] = pc[v] /\ job'[v] = job[v]
<1>1. job \in [Senders -> [Tasks -> Job]]
  BY DEF MoreTypes
<1>2. job[s] \in [Tasks -> Job]
  BY <1>1
<1>3. job'[s] = [job[s] EXCEPT ![t] = j]
  BY <1>1
<1>4. /\ job' \in [Senders -> [Tasks -> Job]] /\ job'[s][t] = j
      /\ \A v \in Tasks \ {t} : job'[s][v] = job[s][v]
      /\ \A v \in Senders \ {s} : job'[v] = job[v]
  BY <1>1, <1>2, <1>3
<1>5. /\ pc' \in [Senders -> [Tasks -> {"idle", "lock", "fill", "send"}]] /\ pc'[s][t] = w
      /\ \A v \in Tasks \ {t} : pc'[s][v] = pc[s][v]
      /\ \A v \in Senders \ {s} : pc'[v] = pc[v]
  <2>1. pc \in [Senders -> [Tasks -> {"idle", "lock", "fill", "send"}]]
    BY DEF TypeOK
  <2>2. pc[s] \in [Tasks -> {"idle", "lock", "fill", "send"}]
    BY <2>1
  <2>3. pc'[s] = [pc[s] EXCEPT ![t] = w]
    BY <2>1
  <2> QED
    BY <2>1, <2>2, <2>3
<1> QED
  BY <1>4, <1>5, Zenon

LEMMA DrawInv ==
  ASSUME IInv, NEW s \in Senders, NEW t \in Tasks, NEW len \in Lens, Draw(s, t, len)
  PROVE  IInv'
<1>a. TypeOK /\ MoreTypes /\ Node(s) /\ WholeOfOneSender /\ SendTypes
  BY TypeParts DEF IInv
<1>b. /\ pc[s][t] = "idle" /\ up[s] > Timeout /\ SentSoFar < MaxPackets
      /\ sent' = [sent EXCEPT ![s] = @ + 1]
      /\ UNCHANGED <<mu, frag, boots, up, air, slot, buf, age, got, run>>
  BY DEF Draw, rxVars
<1>c. /\ sent[s] \in Nat /\ frag_tx_uuid[s] \in Nat /\ frag_tx_uuid[s] <= sent[s]
      /\ sent[s] + 1 \in 1 .. MaxPackets
  BY <1>a, <1>b, NodeTypes, SentRoom DEF Node, Started
<1>1. /\ sent' \in [Senders -> 0 .. MaxPackets] /\ sent'[s] = sent[s] + 1
      /\ \A v \in Senders \ {s} : sent'[v] = sent[v]
  BY <1>a, <1>b, <1>c DEF SendTypes
<1>2. WholeOfOneSender'
  BY <1>a, <1>b DEF WholeOfOneSender
<1>3. CASE UNCHANGED <<frag_tx_uuid, pc, job>>
  <2>1. SendTypes' /\ MoreTypes'
    BY <1>a, <1>b, <1>1, <1>3 DEF SendTypes, MoreTypes
  <2>2. ASSUME NEW c, Took(c, sent[s], frag_tx_uuid[s])
        PROVE  Took(c, sent'[s], frag_tx_uuid'[s])
    BY <1>c, <1>1, <1>3, <2>2, TookMore
  <2>3. JobsOK(s)' /\ FramesOK(s)'
    BY <1>a, <1>b, <1>3, <2>2 DEF Node, JobsOK, FramesOK, Busy
  <2>4. Started(s)' /\ InOrder(s)'
    BY <1>a, <1>b, <1>c, <1>1, <1>3 DEF Node, Started, InOrder, Busy
  <2>5. Coming(s)' = Coming(s)
    BY <1>b, <1>3 DEF Coming, Busy
  <2>6. Moved(s)
    BY <1>a, <2>5, ComingJobs DEF Moved, Job
  <2>7. Node(s)'
    BY <2>3, <2>4 DEF Node
  <2>8. /\ sent'[s] \in Nat /\ sent'[s] >= sent[s]
        /\ frag_tx_uuid'[s] \in Nat /\ frag_tx_uuid'[s] >= frag_tx_uuid[s]
    BY <1>c, <1>1, <1>3
  <2>9. \A v \in Senders \ {s} : /\ air'[v] = air[v] /\ frag'[v] = frag[v] /\ pc'[v] = pc[v]
                                 /\ job'[v] = job[v] /\ sent'[v] = sent[v]
                                 /\ frag_tx_uuid'[v] = frag_tx_uuid[v]
    BY <1>b, <1>1, <1>3
  <2> QED
    BY <1>b, <1>2, <2>1, <2>6, <2>7, <2>8, <2>9, NodeStep
<1>4. CASE len <= BufSize /\ frag_tx_uuid' = [frag_tx_uuid EXCEPT ![s] = (@ + 1) % Uuids]
  <2> DEFINE j == [pkt |-> sent'[s], len |-> len, uuid |-> frag_tx_uuid'[s], i |-> 0]
  <2>a. job' = [job EXCEPT ![s][t] = j] /\ pc' = [pc EXCEPT ![s][t] = "lock"]
    <3>1. CASE len > BufSize
      <4>1. BufSize \in Nat /\ len \in Nat
        BY FragConstants, OffFacts
      <4> QED
        BY <1>4, <3>1, <4>1
    <3>2. CASE ~(len > BufSize)
      BY <3>2 DEF Draw, Goto
    <3> QED
      BY <3>1, <3>2
  <2>1. /\ frag_tx_uuid' \in [Senders -> 0 .. Uuids - 1] /\ frag_tx_uuid'[s] = frag_tx_uuid[s] + 1
        /\ \A v \in Senders \ {s} : frag_tx_uuid'[v] = frag_tx_uuid[v]
    <3>1. frag_tx_uuid[s] + 1 \in 0 .. Uuids - 1
      BY <1>c, FragConstants
    <3>2. (frag_tx_uuid[s] + 1) % Uuids = frag_tx_uuid[s] + 1
      BY <3>1, FragConstants
    <3> QED
      BY <1>a, <1>4, <3>1, <3>2 DEF SendTypes
  <2>2. j \in Job /\ Took(j, sent'[s], frag_tx_uuid'[s])
    <3>1. len \in Nat /\ sent'[s] \in Nat /\ frag_tx_uuid'[s] \in Nat /\ 0 \in Nat
      BY <1>c, <1>1, <2>1, FragConstants
    <3>2. 0 \in 0 .. Parts(len) - 1
      BY <1>4, PartFacts, FragConstants
    <3>3. sent'[s] \in 1 .. sent'[s] /\ frag_tx_uuid'[s] \in 1 .. frag_tx_uuid'[s]
      BY <1>c, <1>1, <2>1
    <3> QED
      BY <1>4, <3>1, <3>2, <3>3 DEF Took, Job
  <2>3. j.uuid = frag_tx_uuid[s] + 1 /\ j.pkt = sent[s] + 1 /\ j.i = 0
    BY <1>1, <2>1
  <2> HIDE DEF j
  <2>4. /\ pc' \in [Senders -> [Tasks -> {"idle", "lock", "fill", "send"}]]
        /\ job' \in [Senders -> [Tasks -> Job]]
        /\ pc'[s][t] = "lock" /\ job'[s][t] = j
        /\ \A v \in Tasks \ {t} : pc'[s][v] = pc[s][v] /\ job'[s][v] = job[s][v]
        /\ \A v \in Senders \ {s} : pc'[v] = pc[v] /\ job'[v] = job[v]
    BY <1>a, <2>a, <2>2, TaskMoves
  <2>5. SendTypes'
    <3>1. \A v \in Senders, x \in Tasks : (pc'[v][x] \in {"fill", "send"}) = (pc[v][x] \in {"fill", "send"})
      BY <1>b, <2>4
    <3> QED
      BY <1>a, <1>b, <1>1, <2>1, <2>4, <3>1 DEF SendTypes
  <2>6. MoreTypes'
    BY <1>a, <1>b, <2>4 DEF MoreTypes
  <2>7. ASSUME NEW c, Took(c, sent[s], frag_tx_uuid[s])
        PROVE  Took(c, sent'[s], frag_tx_uuid'[s]) /\ c.uuid # j.uuid /\ c.pkt # j.pkt
    <3>1. Took(c, sent'[s], frag_tx_uuid'[s])
      BY <1>c, <1>1, <2>1, <2>7, TookMore
    <3> QED
      BY <1>c, <2>3, <2>7, <3>1 DEF Took
  <2>8. JobsOK(s)'
    BY <1>a, <1>b, <2>2, <2>3, <2>4, <2>7 DEF Node, JobsOK, Busy
  <2>9. FramesOK(s)'
    BY <1>a, <1>b, <2>7 DEF Node, FramesOK
  <2>10. Started(s)'
    BY <1>a, <1>b, <1>c, <1>1, <2>1 DEF Node, Started
  <2>11. InOrder(s)'
    <3>1. \A v \in Tasks \ {t} : Busy(s, v)' => Busy(s, v) /\ job'[s][v].uuid # j.uuid /\ job'[s][v].pkt # j.pkt
      BY <1>a, <2>4, <2>7 DEF Node, JobsOK, Busy
    <3>2. \A n \in 1 .. Len(air[s]) : JobOf(air[s][n]).uuid # j.uuid /\ JobOf(air[s][n]).pkt # j.pkt
      BY <1>a, <2>7 DEF Node, FramesOK
    <3>3. \A n \in 1 .. Len(air[s]) : Before(JobOf(air[s][n]), j)
      BY <3>2 DEF Before
    <3>4. air' = air
      BY <1>b
    <3>5. \A x, v \in Tasks : Busy(s, x)' /\ Busy(s, v)' /\ x # v =>
            job'[s][x].uuid # job'[s][v].uuid /\ job'[s][x].pkt # job'[s][v].pkt
      <4>1. \A x, v \in Tasks : Busy(s, x) /\ Busy(s, v) /\ x # v =>
              job[s][x].uuid # job[s][v].uuid /\ job[s][x].pkt # job[s][v].pkt
        BY <1>a DEF Node, InOrder
      <4> QED
        BY <2>4, <3>1, <4>1
    <3>6. \A n \in 1 .. Len(air[s]), v \in Tasks : Busy(s, v)' => Before(JobOf(air[s][n]), job'[s][v])
      <4>1. \A n \in 1 .. Len(air[s]), v \in Tasks : Busy(s, v) => Before(JobOf(air[s][n]), job[s][v])
        BY <1>a DEF Node, InOrder
      <4> QED
        BY <2>4, <3>1, <3>3, <4>1
    <3>7. \A m, n \in 1 .. Len(air[s]) : m < n => Before(JobOf(air[s][m]), JobOf(air[s][n]))
      BY <1>a DEF Node, InOrder
    <3> QED
      BY <3>4, <3>5, <3>6, <3>7 DEF InOrder
  <2>12. Node(s)'
    BY <2>8, <2>9, <2>10, <2>11 DEF Node
  <2>13. Moved(s)
    <3>1. \A c \in Coming(s)' : c \in Coming(s) \/ c = j
      BY <1>b, <2>4 DEF Coming, Busy
    <3>2. \A c \in Coming(s) : c.i \in Nat /\ c.i >= c.i
      BY <1>a, ComingJobs DEF Job
    <3>3. j.uuid > frag_tx_uuid[s] /\ j.pkt > sent[s]
      BY <1>c, <2>3
    <3> QED
      BY <3>1, <3>2, <3>3 DEF Moved
  <2>14. /\ sent'[s] \in Nat /\ sent'[s] >= sent[s]
         /\ frag_tx_uuid'[s] \in Nat /\ frag_tx_uuid'[s] >= frag_tx_uuid[s]
    BY <1>c, <1>1, <2>1
  <2>15. \A v \in Senders \ {s} : /\ air'[v] = air[v] /\ frag'[v] = frag[v] /\ pc'[v] = pc[v]
                                  /\ job'[v] = job[v] /\ sent'[v] = sent[v]
                                  /\ frag_tx_uuid'[v] = frag_tx_uuid[v]
    BY <1>b, <1>1, <2>1, <2>4
  <2> QED
    BY <1>b, <1>2, <2>5, <2>6, <2>12, <2>13, <2>14, <2>15, NodeStep
<1>5. len > BufSize \/ len <= BufSize
  BY FragConstants, OffFacts
<1> QED
  BY <1>3, <1>4, <1>5 DEF Draw

LEMMA LockInv ==
  ASSUME IInv, NEW s \in Senders, NEW t \in Tasks, Lock(s, t)
  PROVE  IInv'
<1>a. TypeOK /\ MoreTypes /\ Node(s) /\ WholeOfOneSender /\ SendTypes
  BY TypeParts DEF IInv
<1>b. /\ pc[s][t] = "lock" /\ mu[s] = None /\ mu' = [mu EXCEPT ![s] = t]
      /\ pc' = [pc EXCEPT ![s][t] = "fill"]
      /\ UNCHANGED <<frag_tx_uuid, frag, job, sent, boots, up, air, slot, buf, age, got, run>>
  BY DEF Lock, Goto, rxVars
<1>2. /\ pc' \in [Senders -> [Tasks -> {"idle", "lock", "fill", "send"}]]
      /\ pc'[s][t] = "fill"
      /\ \A v \in Tasks \ {t} : pc'[s][v] = pc[s][v]
      /\ \A v \in Senders \ {s} : pc'[v] = pc[v]
  BY <1>a, <1>b, PlaceMoves
<1>3. \A v \in Tasks : Busy(s, v)' <=> Busy(s, v)
  BY <1>b, <1>2 DEF Busy
<1>4. SendTypes'
  <2>1. mu' \in [Senders -> Tasks \cup {None}] /\ mu'[s] = t /\ \A v \in Senders \ {s} : mu'[v] = mu[v]
    BY <1>a, <1>b DEF SendTypes
  <2>2. \A x \in Tasks : ~(pc[s][x] \in {"fill", "send"})
    BY <1>a, <1>b, FragConstants DEF SendTypes
  <2>3. \A v \in Senders, x \in Tasks : (pc'[v][x] \in {"fill", "send"}) = (mu'[v] = x)
    <3>1. ASSUME NEW v \in Senders \ {s}, NEW x \in Tasks
          PROVE  (pc'[v][x] \in {"fill", "send"}) = (mu'[v] = x)
      BY <1>a, <1>2, <2>1 DEF SendTypes
    <3>2. ASSUME NEW x \in Tasks PROVE (pc'[s][x] \in {"fill", "send"}) = (mu'[s] = x)
      BY <1>2, <2>1, <2>2
    <3> QED
      BY <3>1, <3>2
  <2> QED
    BY <1>a, <1>b, <1>2, <2>1, <2>3 DEF SendTypes
<1>5. MoreTypes'
  BY <1>a, <1>b DEF MoreTypes
<1>6. JobsOK(s)'
  BY <1>a, <1>b, <1>2, <1>3 DEF Node, JobsOK
<1>7. FramesOK(s)' /\ Started(s)' /\ InOrder(s)'
  BY <1>a, <1>b, <1>3 DEF Node, FramesOK, Started, InOrder
<1>8. Coming(s)' = Coming(s)
  BY <1>b, <1>3 DEF Coming
<1>9. Moved(s)
  BY <1>a, <1>8, ComingJobs DEF Moved, Job
<1>10. /\ sent'[s] \in Nat /\ sent'[s] >= sent[s]
       /\ frag_tx_uuid'[s] \in Nat /\ frag_tx_uuid'[s] >= frag_tx_uuid[s]
  BY <1>a, <1>b, NodeTypes
<1>11. \A v \in Senders \ {s} : /\ air'[v] = air[v] /\ frag'[v] = frag[v] /\ pc'[v] = pc[v]
                                /\ job'[v] = job[v] /\ sent'[v] = sent[v]
                                /\ frag_tx_uuid'[v] = frag_tx_uuid[v]
  BY <1>b, <1>2
<1>12. WholeOfOneSender' /\ Node(s)'
  BY <1>a, <1>b, <1>6, <1>7 DEF WholeOfOneSender, Node
<1> QED
  BY <1>b, <1>4, <1>5, <1>9, <1>10, <1>11, <1>12, NodeStep

\* Only the task that holds the mutex is past it.
LEMMA OneInside ==
  ASSUME TypeOK, NEW s \in Senders, NEW t \in Tasks, pc[s][t] \in {"fill", "send"}
  PROVE  mu[s] = t /\ \A v \in Tasks \ {t} : pc[s][v] \in {"idle", "lock"}
<1>1. pc \in [Senders -> [Tasks -> {"idle", "lock", "fill", "send"}]]
      /\ \A v \in Tasks : (pc[s][v] \in {"fill", "send"}) = (mu[s] = v)
  BY DEF TypeOK
<1> QED
  BY <1>1

LEMMA FillInv ==
  ASSUME IInv, NEW s \in Senders, NEW t \in Tasks, Fill(s, t)
  PROVE  IInv'
<1> DEFINE j == job[s][t]
           f == [uuid |-> j.uuid, total |-> Parts(j.len), seq |-> j.i,
                 data |-> SubSeq(Units(s, j.pkt, j.len), j.i * MaxPayload + 1,
                                 j.i * MaxPayload + ChunkLen(j.len, j.i))]
<1>a. TypeOK /\ MoreTypes /\ Node(s) /\ WholeOfOneSender /\ SendTypes
  BY TypeParts DEF IInv
<1>b. /\ pc[s][t] = "fill" /\ frag' = [frag EXCEPT ![s] = f]
      /\ pc' = [pc EXCEPT ![s][t] = "send"]
      /\ UNCHANGED <<frag_tx_uuid, mu, job, sent, boots, up, air, slot, buf, age, got, run>>
  BY DEF Fill, Goto, rxVars
<1>1. job[s][t] \in Job
  BY <1>a DEF MoreTypes
<1>2. /\ pc' \in [Senders -> [Tasks -> {"idle", "lock", "fill", "send"}]]
      /\ pc'[s][t] = "send"
      /\ \A v \in Tasks \ {t} : pc'[s][v] = pc[s][v]
      /\ \A v \in Senders \ {s} : pc'[v] = pc[v]
  BY <1>a, <1>b, PlaceMoves
<1>3. \A v \in Tasks : Busy(s, v)' <=> Busy(s, v)
  BY <1>b, <1>2 DEF Busy
<1>c. f \in Frame /\ Carries(f, s, j)
  <2>1. Took(j, sent[s], frag_tx_uuid[s])
    BY <1>a, <1>b DEF Node, JobsOK, Busy
  <2> QED
    BY <1>1, <2>1, FilledCarries
<1> HIDE DEF f
<1>d. frag' \in [Senders -> Frame] /\ frag'[s] = f /\ \A v \in Senders \ {s} : frag'[v] = frag[v]
  BY <1>a, <1>b, <1>c DEF MoreTypes
<1>4. SendTypes'
  <2>1. \A v \in Senders, x \in Tasks : (pc'[v][x] \in {"fill", "send"}) = (pc[v][x] \in {"fill", "send"})
    BY <1>b, <1>2
  <2> QED
    BY <1>a, <1>b, <1>2, <2>1 DEF SendTypes
<1>5. MoreTypes'
  BY <1>a, <1>b, <1>d DEF MoreTypes
<1>6. JobsOK(s)'
  <2>1. \A v \in Tasks \ {t} : pc'[s][v] # "send" /\ pc'[s][v] = pc[s][v]
    BY <1>a, <1>b, <1>2, OneInside
  <2> QED
    BY <1>a, <1>b, <1>c, <1>d, <1>2, <1>3, <2>1 DEF Node, JobsOK
<1>7. FramesOK(s)' /\ Started(s)' /\ InOrder(s)'
  BY <1>a, <1>b, <1>3 DEF Node, FramesOK, Started, InOrder
<1>8. Coming(s)' = Coming(s)
  BY <1>b, <1>3 DEF Coming
<1>9. Moved(s)
  BY <1>a, <1>8, ComingJobs DEF Moved, Job
<1>10. /\ sent'[s] \in Nat /\ sent'[s] >= sent[s]
       /\ frag_tx_uuid'[s] \in Nat /\ frag_tx_uuid'[s] >= frag_tx_uuid[s]
  BY <1>a, <1>b, NodeTypes
<1>11. \A v \in Senders \ {s} : /\ air'[v] = air[v] /\ frag'[v] = frag[v] /\ pc'[v] = pc[v]
                                /\ job'[v] = job[v] /\ sent'[v] = sent[v]
                                /\ frag_tx_uuid'[v] = frag_tx_uuid[v]
  BY <1>b, <1>d, <1>2
<1>12. WholeOfOneSender' /\ Node(s)'
  BY <1>a, <1>b, <1>6, <1>7 DEF WholeOfOneSender, Node
<1> QED
  BY <1>b, <1>4, <1>5, <1>9, <1>10, <1>11, <1>12, NodeStep

\* A task gives the mutex back and leaves.
LEMMA ReturnTypes ==
  ASSUME TypeOK, MoreTypes, NEW s \in Senders, NEW t \in Tasks, pc[s][t] = "send", Return(s, t)
  PROVE  /\ mu' \in [Senders -> Tasks \cup {None}]
         /\ pc' \in [Senders -> [Tasks -> {"idle", "lock", "fill", "send"}]]
         /\ job' \in [Senders -> [Tasks -> Job]]
         /\ \A v \in Senders, x \in Tasks : (pc'[v][x] \in {"fill", "send"}) = (mu'[v] = x)
         /\ pc'[s][t] = "idle"
         /\ \A v \in Tasks \ {t} : pc'[s][v] = pc[s][v] /\ job'[s][v] = job[s][v]
         /\ \A v \in Senders \ {s} : pc'[v] = pc[v] /\ job'[v] = job[v]
<1>1. NoJob \in Job
  BY DEF NoJob, Job
<1>2. /\ pc' \in [Senders -> [Tasks -> {"idle", "lock", "fill", "send"}]]
      /\ job' \in [Senders -> [Tasks -> Job]] /\ pc'[s][t] = "idle"
      /\ \A v \in Tasks \ {t} : pc'[s][v] = pc[s][v] /\ job'[s][v] = job[s][v]
      /\ \A v \in Senders \ {s} : pc'[v] = pc[v] /\ job'[v] = job[v]
  BY <1>1, TaskMoves DEF Return, Goto
<1>3. /\ mu' \in [Senders -> Tasks \cup {None}] /\ mu'[s] = None
      /\ \A v \in Senders \ {s} : mu'[v] = mu[v]
  BY DEF Return, TypeOK
<1>4. \A v \in Tasks \ {t} : pc[s][v] \in {"idle", "lock"}
  BY OneInside
<1>5. ASSUME NEW v \in Senders \ {s}, NEW x \in Tasks
      PROVE  (pc'[v][x] \in {"fill", "send"}) = (mu'[v] = x)
  BY <1>2, <1>3 DEF TypeOK
<1>6. ASSUME NEW x \in Tasks PROVE (pc'[s][x] \in {"fill", "send"}) = (mu'[s] = x)
  BY <1>2, <1>3, <1>4, FragConstants
<1> QED
  BY <1>2, <1>3, <1>5, <1>6

LEMMA SendFailsInv ==
  ASSUME IInv, NEW s \in Senders, NEW t \in Tasks, SendFails(s, t)
  PROVE  IInv'
<1>a. TypeOK /\ MoreTypes /\ Node(s) /\ WholeOfOneSender /\ SendTypes
  BY TypeParts DEF IInv
<1>b. /\ pc[s][t] = "send" /\ Return(s, t)
      /\ UNCHANGED <<frag_tx_uuid, frag, sent, boots, up, air, slot, buf, age, got, run>>
  BY DEF SendFails, rxVars
<1>1. /\ mu' \in [Senders -> Tasks \cup {None}]
      /\ pc' \in [Senders -> [Tasks -> {"idle", "lock", "fill", "send"}]]
      /\ job' \in [Senders -> [Tasks -> Job]]
      /\ \A v \in Senders, x \in Tasks : (pc'[v][x] \in {"fill", "send"}) = (mu'[v] = x)
      /\ pc'[s][t] = "idle"
      /\ \A v \in Tasks \ {t} : pc'[s][v] = pc[s][v] /\ job'[s][v] = job[s][v]
      /\ \A v \in Senders \ {s} : pc'[v] = pc[v] /\ job'[v] = job[v]
  BY <1>a, <1>b, ReturnTypes
<1>2. SendTypes'
  BY <1>a, <1>b, <1>1 DEF SendTypes
<1>3. MoreTypes'
  BY <1>a, <1>b, <1>1 DEF MoreTypes
<1>4. \A v \in Tasks : Busy(s, v)' => v # t /\ Busy(s, v) /\ pc'[s][v] = pc[s][v] /\ job'[s][v] = job[s][v]
  BY <1>1 DEF Busy
<1>5. JobsOK(s)'
  BY <1>a, <1>b, <1>4 DEF Node, JobsOK
<1>6. FramesOK(s)' /\ Started(s)' /\ InOrder(s)'
  BY <1>a, <1>b, <1>4 DEF Node, FramesOK, Started, InOrder
<1>7. Moved(s)
  <2>1. \A c \in Coming(s)' : c \in Coming(s)
    BY <1>b, <1>4 DEF Coming
  <2> QED
    BY <1>a, <2>1, ComingJobs DEF Moved, Job
<1>8. /\ sent'[s] \in Nat /\ sent'[s] >= sent[s]
      /\ frag_tx_uuid'[s] \in Nat /\ frag_tx_uuid'[s] >= frag_tx_uuid[s]
  BY <1>a, <1>b, NodeTypes
<1>9. \A v \in Senders \ {s} : /\ air'[v] = air[v] /\ frag'[v] = frag[v] /\ pc'[v] = pc[v]
                               /\ job'[v] = job[v] /\ sent'[v] = sent[v]
                               /\ frag_tx_uuid'[v] = frag_tx_uuid[v]
  BY <1>b, <1>1
<1>10. WholeOfOneSender' /\ Node(s)'
  BY <1>a, <1>b, <1>5, <1>6 DEF WholeOfOneSender, Node
<1> QED
  BY <1>b, <1>2, <1>3, <1>7, <1>8, <1>9, <1>10, NodeStep

LEMMA SendPartInv ==
  ASSUME IInv, NEW s \in Senders, NEW t \in Tasks, SendPart(s, t)
  PROVE  IInv'
<1> DEFINE j == job[s][t]
           k == [j EXCEPT !.i = @ + 1]
           L == Len(air[s])
<1>a. TypeOK /\ MoreTypes /\ Node(s) /\ WholeOfOneSender /\ SendTypes
  BY TypeParts DEF IInv
<1>b. /\ pc[s][t] = "send" /\ air' = [air EXCEPT ![s] = Append(@, frag[s])]
      /\ UNCHANGED <<frag_tx_uuid, frag, sent, boots, up, slot, buf, age, got, run>>
  BY DEF SendPart, rxVars
<1>c. /\ j \in Job /\ Took(j, sent[s], frag_tx_uuid[s]) /\ Carries(frag[s], s, j) /\ frag[s] \in Frame
      /\ air[s] \in Seq(Frame) /\ L \in Nat /\ Busy(s, t)
  BY <1>a, <1>b, NodeTypes DEF Node, JobsOK, Busy
<1>d. JobOf(frag[s]) = j
  BY <1>c, JobOfCarried
<1>1. /\ air' \in [Senders -> Seq(Frame)] /\ Len(air'[s]) = L + 1 /\ air'[s] # <<>>
      /\ \A n \in 1 .. L : air'[s][n] = air[s][n]
      /\ air'[s][L + 1] = frag[s]
      /\ \A v \in Senders \ {s} : air'[v] = air[v]
  <2>1. air \in [Senders -> Seq(Frame)]
    BY <1>a DEF MoreTypes
  <2>2. air'[s] = Append(air[s], frag[s])
    BY <1>b, <2>1
  <2>3. /\ air'[s] \in Seq(Frame) /\ Len(air'[s]) = L + 1 /\ air'[s] # <<>>
        /\ \A n \in 1 .. L : air'[s][n] = air[s][n]
        /\ air'[s][L + 1] = frag[s]
    BY <1>c, <2>2, AppendProperties
  <2>4. Append(air[s], frag[s]) \in Seq(Frame)
    BY <1>c, AppendProperties
  <2>5. air' \in [Senders -> Seq(Frame)] /\ \A v \in Senders \ {s} : air'[v] = air[v]
    BY <1>b, <2>1, <2>4
  <2> QED
    BY <2>3, <2>5
<1>2. /\ k \in Job /\ k.pkt = j.pkt /\ k.len = j.len /\ k.uuid = j.uuid /\ k.i = j.i + 1 /\ j.i \in Nat
      /\ j.i + 1 # Parts(j.len) => Took(k, sent[s], frag_tx_uuid[s])
  <2>1. k \in Job /\ k.pkt = j.pkt /\ k.len = j.len /\ k.uuid = j.uuid /\ k.i = j.i + 1 /\ j.i \in Nat
    BY <1>c DEF Job
  <2>2. Parts(j.len) \in Nat
    BY <1>c, PartFacts, FragConstants DEF Took
  <2> HIDE DEF k, j
  <2> QED
    BY <1>c, <2>1, <2>2 DEF Took
<1>3. /\ mu' \in [Senders -> Tasks \cup {None}]
      /\ pc' \in [Senders -> [Tasks -> {"idle", "lock", "fill", "send"}]]
      /\ job' \in [Senders -> [Tasks -> Job]]
      /\ \A v \in Senders, x \in Tasks : (pc'[v][x] \in {"fill", "send"}) = (mu'[v] = x)
      /\ pc'[s][t] = "idle" \/ (pc'[s][t] = "fill" /\ job'[s][t] = k /\ j.i + 1 # Parts(j.len))
      /\ \A v \in Tasks \ {t} : pc'[s][v] = pc[s][v] /\ job'[s][v] = job[s][v]
      /\ \A v \in Senders \ {s} : pc'[v] = pc[v] /\ job'[v] = job[v]
  <2>1. CASE j.i + 1 = Parts(j.len)
    <3>1. Return(s, t)
      BY <2>1 DEF SendPart
    <3> HIDE DEF j, k
    <3> QED
      BY <1>a, <1>b, <3>1, ReturnTypes
  <2>2. CASE j.i + 1 # Parts(j.len)
    <3>1. pc' = [pc EXCEPT ![s][t] = "fill"] /\ mu' = mu
      BY <2>2 DEF SendPart, Goto
    <3>2. job' = [job EXCEPT ![s][t] = k] /\ k \in Job
      BY <1>2, <2>2 DEF SendPart
    <3> HIDE DEF k, j
    <3>3. /\ pc' \in [Senders -> [Tasks -> {"idle", "lock", "fill", "send"}]]
          /\ job' \in [Senders -> [Tasks -> Job]] /\ pc'[s][t] = "fill" /\ job'[s][t] = k
          /\ \A v \in Tasks \ {t} : pc'[s][v] = pc[s][v] /\ job'[s][v] = job[s][v]
          /\ \A v \in Senders \ {s} : pc'[v] = pc[v] /\ job'[v] = job[v]
      BY <1>a, <3>1, <3>2, TaskMoves
    <3>4. \A v \in Senders, x \in Tasks : (pc'[v][x] \in {"fill", "send"}) = (pc[v][x] \in {"fill", "send"})
      BY <1>b, <3>3
    <3>5. mu \in [Senders -> Tasks \cup {None}]
          /\ \A v \in Senders, x \in Tasks : (pc[v][x] \in {"fill", "send"}) = (mu[v] = x)
      BY <1>a DEF SendTypes
    <3>6. \A v \in Senders, x \in Tasks : (pc'[v][x] \in {"fill", "send"}) = (mu'[v] = x)
      BY <3>1, <3>4, <3>5
    <3>7. mu' \in [Senders -> Tasks \cup {None}]
      BY <3>1, <3>5
    <3> QED
      BY <2>2, <3>3, <3>6, <3>7
  <2> QED
    BY <2>1, <2>2
<1> HIDE DEF k, j
<1>4. SendTypes'
  BY <1>a, <1>b, <1>3 DEF SendTypes
<1>5. MoreTypes'
  BY <1>a, <1>b, <1>1, <1>3 DEF MoreTypes
<1>6. \A v \in Tasks \ {t} : Busy(s, v)' => Busy(s, v) /\ pc'[s][v] = pc[s][v] /\ job'[s][v] = job[s][v]
                                           /\ pc'[s][v] # "send"
  BY <1>a, <1>b, <1>3, OneInside DEF Busy
<1>7. Busy(s, t)' => /\ job'[s][t] = k /\ pc'[s][t] = "fill" /\ Took(k, sent[s], frag_tx_uuid[s])
  BY <1>2, <1>3 DEF Busy
<1>8. JobsOK(s)'
  <2>1. ASSUME NEW v \in Tasks \ {t}, Busy(s, v)'
        PROVE  Took(job'[s][v], sent'[s], frag_tx_uuid'[s]) /\ (pc'[s][v] = "lock" => job'[s][v].i = 0)
               /\ pc'[s][v] # "send"
    BY <1>a, <1>b, <1>6, <2>1 DEF Node, JobsOK
  <2>2. Busy(s, t)' => Took(job'[s][t], sent'[s], frag_tx_uuid'[s]) /\ pc'[s][t] = "fill"
    BY <1>b, <1>7
  <2> QED
    BY <2>1, <2>2 DEF JobsOK
<1>9. ASSUME NEW n \in 1 .. Len(air'[s])
      PROVE  \/ n \in 1 .. L /\ air'[s][n] = air[s][n]
             \/ n = L + 1 /\ air'[s][n] = frag[s] /\ JobOf(air'[s][n]) = j
  BY <1>c, <1>d, <1>1
<1>10. FramesOK(s)'
  <2>1. ASSUME NEW n \in 1 .. Len(air'[s])
        PROVE  Took(JobOf(air'[s][n]), sent[s], frag_tx_uuid[s]) /\ Carries(air'[s][n], s, JobOf(air'[s][n]))
    BY <1>a, <1>c, <1>d, <1>9 DEF Node, FramesOK
  <2> QED
    BY <1>b, <2>1 DEF FramesOK
<1>11. Started(s)'
  <2>1. up[s] > Timeout /\ frag_tx_uuid[s] <= sent[s]
    BY <1>a, <1>c DEF Node, Started
  <2> QED
    BY <1>b, <2>1 DEF Started
<1>12. InOrder(s)'
  <2>1. \A v \in Tasks \ {t} : Busy(s, v) => job[s][v].uuid # j.uuid /\ job[s][v].pkt # j.pkt
    BY <1>a, <1>c DEF Node, InOrder, j
  <2>2. \A n \in 1 .. L : Before(JobOf(air[s][n]), j)
    BY <1>a, <1>c DEF Node, InOrder, j
  <2>3. \A x, v \in Tasks : Busy(s, x)' /\ Busy(s, v)' /\ x # v =>
          job'[s][x].uuid # job'[s][v].uuid /\ job'[s][x].pkt # job'[s][v].pkt
    <3>1. \A x, v \in Tasks : Busy(s, x) /\ Busy(s, v) /\ x # v =>
            job[s][x].uuid # job[s][v].uuid /\ job[s][x].pkt # job[s][v].pkt
      BY <1>a DEF Node, InOrder
    <3>2. ASSUME NEW x \in Tasks \ {t}, NEW v \in Tasks \ {t}, Busy(s, x)', Busy(s, v)', x # v
          PROVE  job'[s][x].uuid # job'[s][v].uuid /\ job'[s][x].pkt # job'[s][v].pkt
      BY <1>6, <3>1, <3>2
    <3>3. ASSUME NEW v \in Tasks \ {t}, Busy(s, t)', Busy(s, v)'
          PROVE  job'[s][t].uuid # job'[s][v].uuid /\ job'[s][t].pkt # job'[s][v].pkt
      BY <1>2, <1>6, <1>7, <2>1, <3>3
    <3> QED
      BY <3>2, <3>3
  <2>4. ASSUME NEW m \in 1 .. Len(air'[s]), NEW n \in 1 .. Len(air'[s]), m < n
        PROVE  Before(JobOf(air'[s][m]), JobOf(air'[s][n]))
    <3>1. m \in 1 .. L /\ air'[s][m] = air[s][m]
      BY <1>c, <1>1, <2>4
    <3>2. CASE n \in 1 .. L
      BY <1>a, <1>1, <2>4, <3>1, <3>2 DEF Node, InOrder
    <3>3. CASE n = L + 1
      BY <1>d, <1>1, <2>2, <3>1, <3>3
    <3> QED
      BY <1>9, <3>2, <3>3
  <2>5. ASSUME NEW n \in 1 .. Len(air'[s]), NEW v \in Tasks, Busy(s, v)'
        PROVE  Before(JobOf(air'[s][n]), job'[s][v])
    <3>1. CASE v = t /\ n \in 1 .. L
      <4>1. Before(JobOf(air[s][n]), k)
        <5>1. JobOf(air[s][n]).i \in Int
          BY <1>a, <3>1 DEF Node, FramesOK, Took
        <5> QED
          BY <1>2, <2>2, <3>1, <5>1 DEF Before
      <4> QED
        BY <1>1, <1>7, <2>5, <3>1, <4>1
    <3>2. CASE v = t /\ n = L + 1
      <4>1. Before(j, k)
        BY <1>2 DEF Before
      <4> QED
        BY <1>d, <1>1, <1>7, <2>5, <3>2, <4>1
    <3>3. CASE v # t /\ n \in 1 .. L
      BY <1>a, <1>1, <1>6, <2>5, <3>3 DEF Node, InOrder
    <3>4. CASE v # t /\ n = L + 1
      <4>1. Before(j, job[s][v])
        BY <1>6, <2>1, <2>5, <3>4 DEF Before
      <4> QED
        BY <1>d, <1>1, <1>6, <2>5, <3>4, <4>1
    <3> QED
      BY <1>9, <3>1, <3>2, <3>3, <3>4
  <2> QED
    BY <2>3, <2>4, <2>5 DEF InOrder
<1>13. Moved(s)
  <2>1. j \in Coming(s)
    BY <1>c DEF Coming, j
  <2>2. \A n \in 1 .. L : JobOf(air[s][n]) \in Coming(s)
    BY DEF Coming
  <2>3. \A v \in Tasks : Busy(s, v) => job[s][v] \in Coming(s)
    BY DEF Coming
  <2>4. \A c \in Coming(s)' : c \in Coming(s) \/ c = k
    <3>1. ASSUME NEW n \in 1 .. Len(air'[s]) PROVE JobOf(air'[s][n]) \in Coming(s)
      BY <1>9, <2>1, <2>2
    <3>2. ASSUME NEW v \in Tasks, Busy(s, v)' PROVE job'[s][v] \in Coming(s) \/ job'[s][v] = k
      BY <1>6, <1>7, <2>3, <3>2
    <3>3. \A c \in Coming(s)' : \/ \E n \in 1 .. Len(air'[s]) : c = JobOf(air'[s][n])
                                \/ \E v \in Tasks : Busy(s, v)' /\ c = job'[s][v]
      BY DEF Coming
    <3> QED
      BY <3>1, <3>2, <3>3
  <2>5. \A c \in Coming(s) : c.i \in Nat /\ c.i >= c.i
    BY <1>a, ComingJobs DEF Job
  <2> QED
    BY <1>2, <2>1, <2>4, <2>5 DEF Moved
<1>14. /\ sent'[s] \in Nat /\ sent'[s] >= sent[s]
       /\ frag_tx_uuid'[s] \in Nat /\ frag_tx_uuid'[s] >= frag_tx_uuid[s]
  BY <1>a, <1>b, NodeTypes
<1>15. \A v \in Senders \ {s} : /\ air'[v] = air[v] /\ frag'[v] = frag[v] /\ pc'[v] = pc[v]
                                /\ job'[v] = job[v] /\ sent'[v] = sent[v]
                                /\ frag_tx_uuid'[v] = frag_tx_uuid[v]
  BY <1>b, <1>1, <1>3
<1>16. WholeOfOneSender' /\ Node(s)'
  BY <1>a, <1>b, <1>8, <1>10, <1>11, <1>12 DEF WholeOfOneSender, Node
<1> QED
  BY <1>b, <1>4, <1>5, <1>13, <1>14, <1>15, <1>16, NodeStep

-----------------------------------------------------------------------------
(* A frame leaves the air; time; restarts. *)

\* The first frame of a node comes before all that is still to come.
LEMMA TailNode ==
  ASSUME TypeOK, MoreTypes, NEW s \in Senders, Node(s), air[s] # <<>>,
         air' = [air EXCEPT ![s] = Tail(@)], UNCHANGED sendVars
  PROVE  /\ air' \in [Senders -> Seq(Frame)] /\ \A v \in Senders \ {s} : air'[v] = air[v]
         /\ Node(s)' /\ Moved(s) /\ Coming(s)' \subseteq Coming(s)
         /\ Head(air[s]) \in Frame /\ JobOf(Head(air[s])) \in Coming(s)
         /\ Carries(Head(air[s]), s, JobOf(Head(air[s])))
         /\ \A c \in Coming(s)' : Before(JobOf(Head(air[s])), c)
         /\ up[s] > Timeout
<1> DEFINE L == Len(air[s])
           f == Head(air[s])
<1>a. UNCHANGED <<frag_tx_uuid, mu, frag, pc, job, sent, boots, up>>
  BY DEF sendVars
<1>b. air \in [Senders -> Seq(Frame)] /\ air[s] \in Seq(Frame)
  BY DEF MoreTypes
<1>c. L \in Nat /\ L >= 1 /\ f = air[s][1] /\ f \in Frame
  <2>1. L \in Nat \ {0}
    BY <1>b, EmptySeq
  <2>2. f = air[s][1]
    OBVIOUS
  <2>3. f \in Frame
    BY <1>b, HeadTailProperties
  <2> QED
    BY <2>1, <2>2, <2>3
<1>1. /\ air'[s] \in Seq(Frame) /\ Len(air'[s]) = L - 1
      /\ \A n \in 1 .. L - 1 : air'[s][n] = air[s][n + 1]
  <2>1. air'[s] = Tail(air[s])
    BY <1>b
  <2>2. /\ Tail(air[s]) \in Seq(Frame) /\ Len(Tail(air[s])) = L - 1
        /\ \A n \in 1 .. Len(Tail(air[s])) : Tail(air[s])[n] = air[s][n + 1]
    BY <1>b, HeadTailProperties
  <2> QED
    BY <2>1, <2>2
<1>2. air' \in [Senders -> Seq(Frame)] /\ \A v \in Senders \ {s} : air'[v] = air[v]
  <2>1. Tail(air[s]) \in Seq(Frame)
    BY <1>b, HeadTailProperties
  <2> QED
    BY <1>b, <2>1
<1> HIDE DEF L, f
<1>3. \A n \in 1 .. Len(air'[s]) : n + 1 \in 1 .. L /\ 1 < n + 1 /\ air'[s][n] = air[s][n + 1]
  BY <1>c, <1>1
<1>4. \A v \in Tasks : Busy(s, v)' <=> Busy(s, v)
  BY <1>a DEF Busy
<1>5. JobsOK(s)'
  BY <1>a, <1>4 DEF Node, JobsOK
<1>6. FramesOK(s)'
  BY <1>a, <1>3 DEF Node, FramesOK, L
<1>7. up[s] > Timeout /\ Started(s)'
  BY <1>a, <1>4 DEF Node, Started
<1>8. InOrder(s)'
  <2>1. ASSUME NEW m \in 1 .. Len(air'[s]), NEW n \in 1 .. Len(air'[s]), m < n
        PROVE  Before(JobOf(air'[s][m]), JobOf(air'[s][n]))
    <3>0. m \in Int /\ n \in Int /\ m + 1 < n + 1
      BY <2>1
    <3>1. m + 1 \in 1 .. L /\ n + 1 \in 1 .. L /\ m + 1 < n + 1
      BY <1>3, <3>0
    <3>2. Before(JobOf(air[s][m + 1]), JobOf(air[s][n + 1]))
      BY <3>1 DEF Node, InOrder, L
    <3> QED
      BY <1>3, <3>2
  <2>2. ASSUME NEW n \in 1 .. Len(air'[s]), NEW t \in Tasks, Busy(s, t)'
        PROVE  Before(JobOf(air'[s][n]), job'[s][t])
    BY <1>a, <1>3, <1>4, <2>2 DEF Node, InOrder, L
  <2>3. \A t, v \in Tasks : Busy(s, t)' /\ Busy(s, v)' /\ t # v =>
          job'[s][t].uuid # job'[s][v].uuid /\ job'[s][t].pkt # job'[s][v].pkt
    BY <1>a, <1>4 DEF Node, InOrder
  <2> QED
    BY <2>1, <2>2, <2>3 DEF InOrder
<1>9. ASSUME NEW c \in Coming(s)' PROVE c \in Coming(s) /\ Before(JobOf(f), c)
  <2>0. 1 \in 1 .. L
    BY <1>c
  <2>1. CASE \E n \in 1 .. Len(air'[s]) : c = JobOf(air'[s][n])
    <3>1. PICK n \in 1 .. Len(air'[s]) : c = JobOf(air'[s][n])
      BY <2>1
    <3>2. n + 1 \in 1 .. L /\ 1 < n + 1 /\ c = JobOf(air[s][n + 1])
      BY <1>3, <3>1
    <3>3. c \in Coming(s)
      BY <3>2 DEF Coming, L
    <3>4. Before(JobOf(air[s][1]), JobOf(air[s][n + 1]))
      BY <2>0, <3>2 DEF Node, InOrder, L
    <3> QED
      BY <1>c, <3>2, <3>3, <3>4
  <2>2. CASE \E t \in Tasks : Busy(s, t)' /\ c = job'[s][t]
    <3>1. PICK t \in Tasks : Busy(s, t) /\ c = job[s][t]
      BY <1>a, <1>4, <2>2
    <3>2. c \in Coming(s)
      BY <3>1 DEF Coming
    <3>3. Before(JobOf(air[s][1]), job[s][t])
      BY <2>0, <3>1 DEF Node, InOrder, L
    <3> QED
      BY <1>c, <3>1, <3>2, <3>3
  <2> QED
    BY <2>1, <2>2 DEF Coming
<1>10. JobOf(f) \in Coming(s) /\ Carries(f, s, JobOf(f))
  BY <1>c DEF Coming, Node, FramesOK, L
<1>11. Moved(s)
  BY <1>9, ComingJobs DEF Moved, Job
<1> QED
  BY <1>c, <1>2, <1>5, <1>6, <1>7, <1>8, <1>9, <1>10, <1>11 DEF Node, f

LEMMA LoseInv ==
  ASSUME IInv, NEW s \in Senders, Lose(s)
  PROVE  IInv'
<1>a. TypeOK /\ MoreTypes /\ Node(s) /\ WholeOfOneSender /\ SendTypes
  BY TypeParts DEF IInv
<1>b. /\ air[s] # <<>> /\ air' = [air EXCEPT ![s] = Tail(@)] /\ UNCHANGED sendVars
      /\ UNCHANGED <<slot, buf, age, got, run>>
  BY DEF Lose, rxVars
<1>c. UNCHANGED <<frag_tx_uuid, mu, frag, pc, job, sent, boots, up>>
  BY <1>b DEF sendVars
<1>1. /\ air' \in [Senders -> Seq(Frame)] /\ \A v \in Senders \ {s} : air'[v] = air[v]
      /\ Node(s)' /\ Moved(s)
  BY <1>a, <1>b, TailNode
<1>2. SendTypes' /\ WholeOfOneSender'
  BY <1>a, <1>b, <1>c DEF SendTypes, WholeOfOneSender
<1>3. MoreTypes'
  BY <1>a, <1>b, <1>c, <1>1 DEF MoreTypes
<1>4. /\ sent'[s] \in Nat /\ sent'[s] >= sent[s]
      /\ frag_tx_uuid'[s] \in Nat /\ frag_tx_uuid'[s] >= frag_tx_uuid[s]
  BY <1>a, <1>c, NodeTypes
<1>5. \A v \in Senders \ {s} : /\ air'[v] = air[v] /\ frag'[v] = frag[v] /\ pc'[v] = pc[v]
                               /\ job'[v] = job[v] /\ sent'[v] = sent[v]
                               /\ frag_tx_uuid'[v] = frag_tx_uuid[v]
  BY <1>c, <1>1
<1>6. UNCHANGED <<slot, buf, run, age, up>>
  BY <1>b, <1>c
<1> QED
  BY <1>1, <1>2, <1>3, <1>4, <1>5, <1>6, NodeStep

\* A unit of a packet.
LEMMA UnitFields ==
  ASSUME NEW s, NEW p, NEW len, NEW k
  PROVE  <<s, p, len, k>>[1] = s /\ <<s, p, len, k>>[2] = p /\ <<s, p, len, k>>[3] = len
OBVIOUS

LEMMA ReceiveSingleInv ==
  ASSUME IInv, NEW s \in Senders, ReceiveSingle(s)
  PROVE  IInv'
<1> DEFINE f == Head(air[s])
           c == JobOf(f)
<1>a. TypeOK /\ MoreTypes /\ Node(s) /\ WholeOfOneSender /\ SendTypes
  BY TypeParts DEF IInv
<1>b. /\ air[s] # <<>> /\ air' = [air EXCEPT ![s] = Tail(@)] /\ UNCHANGED sendVars
      /\ UNCHANGED <<slot, buf, age, run>>
      /\ f.total = 1 /\ got' = [data |-> f.data, from |-> {s}]
  BY DEF ReceiveSingle
<1>c. UNCHANGED <<frag_tx_uuid, mu, frag, pc, job, sent, boots, up>>
  BY <1>b DEF sendVars
<1>1. /\ air' \in [Senders -> Seq(Frame)] /\ \A v \in Senders \ {s} : air'[v] = air[v]
      /\ Node(s)' /\ Moved(s)
      /\ f \in Frame /\ c \in Coming(s) /\ Carries(f, s, c)
  BY <1>a, <1>b, TailNode
<1>2. WholeOfOneSender'
  <2> HIDE DEF f, c
  <2>1. Took(c, sent[s], frag_tx_uuid[s])
    BY <1>a, <1>1, ComingJobs
  <2>2. c.len \in Lens /\ c.len <= BufSize /\ Parts(c.len) = 1 /\ c.i = 0
    BY <1>b, <1>1, <2>1, FragConstants DEF Took, Carries
  <2>3. Len(f.data) = c.len /\ c.len \in Nat /\ c.len > 0 /\ Off(c.i) = 0
    <3>1. Off(0) + ChunkLen(c.len, 0) = c.len /\ ChunkLen(c.len, 0) \in Nat
      BY <2>2, PartFacts, FragConstants
    <3>2. Off(0) = 0 /\ c.len \in Nat /\ c.len > 0
      BY <2>2, OffFacts, FragConstants
    <3>3. Len(f.data) = ChunkLen(c.len, 0)
      BY <1>1, <2>2 DEF Carries
    <3> QED
      BY <2>2, <3>1, <3>2, <3>3
  <2>4. \A k \in 1 .. c.len : f.data[k] = <<s, c.pkt, c.len, k>>
    BY <1>1, <2>3 DEF Carries
  <2>5. f.data \in Seq(Unit)
    BY <1>1 DEF Frame
  <2>6. DOMAIN f.data = 1 .. c.len
    BY <2>3, <2>5, LenProperties
  <2>7. f.data[1][1] = s /\ f.data[1][2] = c.pkt
    BY <2>3, <2>4, UnitFields
  <2>8. <<f.data[1][1], f.data[1][2]>>[1] = s /\ <<f.data[1][1], f.data[1][2]>>[2] = c.pkt
    BY <2>7
  <2>9. Packet(f.data, <<f.data[1][1], f.data[1][2]>>)
    BY <2>3, <2>4, <2>6, <2>8 DEF Packet
  <2>10. got'.data = f.data
    BY <1>b
  <2> QED
    BY <2>9, <2>10 DEF WholeOfOneSender
<1>3. SendTypes'
  BY <1>a, <1>c DEF SendTypes
<1>4. MoreTypes'
  BY <1>a, <1>b, <1>c, <1>1 DEF MoreTypes
<1>5. /\ sent'[s] \in Nat /\ sent'[s] >= sent[s]
      /\ frag_tx_uuid'[s] \in Nat /\ frag_tx_uuid'[s] >= frag_tx_uuid[s]
  BY <1>a, <1>c, NodeTypes
<1>6. \A v \in Senders \ {s} : /\ air'[v] = air[v] /\ frag'[v] = frag[v] /\ pc'[v] = pc[v]
                               /\ job'[v] = job[v] /\ sent'[v] = sent[v]
                               /\ frag_tx_uuid'[v] = frag_tx_uuid[v]
  BY <1>c, <1>1
<1>7. UNCHANGED <<slot, buf, run, age, up>>
  BY <1>b, <1>c
<1> QED
  BY <1>1, <1>2, <1>3, <1>4, <1>5, <1>6, <1>7, NodeStep

LEMMA RestartInv ==
  ASSUME IInv, NEW s \in Senders, Restart(s)
  PROVE  IInv'
<1>a. /\ TypeOK /\ MoreTypes /\ WholeOfOneSender /\ SendTypes /\ SlotTypes /\ SlotOK /\ RunOK
      /\ \A v \in Senders : Node(v)
  BY TypeParts DEF IInv
<1>b. /\ boots < MaxBoots /\ boots' = boots + 1 /\ up' = [up EXCEPT ![s] = 0]
      /\ frag_tx_uuid' = [frag_tx_uuid EXCEPT ![s] = 0]
      /\ mu' = [mu EXCEPT ![s] = None] /\ frag' = [frag EXCEPT ![s] = NoFrame]
      /\ pc' = [pc EXCEPT ![s] = [t \in Tasks |-> "idle"]]
      /\ job' = [job EXCEPT ![s] = [t \in Tasks |-> NoJob]]
      /\ air' = [air EXCEPT ![s] = <<>>]
      /\ UNCHANGED <<sent, slot, buf, age, got, run>>
  BY DEF Restart, rxVars
<1>c. NoFrame \in Frame /\ NoJob \in Job /\ <<>> \in Seq(Frame)
  <2>1. <<>> \in Seq(Unit) /\ <<>> \in Seq(Frame)
    BY EmptySeq
  <2> QED
    BY <2>1 DEF NoFrame, NoJob, Frame, Job
<1>1. /\ pc' \in [Senders -> [Tasks -> {"idle", "lock", "fill", "send"}]]
      /\ \A t \in Tasks : pc'[s][t] = "idle"
      /\ \A v \in Senders \ {s} : pc'[v] = pc[v]
  <2>1. [t \in Tasks |-> "idle"] \in [Tasks -> {"idle", "lock", "fill", "send"}]
    OBVIOUS
  <2> QED
    BY <1>a, <1>b, <2>1 DEF SendTypes
<1>2. /\ job' \in [Senders -> [Tasks -> Job]] /\ \A v \in Senders \ {s} : job'[v] = job[v]
  <2>1. [t \in Tasks |-> NoJob] \in [Tasks -> Job]
    BY <1>c
  <2> QED
    BY <1>a, <1>b, <2>1 DEF MoreTypes
<1>3. /\ air' \in [Senders -> Seq(Frame)] /\ air'[s] = <<>> /\ \A v \in Senders \ {s} : air'[v] = air[v]
  BY <1>a, <1>b, <1>c DEF MoreTypes
<1>4. /\ frag' \in [Senders -> Frame] /\ \A v \in Senders \ {s} : frag'[v] = frag[v]
  BY <1>a, <1>b, <1>c DEF MoreTypes
<1>5. /\ mu' \in [Senders -> Tasks \cup {None}] /\ mu'[s] = None
      /\ \A v \in Senders \ {s} : mu'[v] = mu[v]
  BY <1>a, <1>b DEF SendTypes
<1>6. /\ up' \in [Senders -> 0 .. Timeout + 1] /\ up'[s] = 0 /\ \A v \in Senders \ {s} : up'[v] = up[v]
  BY <1>a, <1>b, FragConstants DEF SendTypes
<1>7. /\ frag_tx_uuid' \in [Senders -> 0 .. Uuids - 1] /\ frag_tx_uuid'[s] = 0
      /\ \A v \in Senders \ {s} : frag_tx_uuid'[v] = frag_tx_uuid[v]
  BY <1>a, <1>b, FragConstants DEF SendTypes
<1>8. SendTypes'
  <2>1. ASSUME NEW v \in Senders \ {s}, NEW x \in Tasks
        PROVE  (pc'[v][x] \in {"fill", "send"}) = (mu'[v] = x)
    BY <1>a, <1>1, <1>5 DEF SendTypes
  <2>2. ASSUME NEW x \in Tasks PROVE (pc'[s][x] \in {"fill", "send"}) = (mu'[s] = x)
    BY <1>1, <1>5, FragConstants
  <2>3. boots' \in 0 .. MaxBoots
    BY <1>a, <1>b, FragConstants DEF SendTypes
  <2>4. sent' \in [Senders -> 0 .. MaxPackets]
    BY <1>a, <1>b DEF SendTypes
  <2> QED
    BY <1>1, <1>5, <1>6, <1>7, <2>1, <2>2, <2>3, <2>4 DEF SendTypes
<1>9. MoreTypes'
  <2>1. buf' = buf /\ slot' = slot
    BY <1>b
  <2> QED
    BY <1>a, <1>2, <1>3, <1>4, <2>1 DEF MoreTypes
<1>10. Node(s)' /\ Coming(s)' = {}
  <2>1. Len(air'[s]) = 0 /\ \A t \in Tasks : ~Busy(s, t)'
    BY <1>1, <1>3, EmptySeq DEF Busy
  <2>2. \A n \in 1 .. Len(air'[s]) : FALSE
    BY <2>1
  <2>3. frag_tx_uuid'[s] <= sent'[s]
    <3>1. sent[s] \in Nat /\ sent'[s] = sent[s]
      BY <1>a, <1>b, NodeTypes
    <3> QED
      BY <1>7, <3>1
  <2>4. JobsOK(s)' /\ FramesOK(s)' /\ InOrder(s)'
    BY <2>1, <2>2 DEF JobsOK, FramesOK, InOrder
  <2>5. Started(s)'
    BY <1>3, <2>1, <2>3 DEF Started
  <2>6. Coming(s)' = {}
    BY <2>1, <2>2 DEF Coming
  <2> QED
    BY <2>4, <2>5, <2>6 DEF Node
<1>11. \A v \in Senders \ {s} : Node(v)' /\ Coming(v)' = Coming(v)
  <2>1. \A v \in Senders : sent'[v] = sent[v]
    BY <1>b
  <2> QED
    BY <1>a, <1>1, <1>2, <1>3, <1>4, <1>6, <1>7, <2>1, Elsewhere
<1>12. \A v \in Senders : Moved(v)
  <2>1. ASSUME NEW v \in Senders \ {s} PROVE Moved(v)
    <3>1. \A c \in Coming(v) : c.i \in Nat /\ c.i >= c.i
      BY <1>a, ComingJobs DEF Job
    <3> QED
      BY <1>11, <3>1 DEF Moved
  <2>2. Moved(s)
    BY <1>10 DEF Moved
  <2> QED
    BY <2>1, <2>2
<1>13. age \in Nat /\ age' = age
  BY <1>a, <1>b DEF SlotTypes
<1>14. /\ \A v \in Senders : sent'[v] \in Nat /\ sent'[v] >= sent[v]
       /\ \A v \in Senders : \/ frag_tx_uuid'[v] \in Nat /\ frag_tx_uuid'[v] >= frag_tx_uuid[v]
                             \/ age' >= up'[v]
       /\ \A v \in Senders : age >= up[v] => age' >= up'[v]
  <2>1. \A v \in Senders : sent'[v] \in Nat /\ sent'[v] >= sent[v]
    BY <1>a, <1>b, NodeTypes
  <2>2. age' >= up'[s]
    BY <1>6, <1>13
  <2>3. \A v \in Senders \ {s} : frag_tx_uuid'[v] \in Nat /\ frag_tx_uuid'[v] >= frag_tx_uuid[v]
    BY <1>a, <1>7, NodeTypes
  <2> QED
    BY <1>6, <1>13, <2>1, <2>2, <2>3
<1>15. UNCHANGED <<slot, buf, run>>
  BY <1>b
<1>16. SlotOK' /\ RunOK'
  BY <1>a, <1>12, <1>14, <1>15, SlotKept
<1>17. SlotTypes' /\ WholeOfOneSender'
  BY <1>a, <1>b DEF SlotTypes, WholeOfOneSender
<1>18. TypeOK'
  BY <1>8, <1>17 DEF TypeOK, SendTypes, SlotTypes
<1> QED
  BY <1>9, <1>10, <1>11, <1>16, <1>17, <1>18 DEF IInv

LEMMA TickInv ==
  ASSUME IInv, Tick
  PROVE  IInv'
<1>a. /\ TypeOK /\ MoreTypes /\ WholeOfOneSender /\ SendTypes /\ SlotTypes /\ SlotOK /\ RunOK
      /\ \A v \in Senders : Node(v)
  BY TypeParts DEF IInv
<1>b. /\ age' = Later(age) /\ up' = [s \in Senders |-> Later(up[s])]
      /\ UNCHANGED <<frag_tx_uuid, mu, frag, pc, job, air, sent, boots, slot, buf, got, run>>
  BY DEF Tick
<1>c. \A x \in 0 .. Timeout + 1 : /\ Later(x) \in 0 .. Timeout + 1 /\ (x > Timeout => Later(x) > Timeout)
                                 /\ \A y \in 0 .. Timeout + 1 : x >= y => Later(x) >= Later(y)
  BY FragConstants DEF Later
<1>d. up \in [Senders -> 0 .. Timeout + 1] /\ age \in 0 .. Timeout + 1
  BY <1>a DEF SendTypes, SlotTypes
<1>1. up' \in [Senders -> 0 .. Timeout + 1] /\ age' \in 0 .. Timeout + 1
  BY <1>b, <1>c, <1>d
<1>2. SendTypes' /\ MoreTypes' /\ WholeOfOneSender' /\ SlotTypes'
  <2>1. SendTypes'
    BY <1>a, <1>b, <1>1 DEF SendTypes
  <2>2. SlotTypes'
    BY <1>a, <1>b, <1>1 DEF SlotTypes
  <2> QED
    BY <1>a, <1>b, <2>1, <2>2 DEF MoreTypes, WholeOfOneSender
<1>3. \A v \in Senders : Node(v)' /\ Coming(v)' = Coming(v)
  <2>1. \A v \in Senders : up[v] > Timeout => up'[v] > Timeout
    BY <1>b, <1>c, <1>d
  <2> QED
    BY <1>a, <1>b, <2>1, Elsewhere
<1>4. \A v \in Senders : Moved(v)
  <2>1. ASSUME NEW v \in Senders PROVE \A c \in Coming(v) : c.i \in Nat /\ c.i >= c.i
    BY <1>a, ComingJobs DEF Job
  <2> QED
    BY <1>3, <2>1 DEF Moved
<1>5. /\ \A v \in Senders : sent'[v] \in Nat /\ sent'[v] >= sent[v]
      /\ \A v \in Senders : frag_tx_uuid'[v] \in Nat /\ frag_tx_uuid'[v] >= frag_tx_uuid[v]
  BY <1>a, <1>b, NodeTypes
<1>6. \A v \in Senders : age >= up[v] => age' >= up'[v]
  BY <1>b, <1>c, <1>d
<1>7. UNCHANGED <<slot, buf, run>>
  BY <1>b
<1>8. SlotOK' /\ RunOK'
  BY <1>a, <1>4, <1>5, <1>6, <1>7, SlotKept
<1>9. TypeOK'
  BY <1>2 DEF TypeOK, SendTypes, SlotTypes
<1> QED
  BY <1>2, <1>3, <1>8, <1>9 DEF IInv

-----------------------------------------------------------------------------
(* Where a part goes, and how many are there. *)

There(r) == {i \in 0 .. MaxTotal - 1 : r.part_len[i] > 0}

LEMMA IntervalSizes ==
  ASSUME NEW n \in Nat
  PROVE  /\ IsFiniteSet(0 .. n - 1) /\ Cardinality(0 .. n - 1) = n
         /\ IsFiniteSet(1 .. n) /\ Cardinality(1 .. n) = n
<1>1. IsFiniteSet(0 .. n - 1) /\ Cardinality(0 .. n - 1) = n
  BY FS_Interval
<1>2. IsFiniteSet(1 .. n) /\ Cardinality(1 .. n) = n
  BY FS_Interval
<1> QED
  BY <1>1, <1>2

LEMMA OffsetType ==
  ASSUME NEW r, NEW n \in Nat
  PROVE  Offset(r, n) \in Nat
<1> DEFINE S == (0 .. n - 1) \X (1 .. MaxPayload)
           T == {b \in S : b[2] <= r.part_len[b[1]]}
<1>1. IsFiniteSet(0 .. n - 1) /\ IsFiniteSet(1 .. MaxPayload)
  BY FS_Interval, FragConstants
<1>2. IsFiniteSet(S)
  BY <1>1, FS_Product
<1>3. T \in SUBSET S
  OBVIOUS
<1> HIDE DEF S, T
<1>4. Cardinality(T) \in Nat
  BY <1>2, <1>3, FS_Subset, FS_CardinalityType
<1> QED
  BY <1>4 DEF Offset, S, T

\* After n full parts the next one goes to the end of them.
LEMMA OffsetFull ==
  ASSUME NEW r, NEW n \in Nat, \A i \in 0 .. n - 1 : r.part_len[i] = MaxPayload
  PROVE  Offset(r, n) = Off(n)
<1> DEFINE A == 0 .. n - 1
           B == 1 .. MaxPayload
           T == {b \in A \X B : b[2] <= r.part_len[b[1]]}
<1>1. IsFiniteSet(A) /\ Cardinality(A) = n /\ IsFiniteSet(B) /\ Cardinality(B) = MaxPayload
  BY IntervalSizes, FragConstants
<1>2. \A a \in A, b \in B : b <= r.part_len[a]
  BY FragConstants
<1> HIDE DEF A, B
<1>3. T = A \X B
  BY <1>2
<1> HIDE DEF T
<1>4. Cardinality(T) = n * MaxPayload
  BY <1>1, <1>3, FS_Product
<1> QED
  BY <1>4 DEF Offset, Off, A, B, T

\* ... and ends where its own length says.
LEMMA OffsetLast ==
  ASSUME NEW r, NEW n \in Nat, \A i \in 0 .. n - 1 : r.part_len[i] = MaxPayload,
         r.part_len[n] \in 0 .. MaxPayload
  PROVE  Offset(r, n + 1) = Off(n) + r.part_len[n]
<1> DEFINE A == 0 .. n - 1
           B == 1 .. MaxPayload
           z == r.part_len[n]
           Z == 1 .. z
           T == {b \in (0 .. n + 1 - 1) \X B : b[2] <= r.part_len[b[1]]}
           X == A \X B
           Y == {n} \X Z
<1>1. IsFiniteSet(A) /\ Cardinality(A) = n /\ IsFiniteSet(B) /\ Cardinality(B) = MaxPayload
  BY IntervalSizes, FragConstants
<1>2. z \in Nat /\ IsFiniteSet(Z) /\ Cardinality(Z) = z
  <2>1. z \in Nat /\ z <= MaxPayload
    BY FragConstants
  <2> HIDE DEF z
  <2> QED
    BY <2>1, FS_Interval
<1>3. IsFiniteSet(X) /\ Cardinality(X) = Off(n)
  <2> HIDE DEF A, B
  <2> QED
    BY <1>1, FS_Product DEF Off
<1>4. IsFiniteSet(Y) /\ Cardinality(Y) = z
  <2>1. IsFiniteSet({n}) /\ Cardinality({n}) = 1
    BY FS_Singleton
  <2> HIDE DEF Z, z
  <2>2. IsFiniteSet(Y) /\ Cardinality(Y) = 1 * z
    BY <1>2, <2>1, FS_Product
  <2> QED
    BY <1>2, <2>2
<1>5. \A a : a \in 0 .. n + 1 - 1 <=> a \in A \/ a = n
  OBVIOUS
<1>6. /\ \A a \in A, b \in B : b <= r.part_len[a]
      /\ \A b \in B : b <= r.part_len[n] <=> b \in Z
      /\ \A b \in Z : b \in B
      /\ n \notin A
  BY FragConstants
<1> HIDE DEF A, B, Z, z
<1>7. T = X \cup Y
  <2>1. ASSUME NEW a, NEW b PROVE <<a, b>> \in T <=> <<a, b>> \in X \cup Y
    BY <1>5, <1>6
  <2>2. T \subseteq (0 .. n + 1 - 1) \X B /\ X \cup Y \subseteq (0 .. n + 1 - 1) \X B
    BY <1>5, <1>6
  <2> HIDE DEF T, X, Y
  <2> QED
    BY <2>1, <2>2
<1>8. X \cap Y = {}
  BY <1>6
<1>9. T = {b \in (0 .. n + 1 - 1) \X (1 .. MaxPayload) : b[2] <= r.part_len[b[1]]}
  BY DEF B
<1> HIDE DEF T, X, Y
<1>10. Cardinality(T) = Off(n) + z - Cardinality({})
  BY <1>3, <1>4, <1>7, <1>8, FS_Union
<1>11. Off(n) \in Nat
  BY OffFacts
<1> QED
  BY <1>2, <1>9, <1>10, <1>11, FS_EmptySet DEF Offset, z

\* While a part is missing, fewer are there than the packet has.
LEMMA MissingPart ==
  ASSUME NEW r, r.total \in 0 .. MaxTotal, NEW g \in 0 .. MaxTotal - 1, g < r.total,
         r.part_len[g] = 0, \A i \in 0 .. MaxTotal - 1 : i >= r.total => r.part_len[i] = 0
  PROVE  Cardinality(There(r)) < r.total
<1> DEFINE A == 0 .. r.total - 1
           n == r.total
<1>1. n \in Nat /\ g \in A /\ MaxTotal \in Nat
  BY FragConstants
<1>2. IsFiniteSet(A) /\ Cardinality(A) = n
  <2> HIDE DEF n
  <2>1. A = 0 .. n - 1
    BY DEF n
  <2> QED
    BY <1>1, <2>1, IntervalSizes
<1>3. There(r) \subseteq A \ {g}
  <2>1. ASSUME NEW i \in 0 .. MaxTotal - 1, r.part_len[i] > 0 PROVE i \in A /\ i # g
    BY <1>1, <2>1
  <2> QED
    BY <2>1 DEF There
<1> HIDE DEF A, n
<1>4. IsFiniteSet(A \ {g}) /\ Cardinality(A \ {g}) = n - 1
  BY <1>1, <1>2, FS_RemoveElement
<1>5. Cardinality(There(r)) <= n - 1 /\ Cardinality(There(r)) \in Nat
  BY <1>3, <1>4, FS_Subset, FS_CardinalityType
<1> QED
  BY <1>1, <1>5 DEF n

\* A packet is complete with its last part.
LEMMA AllThere ==
  ASSUME NEW r, NEW n \in 1 .. MaxTotal,
         \A i \in 0 .. MaxTotal - 1 : r.part_len[i] > 0 <=> i < n
  PROVE  Cardinality(There(r)) = n
<1>1. There(r) = 0 .. n - 1
  BY FragConstants DEF There
<1>2. Cardinality(0 .. n - 1) = n
  BY FS_Interval
<1> QED
  BY <1>1, <1>2

-----------------------------------------------------------------------------
(* A part comes in. *)

\* What is there is counted, and nothing is beyond the last part.
Counted(r) ==
  /\ r \in Slots /\ r.total \in 0 .. MaxTotal
  /\ r.received = Cardinality(There(r))
  /\ \A i \in 0 .. MaxTotal - 1 : i >= r.total => r.part_len[i] = 0

Fresh(r, f) ==
  r.total = f.total /\ r.from = {} /\ \A i \in 0 .. MaxTotal - 1 : r.part_len[i] = 0

LEMMA OpenedFacts ==
  ASSUME TypeOK, MoreTypes, SlotOK, NEW f \in Frame, f.total \in 2 .. MaxTotal
  PROVE  /\ Counted(Opened(f)) /\ Opened(f).uuid = f.uuid
         /\ Opened(f).received < Opened(f).total
         /\ \/ slot.active /\ age <= Timeout /\ slot.uuid = f.uuid /\ Opened(f) = slot
            \/ ~(Current /\ slot.uuid = f.uuid) /\ Fresh(Opened(f), f)
<1>1. CASE Current /\ slot.uuid = f.uuid
  <2>1. Opened(f) = slot /\ slot.active /\ age <= Timeout
    BY <1>1 DEF Opened, Current
  <2>2. slot \in Slots /\ slot.total \in 0 .. MaxTotal /\ slot.received \in 1 .. slot.total - 1
    BY <2>1 DEF TypeOK, MoreTypes
  <2>3. slot.received = Cardinality(There(slot))
    <3>1. DOMAIN slot.part_len = 0 .. MaxTotal - 1
      BY <2>2 DEF Slots
    <3> QED
      BY <3>1 DEF TypeOK, There
  <2>4. \A i \in 0 .. MaxTotal - 1 : i >= slot.total => slot.part_len[i] = 0
    BY <2>1 DEF SlotOK
  <2>5. slot.received < slot.total
    BY <2>2
  <2>6. Counted(slot)
    BY <2>2, <2>3, <2>4 DEF Counted
  <2> QED
    BY <1>1, <2>1, <2>5, <2>6
<1>2. CASE ~(Current /\ slot.uuid = f.uuid)
  <2> DEFINE r == frag_reasm_reset(f)
  <2>1. Opened(f) = r
    BY <1>2 DEF Opened
  <2>2. /\ r.uuid = f.uuid /\ r.total = f.total /\ r.received = 0 /\ r.from = {}
        /\ r.part_len = [i \in 0 .. MaxTotal - 1 |-> 0]
    BY DEF frag_reasm_reset
  <2>3. r \in Slots
    <3>1. f.uuid \in Nat /\ f.total \in Nat
      BY DEF Frame
    <3>2. [i \in 0 .. MaxTotal - 1 |-> 0] \in [0 .. MaxTotal - 1 -> 0 .. MaxPayload]
      BY FragConstants
    <3> QED
      BY <3>1, <3>2 DEF frag_reasm_reset, Slots
  <2> HIDE DEF r
  <2>4. \A i \in 0 .. MaxTotal - 1 : r.part_len[i] = 0
    BY <2>2
  <2>5. There(r) = {}
    BY <2>4 DEF There
  <2>6. Cardinality(There(r)) = 0
    BY <2>5, FS_EmptySet
  <2>7. r.total \in 0 .. MaxTotal /\ r.received < r.total
    BY <2>2, FragConstants
  <2>8. Counted(r)
    BY <2>2, <2>3, <2>4, <2>6, <2>7 DEF Counted
  <2>9. Fresh(r, f)
    BY <2>2, <2>4 DEF Fresh
  <2> QED
    BY <1>2, <2>1, <2>2, <2>7, <2>8, <2>9
<1> QED
  BY <1>1, <1>2

LEMMA StoredFacts ==
  ASSUME NEW r, Counted(r), r.received < r.total, NEW f, NEW s \in Senders,
         f.seq \in 0 .. MaxTotal - 1, Len(f.data) \in 1 .. MaxPayload,
         NEW st, st = frag_reasm_store(r, f, s)
  PROVE  /\ Counted(st) /\ st.uuid = r.uuid /\ st.total = r.total /\ st.from = r.from \cup {s}
         /\ \A i \in 0 .. MaxTotal - 1 :
              st.part_len[i] = IF Fits(r, f) /\ i = f.seq THEN Len(f.data) ELSE r.part_len[i]
         /\ st.received \in Nat /\ st.received <= st.total
         /\ st.received = r.received \/ st.received = r.received + 1
         /\ Fits(r, f) => st.received = r.received + 1
<1>a. /\ r \in Slots /\ r.total \in 0 .. MaxTotal /\ r.received = Cardinality(There(r))
      /\ \A i \in 0 .. MaxTotal - 1 : i >= r.total => r.part_len[i] = 0
      /\ r.received \in Nat /\ r.total \in Nat
      /\ r.part_len \in [0 .. MaxTotal - 1 -> 0 .. MaxPayload] /\ r.from \in SUBSET Senders
  BY DEF Counted, Slots
<1>1. CASE ~Fits(r, f)
  <2>1. st = [r EXCEPT !.from = @ \cup {s}]
    BY <1>1 DEF frag_reasm_store
  <2>2. /\ st \in Slots /\ st.uuid = r.uuid /\ st.total = r.total /\ st.from = r.from \cup {s}
        /\ st.part_len = r.part_len /\ st.received = r.received
    BY <1>a, <2>1 DEF Slots
  <2>3. There(st) = There(r)
    BY <2>2 DEF There
  <2>4. Counted(st)
    BY <1>a, <2>2, <2>3 DEF Counted
  <2>5. st.received \in Nat /\ st.received <= st.total
    BY <1>a, <2>2
  <2> QED
    BY <1>1, <2>2, <2>4, <2>5
<1>2. CASE Fits(r, f)
  <2> DEFINE z == Len(f.data)
             q == f.seq
  <2>a. z \in 0 .. MaxPayload /\ z > 0 /\ q \in 0 .. MaxTotal - 1
    BY FragConstants
  <2>b. q < r.total /\ r.part_len[q] = 0
    BY <1>2 DEF Fits
  <2>1. st = [r EXCEPT !.part_len[q] = z, !.received = @ + 1, !.from = @ \cup {s}]
    BY <1>2 DEF frag_reasm_store
  <2> HIDE DEF z, q
  <2>2. /\ st \in Slots /\ st.uuid = r.uuid /\ st.total = r.total /\ st.from = r.from \cup {s}
        /\ st.part_len = [r.part_len EXCEPT ![q] = z] /\ st.received = r.received + 1
    <3>1. /\ st.uuid = r.uuid /\ st.total = r.total /\ st.from = r.from \cup {s}
          /\ st.part_len = [r.part_len EXCEPT ![q] = z] /\ st.received = r.received + 1
      BY <1>a, <2>1 DEF Slots
    <3>2. [r.part_len EXCEPT ![q] = z] \in [0 .. MaxTotal - 1 -> 0 .. MaxPayload]
      BY <1>a, <2>a
    <3>3. r.from \cup {s} \in SUBSET Senders /\ r.received + 1 \in Nat
      BY <1>a
    <3>4. st \in Slots
      BY <1>a, <2>1, <3>2, <3>3 DEF Slots
    <3> QED
      BY <3>1, <3>4
  <2>3. \A i \in 0 .. MaxTotal - 1 : st.part_len[i] = IF i = q THEN z ELSE r.part_len[i]
    BY <1>a, <2>2
  <2>4. There(st) = There(r) \cup {q} /\ q \notin There(r)
    <3>1. 0 > 0 <=> FALSE
      OBVIOUS
    <3> QED
      BY <2>a, <2>b, <2>3, <3>1 DEF There
  <2>5. IsFiniteSet(There(r))
    <3>1. There(r) \in SUBSET (0 .. MaxTotal - 1)
      BY DEF There
    <3> QED
      BY <3>1, IntervalSizes, FragConstants, FS_Subset
  <2>6. Cardinality(There(st)) = Cardinality(There(r)) + 1
    BY <2>4, <2>5, FS_AddElement
  <2>7. \A i \in 0 .. MaxTotal - 1 : i >= st.total => st.part_len[i] = 0
    BY <1>a, <2>a, <2>b, <2>2, <2>3
  <2>8. Counted(st)
    BY <1>a, <2>2, <2>6, <2>7 DEF Counted
  <2>9. st.received \in Nat /\ st.received <= st.total
    BY <1>a, <2>2
  <2> QED
    BY <1>2, <2>2, <2>3, <2>8, <2>9 DEF q, z
<1> QED
  BY <1>1, <1>2

\* What is written to the buffer.
LEMMA WrittenFacts ==
  ASSUME MoreTypes, NEW r, NEW f \in Frame
  PROVE  /\ Written(r, f) \in [1 .. BufSize -> Unit \cup {None}]
         /\ Fits(r, f) => \A k \in 1 .. BufSize :
              Written(r, f)[k] = IF k \in Offset(r, f.seq) + 1 .. Offset(r, f.seq) + Len(f.data)
                                   THEN f.data[k - Offset(r, f.seq)] ELSE buf[k]
<1> DEFINE o == Offset(r, f.seq)
           z == Len(f.data)
           W == [k \in 1 .. BufSize |-> IF k \in o + 1 .. o + z THEN f.data[k - o] ELSE buf[k]]
<1>1. buf \in [1 .. BufSize -> Unit \cup {None}] /\ DOMAIN buf = 1 .. BufSize
  BY DEF MoreTypes
<1>2. f.seq \in Nat /\ f.data \in Seq(Unit)
  BY DEF Frame
<1>3. o \in Nat /\ z \in Nat
  BY <1>2, OffsetType, LenProperties
<1>4. \A m \in 1 .. z : f.data[m] \in Unit
  BY <1>2, ElementOfSeq
<1>5. BufSize \in Nat
  BY FragConstants, OffFacts
<1>6. Fits(r, f) => Written(r, f) = W
  BY <1>1 DEF Written
<1> HIDE DEF o, z
<1>7. \A k \in 1 .. BufSize : k \in o + 1 .. o + z => k - o \in 1 .. z
  BY <1>3, <1>5
<1>8. W \in [1 .. BufSize -> Unit \cup {None}]
  <2>1. \A k \in 1 .. BufSize :
          (IF k \in o + 1 .. o + z THEN f.data[k - o] ELSE buf[k]) \in Unit \cup {None}
    BY <1>1, <1>4, <1>7
  <2> QED
    BY <2>1
<1>9. \A k \in 1 .. BufSize : W[k] = IF k \in o + 1 .. o + z THEN f.data[k - o] ELSE buf[k]
  OBVIOUS
<1> HIDE DEF W
<1>10. ~Fits(r, f) => Written(r, f) = buf
  BY DEF Written
<1> QED
  BY <1>1, <1>6, <1>8, <1>9, <1>10 DEF o, z

\* The frame that comes in.
LEMMA ComesIn ==
  ASSUME IInv, NEW s \in Senders, ReceivePart(s), NEW f, f = Head(air[s]), NEW c, c = JobOf(f)
  PROVE  /\ f \in Frame /\ c \in Job /\ c \in Coming(s) /\ Carries(f, s, c)
         /\ Took(c, sent[s], frag_tx_uuid[s])
         /\ c.len \in Lens /\ c.len <= BufSize /\ c.i \in 0 .. Parts(c.len) - 1
         /\ f.total = Parts(c.len) /\ f.total \in 2 .. MaxTotal /\ f.uuid = c.uuid
         /\ f.seq = c.i /\ f.seq \in 0 .. MaxTotal - 1 /\ f.seq < f.total
         /\ Len(f.data) = ChunkLen(c.len, c.i) /\ Len(f.data) \in 1 .. MaxPayload
         /\ f.data[1][1] = s /\ f.data[1][2] = c.pkt
         /\ up[s] > Timeout
<1>1. TypeOK /\ MoreTypes /\ Node(s)
  BY DEF IInv
<1>2. /\ air[s] # <<>> /\ air' = [air EXCEPT ![s] = Tail(@)] /\ UNCHANGED sendVars /\ f.total > 1
  BY DEF ReceivePart
<1>3. f \in Frame /\ c \in Coming(s) /\ Carries(f, s, c) /\ up[s] > Timeout
  BY <1>1, <1>2, TailNode
<1>4. c \in Job /\ Took(c, sent[s], frag_tx_uuid[s])
  BY <1>1, <1>3, ComingJobs
<1>5. c.len \in Lens /\ c.len <= BufSize /\ c.i \in 0 .. Parts(c.len) - 1
  BY <1>4 DEF Took
<1>6. f.total = Parts(c.len) /\ f.seq = c.i /\ f.uuid = c.uuid /\ Len(f.data) = ChunkLen(c.len, c.i)
  BY <1>3 DEF Carries
<1>7. Parts(c.len) \in 1 .. MaxTotal /\ ChunkLen(c.len, c.i) \in 1 .. MaxPayload
  BY <1>5, PartFacts
<1>8. f.total \in 2 .. MaxTotal /\ f.seq \in 0 .. MaxTotal - 1 /\ f.seq < f.total
  BY <1>2, <1>5, <1>6, <1>7, FragConstants
<1>9. f.data[1][1] = s /\ f.data[1][2] = c.pkt
  <2>1. 1 \in 1 .. Len(f.data)
    BY <1>6, <1>7, FragConstants
  <2>2. f.data[1] = <<s, c.pkt, c.len, Off(c.i) + 1>>
    BY <1>3, <2>1 DEF Carries
  <2> QED
    BY <2>2, UnitFields
<1> QED
  BY <1>3, <1>4, <1>5, <1>6, <1>7, <1>8, <1>9

\* What it leaves to come, and what it does to the slot.
LEMMA TakesIn ==
  ASSUME IInv, NEW s \in Senders, ReceivePart(s), NEW f, f = Head(air[s]), NEW c, c = JobOf(f),
         NEW r, r = Opened(f)
  PROVE  /\ slot' \in Slots /\ slot'.uuid = c.uuid /\ slot'.total = r.total
         /\ slot'.from = r.from \cup {s}
         /\ slot'.active = (slot'.received # slot'.total)
         /\ slot'.received = Cardinality(There(slot'))
         /\ slot'.received \in Nat /\ slot'.total \in 0 .. MaxTotal /\ slot'.received <= slot'.total
         /\ slot'.received = r.received \/ slot'.received = r.received + 1
         /\ Fits(r, f) => slot'.received = r.received + 1
         /\ \A i \in 0 .. MaxTotal - 1 : i >= slot'.total => slot'.part_len[i] = 0
         /\ \A i \in 0 .. MaxTotal - 1 :
              slot'.part_len[i] = IF Fits(r, f) /\ i = f.seq THEN Len(f.data) ELSE r.part_len[i]
         /\ got' = IF slot'.active THEN Nothing
                   ELSE [data |-> SubSeq(buf', 1, Offset(slot', slot'.total)), from |-> slot'.from]
         /\ r.received < r.total /\ Counted(r)
         /\ \/ slot.active /\ age <= Timeout /\ slot.uuid = f.uuid /\ r = slot
            \/ ~(Current /\ slot.uuid = f.uuid) /\ Fresh(r, f)
<1> DEFINE st == frag_reasm_store(r, f, s)
<1>0. st = frag_reasm_store(r, f, s)
  OBVIOUS
<1> HIDE DEF st
<1>1. TypeOK /\ MoreTypes /\ SlotOK
  BY DEF IInv
<1>2. /\ f \in Frame /\ f.total \in 2 .. MaxTotal /\ f.uuid = c.uuid
      /\ f.seq \in 0 .. MaxTotal - 1 /\ Len(f.data) \in 1 .. MaxPayload
  BY ComesIn
<1>3. /\ Counted(r) /\ r.uuid = f.uuid /\ r.received < r.total
      /\ \/ slot.active /\ age <= Timeout /\ slot.uuid = f.uuid /\ r = slot
         \/ ~(Current /\ slot.uuid = f.uuid) /\ Fresh(r, f)
  BY <1>1, <1>2, OpenedFacts
<1>4. /\ Counted(st) /\ st.uuid = r.uuid /\ st.total = r.total /\ st.from = r.from \cup {s}
      /\ \A i \in 0 .. MaxTotal - 1 :
           st.part_len[i] = IF Fits(r, f) /\ i = f.seq THEN Len(f.data) ELSE r.part_len[i]
      /\ st.received \in Nat /\ st.received <= st.total
      /\ st.received = r.received \/ st.received = r.received + 1
      /\ Fits(r, f) => st.received = r.received + 1
  BY <1>0, <1>2, <1>3, StoredFacts
<1>5. /\ st \in Slots /\ st.total \in 0 .. MaxTotal /\ st.received = Cardinality(There(st))
      /\ \A i \in 0 .. MaxTotal - 1 : i >= st.total => st.part_len[i] = 0
  BY <1>4 DEF Counted
<1>6. slot' = [st EXCEPT !.active = ~(st.received = st.total)]
  BY <1>0 DEF ReceivePart
<1>7. got' = IF st.received = st.total
               THEN [data |-> SubSeq(buf', 1, Offset(st, st.total)), from |-> st.from] ELSE Nothing
  BY <1>0 DEF ReceivePart
<1>8. /\ slot' \in Slots /\ slot'.uuid = st.uuid /\ slot'.total = st.total /\ slot'.from = st.from
      /\ slot'.part_len = st.part_len /\ slot'.received = st.received
      /\ slot'.active = (st.received # st.total)
  BY <1>5, <1>6 DEF Slots
<1>9. There(slot') = There(st) /\ Offset(slot', slot'.total) = Offset(st, st.total)
  BY <1>8 DEF There, Offset
<1>10. /\ slot'.received = Cardinality(There(slot')) /\ slot'.active = (slot'.received # slot'.total)
       /\ got' = IF slot'.active THEN Nothing
                 ELSE [data |-> SubSeq(buf', 1, Offset(slot', slot'.total)), from |-> slot'.from]
  <2>1. slot'.received = Cardinality(There(slot'))
    BY <1>5, <1>8, <1>9
  <2>2. slot'.active = (slot'.received # slot'.total)
    BY <1>8
  <2>3. got' = IF slot'.active THEN Nothing
               ELSE [data |-> SubSeq(buf', 1, Offset(slot', slot'.total)), from |-> slot'.from]
    <3>1. slot'.active <=> st.received # st.total
      BY <1>8
    <3> QED
      BY <1>7, <1>8, <1>9, <3>1
  <2> QED
    BY <2>1, <2>2, <2>3
<1>11. slot'.uuid = c.uuid
  BY <1>2, <1>3, <1>4, <1>8
<1> QED
  BY <1>3, <1>4, <1>5, <1>8, <1>10, <1>11

\* The next part of a packet whose parts before it are there, and only those.
LEMMA NextPart ==
  ASSUME IInv, NEW s \in Senders, ReceivePart(s), NEW f, f = Head(air[s]), NEW c, c = JobOf(f),
         NEW r, r = Opened(f), NEW n \in Nat, c.i = n, r.total = Parts(c.len),
         \A i \in 0 .. MaxTotal - 1 : r.part_len[i] = IF i < n THEN MaxPayload ELSE 0,
         \A k \in 1 .. Off(n) : buf[k] = <<s, c.pkt, c.len, k>>
  PROVE  /\ n + 1 < Parts(c.len) => Holds(s, c.pkt, c.len, n + 1)'
         /\ n + 1 = Parts(c.len) => ~slot'.active /\ Packet(got'.data, <<s, c.pkt>>)
         /\ n + 1 = Parts(c.len) => got'.data # <<>> /\ got'.data[1] = <<s, c.pkt, c.len, 1>>
<1> DEFINE z == Len(f.data)
           len == c.len
           p == c.pkt
           o == Off(n)
<1>a. /\ f \in Frame /\ Carries(f, s, c) /\ len \in Lens /\ len <= BufSize
      /\ n \in 0 .. Parts(len) - 1 /\ f.seq = n /\ f.seq \in 0 .. MaxTotal - 1 /\ f.seq < f.total
      /\ f.total = Parts(len) /\ f.total \in 2 .. MaxTotal /\ z = ChunkLen(len, n)
  BY ComesIn
<1>b. /\ z \in 1 .. MaxPayload /\ o + z <= len
      /\ n + 1 < Parts(len) => z = MaxPayload
      /\ n + 1 = Parts(len) => o + z = len
  BY <1>a, PartFacts
<1>c. /\ o \in Nat /\ Off(n + 1) = o + MaxPayload /\ len \in Nat /\ len > 0 /\ z \in Nat
      /\ BufSize \in Nat /\ MaxTotal \in Nat /\ MaxPayload \in Nat /\ Parts(len) \in Nat /\ z > 0
  <2>1. o \in Nat /\ Off(n + 1) = o + MaxPayload
    BY OffFacts
  <2>2. len \in Nat /\ len > 0 /\ MaxTotal \in Nat /\ MaxPayload \in Nat
    BY <1>a, FragConstants
  <2>3. BufSize \in Nat
    BY <2>2, OffFacts
  <2> HIDE DEF z, len, o
  <2>4. z \in Nat /\ z > 0 /\ Parts(len) \in Nat
    BY <1>a, <1>b, <2>2
  <2> QED
    BY <2>1, <2>2, <2>3, <2>4
<1>d. MoreTypes
  BY DEF IInv
<1>e. buf' = Written(r, f)
  BY DEF ReceivePart
<1> HIDE DEF z, len, p, o
<1>1. Offset(r, n) = o
  <2>1. \A i \in 0 .. n - 1 : r.part_len[i] = MaxPayload
    BY <1>a, <1>c
  <2> QED
    BY <2>1, OffsetFull DEF o
<1>2. Fits(r, f)
  <2>1. r.part_len[f.seq] = 0 /\ f.seq < r.total
    BY <1>a DEF len
  <2>2. o + z <= BufSize
    BY <1>a, <1>b, <1>c
  <2> QED
    BY <1>a, <1>1, <2>1, <2>2 DEF Fits, z
<1>3. /\ \A i \in 0 .. MaxTotal - 1 : slot'.part_len[i] = IF i = n THEN z ELSE r.part_len[i]
      /\ slot'.total = Parts(len) /\ slot'.active = (slot'.received # slot'.total)
      /\ slot'.received = Cardinality(There(slot'))
      /\ got' = IF slot'.active THEN Nothing
                ELSE [data |-> SubSeq(buf', 1, Offset(slot', slot'.total)), from |-> slot'.from]
  BY <1>a, <1>2, TakesIn DEF z, len
<1>4. ASSUME NEW k \in 1 .. o + z PROVE buf'[k] = <<s, p, len, k>> /\ k \in 1 .. BufSize
  <2>1. k \in 1 .. BufSize
    BY <1>a, <1>b, <1>c
  <2>2. buf'[k] = IF k \in o + 1 .. o + z THEN f.data[k - o] ELSE buf[k]
    BY <1>a, <1>d, <1>e, <1>1, <1>2, <2>1, WrittenFacts DEF z
  <2>3. CASE k <= o
    BY <1>c, <2>1, <2>2, <2>3 DEF o, p, len
  <2>4. CASE k > o
    <3>1. k - o \in 1 .. z /\ o + (k - o) = k /\ k \in o + 1 .. o + z
      BY <1>c, <2>4
    <3>2. f.data[k - o] = <<s, c.pkt, c.len, Off(c.i) + (k - o)>>
      BY <1>a, <3>1 DEF Carries, z
    <3> QED
      BY <2>1, <2>2, <3>1, <3>2 DEF o, p, len
  <2> QED
    BY <1>c, <2>1, <2>3, <2>4
<1>5. ASSUME n + 1 < Parts(len) PROVE Holds(s, p, len, n + 1)'
  <2>1. z = MaxPayload /\ Off(n + 1) = o + z
    BY <1>b, <1>c, <1>5
  <2>2. \A i \in 0 .. MaxTotal - 1 : slot'.part_len[i] = IF i < n + 1 THEN MaxPayload ELSE 0
    BY <1>3, <2>1
  <2>3. \A k \in 1 .. Off(n + 1) : buf'[k] = <<s, p, len, k>>
    BY <1>4, <2>1
  <2>4. 0 < n + 1
    OBVIOUS
  <2> QED
    BY <1>3, <1>5, <2>2, <2>3, <2>4 DEF Holds
<1>6. ASSUME n + 1 = Parts(len)
      PROVE  /\ ~slot'.active /\ Packet(got'.data, <<s, p>>)
             /\ got'.data # <<>> /\ got'.data[1] = <<s, p, len, 1>>
  <2> DEFINE d == SubSeq(buf', 1, len)
  <2>1. o + z = len
    BY <1>b, <1>6
  <2>2. Cardinality(There(slot')) = n + 1
    <3>1. \A i \in 0 .. MaxTotal - 1 : slot'.part_len[i] > 0 <=> i < n + 1
      BY <1>3, <1>c, FragConstants
    <3>2. n + 1 \in 1 .. MaxTotal
      BY <1>a, <1>6
    <3> QED
      BY <3>1, <3>2, AllThere
  <2>3. ~slot'.active
    <3>1. slot'.received = slot'.total
      BY <1>3, <1>6, <2>2
    <3> QED
      BY <1>3, <3>1, Zenon
  <2>4. Offset(slot', n + 1) = len
    <3>1. \A i \in 0 .. n - 1 : slot'.part_len[i] = MaxPayload
      BY <1>3, <1>a, <1>c
    <3>2. slot'.part_len[n] = z /\ z \in 0 .. MaxPayload
      BY <1>3, <1>a, <1>b, <1>c
    <3>3. Offset(slot', n + 1) = Off(n) + slot'.part_len[n]
      BY <3>1, <3>2, OffsetLast
    <3> QED
      BY <2>1, <3>2, <3>3 DEF o
  <2>5. got'.data = d
    BY <1>3, <1>6, <2>3, <2>4
  <2>6. \A k \in 1 .. len : buf'[k] = <<s, p, len, k>>
    BY <1>4, <2>1
  <2>7. /\ Len(d) = len /\ DOMAIN d = 1 .. len
        /\ \A k \in 1 .. len : d[k] = buf'[k]
    <3>1. buf' \in [1 .. BufSize -> Unit \cup {None}]
      BY <1>a, <1>d, <1>e, WrittenFacts
    <3>2. \A k \in 1 .. len : buf'[k] \in Unit \cup {None}
      BY <1>4, <2>1, <3>1
    <3> DEFINE B == buf'
    <3> HIDE DEF B
    <3>3. \A k \in 1 .. len : B[k] \in Unit \cup {None}
      BY <3>2 DEF B
    <3>4. /\ SubSeq(B, 1, len) \in Seq(Unit \cup {None})
          /\ Len(SubSeq(B, 1, len)) = IF 1 <= len THEN len - 1 + 1 ELSE 0
          /\ \A k \in 1 .. len - 1 + 1 : SubSeq(B, 1, len)[k] = B[1 + k - 1]
      BY <1>c, <3>3, SubSeqProperties
    <3>5. Len(SubSeq(B, 1, len)) = len /\ \A k \in 1 .. len : SubSeq(B, 1, len)[k] = B[k]
      BY <1>c, <3>4
    <3>6. DOMAIN SubSeq(B, 1, len) = 1 .. len
      BY <3>4, <3>5, LenProperties
    <3> QED
      BY <3>5, <3>6 DEF B
  <2> HIDE DEF d
  <2>8. <<s, p>>[1] = s /\ <<s, p>>[2] = p
    OBVIOUS
  <2>9. Packet(d, <<s, p>>)
    BY <2>6, <2>7, <2>8 DEF Packet
  <2>10. 1 \in 1 .. len /\ d[1] = <<s, p, len, 1>>
    BY <1>c, <2>6, <2>7
  <2>11. d # <<>>
    BY <1>c, <2>7
  <2> QED
    BY <2>3, <2>5, <2>9, <2>10, <2>11
<1> QED
  BY <1>5, <1>6 DEF len, p

\* What is to come after the frame that comes in.
LEMMA AfterIn ==
  ASSUME IInv, NEW s \in Senders, ReceivePart(s), NEW f, f = Head(air[s]), NEW c, c = JobOf(f)
  PROVE  /\ Node(s)' /\ air' \in [Senders -> Seq(Frame)] /\ \A v \in Senders \ {s} : air'[v] = air[v]
         /\ \A n \in Nat : n <= c.i => Rest(s, c.uuid, c.pkt, c.len, n + 1)'
         /\ SameNumber(s, c.uuid, c.pkt, c.len)'
         /\ c.pkt \in 1 .. MaxPackets /\ c.pkt <= sent'[s]
         /\ c.uuid \in Nat /\ c.uuid <= frag_tx_uuid'[s]
<1>1. TypeOK /\ MoreTypes /\ Node(s)
  BY DEF IInv
<1>2. /\ air[s] # <<>> /\ air' = [air EXCEPT ![s] = Tail(@)] /\ UNCHANGED sendVars
  BY DEF ReceivePart
<1>3. /\ Node(s)' /\ air' \in [Senders -> Seq(Frame)] /\ \A v \in Senders \ {s} : air'[v] = air[v]
      /\ Coming(s)' \subseteq Coming(s) /\ \A d \in Coming(s)' : Before(c, d)
  BY <1>1, <1>2, TailNode
<1>4. c \in Job /\ Took(c, sent[s], frag_tx_uuid[s])
  BY ComesIn
<1>5. \A d \in Coming(s)' : d \in Job
  BY <1>1, <1>3, ComingJobs
<1>6. ASSUME NEW n \in Nat, n <= c.i, NEW d \in Coming(s)', d.uuid = c.uuid
      PROVE  d.pkt = c.pkt /\ d.len = c.len /\ d.i >= n + 1
  <2>1. c.i < d.i /\ c.pkt = d.pkt /\ c.len = d.len
    BY <1>3, <1>6 DEF Before
  <2>2. c.i \in Nat /\ d.i \in Nat
    BY <1>4, <1>5 DEF Job
  <2> QED
    BY <1>6, <2>1, <2>2
<1>7. ASSUME NEW d \in Coming(s)', d.pkt = c.pkt PROVE d.uuid = c.uuid /\ d.len = c.len
  BY <1>3, <1>7 DEF Before
<1>8. /\ c.pkt \in 1 .. MaxPackets /\ c.pkt <= sent'[s] /\ c.uuid \in Nat /\ c.uuid <= frag_tx_uuid'[s]
  <2>1. sent'[s] = sent[s] /\ frag_tx_uuid'[s] = frag_tx_uuid[s]
    BY <1>2 DEF sendVars
  <2>2. sent[s] \in Nat /\ sent[s] <= MaxPackets /\ frag_tx_uuid[s] \in Nat
    BY <1>1, NodeTypes
  <2>3. c.pkt \in 1 .. sent[s] /\ c.uuid \in 1 .. frag_tx_uuid[s]
    BY <1>4 DEF Took
  <2> QED
    BY <2>1, <2>2, <2>3, FragConstants
<1>9. \A n \in Nat : n <= c.i => Rest(s, c.uuid, c.pkt, c.len, n + 1)'
  BY <1>6 DEF Rest
<1>10. SameNumber(s, c.uuid, c.pkt, c.len)'
  BY <1>7 DEF SameNumber
<1> QED
  BY <1>3, <1>8, <1>9, <1>10

\* A slot that met this sender only is of one packet after the part as well, or the
\* packet is whole and handed up.
LEMMA OneSenderIn ==
  ASSUME IInv, NEW s \in Senders, ReceivePart(s), NEW f, f = Head(air[s]), NEW c, c = JobOf(f),
         NEW r, r = Opened(f), slot'.from = {s}
  PROVE  \/ OneSender(s)' /\ slot'.active
         \/ ~slot'.active /\ Packet(got'.data, <<s, c.pkt>>)
            /\ got'.data[1] = <<s, c.pkt, c.len, 1>>
<1> DEFINE S(m) == OfPacket(s, c.pkt, c.len, m)'
           Whole == /\ ~slot'.active /\ Packet(got'.data, <<s, c.pkt>>)
                    /\ got'.data[1] = <<s, c.pkt, c.len, 1>>
           P == Parts(c.len)
<1>a. /\ c \in Coming(s) /\ c.len \in Lens /\ c.len <= BufSize /\ c.i \in 0 .. P - 1
      /\ f.total = P /\ f.total \in 2 .. MaxTotal /\ f.uuid = c.uuid /\ f.seq = c.i
      /\ up[s] > Timeout /\ c \in Job
  BY ComesIn
<1>b. /\ slot'.uuid = c.uuid /\ slot'.total = r.total /\ slot'.from = r.from \cup {s}
      /\ slot'.active = (slot'.received # slot'.total)
      /\ slot'.received = Cardinality(There(slot')) /\ slot'.total \in 0 .. MaxTotal
      /\ \A i \in 0 .. MaxTotal - 1 : i >= slot'.total => slot'.part_len[i] = 0
      /\ \A i \in 0 .. MaxTotal - 1 :
           slot'.part_len[i] = IF Fits(r, f) /\ i = f.seq THEN Len(f.data) ELSE r.part_len[i]
      /\ \/ slot.active /\ age <= Timeout /\ slot.uuid = f.uuid /\ r = slot
         \/ Fresh(r, f)
  <2>0. slot'.from = r.from \cup {s}
    BY TakesIn
  <2>1. /\ slot'.uuid = c.uuid /\ slot'.total = r.total
        /\ slot'.received = Cardinality(There(slot')) /\ slot'.total \in 0 .. MaxTotal
        /\ \A i \in 0 .. MaxTotal - 1 : i >= slot'.total => slot'.part_len[i] = 0
        /\ \A i \in 0 .. MaxTotal - 1 :
             slot'.part_len[i] = IF Fits(r, f) /\ i = f.seq THEN Len(f.data) ELSE r.part_len[i]
    BY TakesIn
  <2>2. slot'.active = (slot'.received # slot'.total)
    BY TakesIn
  <2>3. \/ slot.active /\ age <= Timeout /\ slot.uuid = f.uuid /\ r = slot
        \/ Fresh(r, f)
    BY TakesIn
  <2> QED
    BY <2>0, <2>1, <2>2, <2>3
<1>c. /\ \A n \in Nat : n <= c.i => Rest(s, c.uuid, c.pkt, c.len, n + 1)'
      /\ c.pkt \in 1 .. MaxPackets /\ c.pkt <= sent'[s] /\ c.uuid <= frag_tx_uuid'[s]
  BY AfterIn
<1>d. c.i \in Nat /\ P \in Nat /\ P <= MaxTotal /\ P >= 2 /\ MaxTotal \in Nat /\ Off(0) = 0
  <2>1. c.i \in Nat /\ MaxTotal \in Nat /\ Off(0) = 0
    BY <1>a, FragConstants, OffFacts DEF Job
  <2>2. P \in Nat /\ P <= MaxTotal /\ P >= 2
    BY <1>a, <2>1
  <2> QED
    BY <2>1, <2>2
<1>e. SlotOK /\ TypeOK /\ MoreTypes
  BY DEF IInv
<1> HIDE DEF P
\* A missing part.
<1>1. ASSUME NEW n \in Nat, n < P, n <= c.i, slot'.total = P, slot'.part_len[n] = 0
      PROVE  S(n)
  <2>1. Rest(s, slot.uuid, c.pkt, c.len, n + 1)'
    BY <1>b, <1>c, <1>1 DEF Rest
  <2>2. n < Parts(c.len) /\ slot'.total = Parts(c.len)
    BY <1>1 DEF P
  <2> QED
    BY <1>a, <1>b, <1>c, <1>1, <2>1, <2>2 DEF OfPacket
\* The first parts.
<1>2. ASSUME NEW n \in Nat, c.i = n, r.total = P,
             \A i \in 0 .. MaxTotal - 1 : r.part_len[i] = IF i < n THEN MaxPayload ELSE 0,
             \A k \in 1 .. Off(n) : buf[k] = <<s, c.pkt, c.len, k>>
      PROVE  (n + 1 < P /\ S(n + 1)) \/ Whole
  <2>1. /\ n + 1 < P => Holds(s, c.pkt, c.len, n + 1)'
        /\ n + 1 = P => Whole
    BY <1>2, NextPart DEF P
  <2>2. ASSUME n + 1 < P PROVE S(n + 1)
    <3>1. Rest(s, slot.uuid, c.pkt, c.len, n + 1)'
      BY <1>b, <1>c, <1>2 DEF Rest
    <3>2. slot'.total = Parts(c.len) /\ n + 1 < Parts(c.len)
      BY <1>b, <1>2, <2>2 DEF P
    <3> QED
      BY <1>a, <1>b, <1>c, <2>1, <2>2, <3>1, <3>2 DEF OfPacket
  <2>3. n + 1 < P \/ n + 1 = P
    BY <1>a, <1>d, <1>2
  <2> HIDE DEF S, Whole
  <2> QED
    BY <2>1, <2>2, <2>3
<1>3. (\E m \in Nat : m < P /\ S(m)) \/ Whole
  <2>1. CASE Fresh(r, f)
    <3>1. /\ \A i \in 0 .. MaxTotal - 1 : r.part_len[i] = 0
          /\ r.total = P /\ slot'.total = P
      BY <1>a, <1>b, <2>1 DEF Fresh
    <3>2. CASE c.i = 0
      <4>1. \A i \in 0 .. MaxTotal - 1 : r.part_len[i] = IF i < 0 THEN MaxPayload ELSE 0
        BY <3>1
      <4>2. \A k \in 1 .. Off(0) : FALSE
        BY <1>d
      <4>3. (0 + 1 < P /\ S(0 + 1)) \/ Whole
        <5> HIDE DEF S, Whole
        <5> QED
          BY <1>2, <3>1, <3>2, <4>1, <4>2
      <4> HIDE DEF S, Whole
      <4> QED
        BY <4>3
    <3>3. CASE c.i # 0
      <4>1. slot'.part_len[0] = 0
        BY <1>a, <1>b, <1>d, <3>1, <3>3
      <4> HIDE DEF S, Whole
      <4>2. S(0)
        BY <1>1, <1>d, <3>1, <4>1
      <4> QED
        BY <1>d, <4>2
    <3> QED
      BY <3>2, <3>3
  <2>2. CASE slot.active /\ age <= Timeout /\ slot.uuid = f.uuid /\ r = slot
    <3>1. slot.from = {s}
      BY <1>b, <1>e, <2>2 DEF SlotOK
    <3>2. ~(age >= up[s])
      <4>1. age \in Nat /\ up[s] \in Nat /\ Timeout \in Nat
        BY <1>e, NodeTypes, FragConstants DEF TypeOK
      <4> QED
        BY <1>a, <2>2, <4>1
    <3>3. OneSender(s)
      BY <1>e, <2>2, <3>1, <3>2 DEF SlotOK
    <3>4. PICK p \in 1 .. MaxPackets, len \in Lens, n \in 0 .. MaxTotal - 1 : OfPacket(s, p, len, n)
      BY <3>3 DEF OneSender
    <3>5. slot.total = Parts(len) /\ n < Parts(len) /\ n \in Nat
      BY <1>d, <3>4 DEF OfPacket
    <3>6. c.uuid = slot.uuid
      BY <1>a, <2>2
    <3>7. CASE Holds(s, p, len, n) /\ Rest(s, slot.uuid, p, len, n)
      <4>1. c.pkt = p /\ c.len = len /\ c.i >= n
        BY <1>a, <3>6, <3>7 DEF Rest
      <4>2. /\ slot.total = P /\ n < P
            /\ \A i \in 0 .. MaxTotal - 1 : slot.part_len[i] = IF i < n THEN MaxPayload ELSE 0
            /\ \A k \in 1 .. Off(n) : buf[k] = <<s, c.pkt, c.len, k>>
        BY <3>5, <3>7, <4>1 DEF Holds, P
      <4>3. CASE c.i = n
        <5>1. (n + 1 < P /\ S(n + 1)) \/ Whole
          <6> HIDE DEF S, Whole
          <6> QED
            BY <1>2, <2>2, <3>5, <4>2, <4>3
        <5> HIDE DEF S, Whole
        <5> QED
          BY <3>5, <5>1
      <4>4. CASE c.i # n
        <5>1. slot'.part_len[n] = 0 /\ slot'.total = P
          BY <1>a, <1>b, <2>2, <3>4, <4>2, <4>4
        <5> HIDE DEF S, Whole
        <5>2. S(n)
          BY <1>1, <3>5, <4>1, <4>2, <5>1
        <5> QED
          BY <3>5, <4>2, <5>2
      <4> QED
        BY <4>3, <4>4
    <3>8. CASE slot.part_len[n] = 0 /\ Rest(s, slot.uuid, p, len, n + 1)
      <4>1. c.pkt = p /\ c.len = len /\ c.i >= n + 1
        BY <1>a, <3>6, <3>8 DEF Rest
      <4>2. n < P /\ c.i # n /\ n <= c.i /\ slot.total = P
        BY <1>d, <3>5, <4>1 DEF P
      <4>3. slot'.part_len[n] = 0 /\ slot'.total = P
        BY <1>a, <1>b, <2>2, <3>4, <3>8, <4>2
      <4> HIDE DEF S, Whole
      <4>4. S(n)
        BY <1>1, <3>5, <4>2, <4>3
      <4> QED
        BY <3>5, <4>2, <4>4
    <3> QED
      BY <3>4, <3>7, <3>8 DEF OfPacket
  <2> QED
    BY <1>b, <2>1, <2>2
<1>4. ASSUME NEW m \in Nat, m < P, S(m) PROVE OneSender(s)' /\ slot'.active
  <2>1. m \in 0 .. MaxTotal - 1
    BY <1>d, <1>4
  <2>2. OneSender(s)'
    BY <1>a, <1>c, <1>4, <2>1 DEF OneSender
  <2>3. slot'.part_len[m] = 0 /\ slot'.total = P
    BY <1>4, <2>1 DEF OfPacket, Holds, P
  <2>4. Cardinality(There(slot')) < slot'.total
    BY <1>b, <1>4, <2>1, <2>3, MissingPart
  <2>5. slot'.received # slot'.total
    BY <1>b, <1>d, <2>3, <2>4
  <2> QED
    BY <1>b, <2>2, <2>5
<1> HIDE DEF S
<1> QED
  BY <1>3, <1>4

\* Parts that come in a row are what the slot holds, and the last one completes it.
LEMMA RunIn ==
  ASSUME IInv, NEW s \in Senders, ReceivePart(s), NEW f, f = Head(air[s]), NEW c, c = JobOf(f),
         NEW r, r = Opened(f), run' # NoRun
  PROVE  /\ run' = [pkt |-> <<s, c.pkt>>, n |-> c.i + 1, total |-> Parts(c.len)]
         /\ c.i + 1 < Parts(c.len) => Holds(s, c.pkt, c.len, c.i + 1)'
         /\ c.i + 1 = Parts(c.len) => ~slot'.active /\ Packet(got'.data, <<s, c.pkt>>)
         /\ c.i + 1 = Parts(c.len) => got'.data # <<>>
<1> DEFINE pkt == <<f.data[1][1], f.data[1][2]>>
<1>a. /\ c \in Coming(s) /\ f.total = Parts(c.len) /\ f.uuid = c.uuid /\ f.seq = c.i /\ c \in Job
      /\ f.data[1][1] = s /\ f.data[1][2] = c.pkt
  BY ComesIn
<1>b. \/ slot.active /\ age <= Timeout /\ slot.uuid = f.uuid /\ r = slot
      \/ ~(Current /\ slot.uuid = f.uuid) /\ Fresh(r, f)
  BY TakesIn
<1>c. c.i \in Nat
  BY <1>a DEF Job
<1>d. RunOK
  BY DEF IInv
<1>1. run' = Follow(f)
  BY DEF ReceivePart
<1>2. /\ \/ f.seq = 0 /\ ~(Current /\ slot.uuid = f.uuid)
         \/ f.seq > 0 /\ run.pkt = pkt /\ run.n = f.seq /\ Current
      /\ run' = [pkt |-> pkt, n |-> f.seq + 1, total |-> f.total]
  BY <1>1 DEF Follow
<1>3. pkt = <<s, c.pkt>>
  BY <1>a
<1> HIDE DEF pkt
<1>4. /\ r.total = Parts(c.len)
      /\ \A i \in 0 .. MaxTotal - 1 : r.part_len[i] = IF i < c.i THEN MaxPayload ELSE 0
      /\ \A k \in 1 .. Off(c.i) : buf[k] = <<s, c.pkt, c.len, k>>
  <2>1. CASE f.seq = 0 /\ ~(Current /\ slot.uuid = f.uuid)
    <3>1. Fresh(r, f)
      BY <1>b, <2>1 DEF Current
    <3>2. c.i = 0 /\ r.total = f.total /\ \A i \in 0 .. MaxTotal - 1 : r.part_len[i] = 0
      BY <1>a, <2>1, <3>1 DEF Fresh
    <3>3. Off(c.i) = 0
      BY <3>2, OffFacts
    <3>4. \A i \in 0 .. MaxTotal - 1 : ~(i < c.i)
      BY <3>2
    <3>5. \A k \in 1 .. Off(c.i) : FALSE
      BY <3>3
    <3> QED
      BY <1>a, <3>2, <3>4, <3>5
  <2>2. CASE f.seq > 0 /\ run.pkt = pkt /\ run.n = f.seq /\ Current
    <3>1. slot.active /\ run.n > 0 /\ run.n = c.i
      BY <1>a, <2>2 DEF Current
    <3>2. PICK v \in Senders, p \in 1 .. MaxPackets, len \in Lens : RunOf(v, p, len)
      BY <1>d, <3>1 DEF RunOK
    <3>3. v = s /\ p = c.pkt
      <4>1. <<v, p>> = <<s, c.pkt>>
        BY <1>3, <2>2, <3>2 DEF RunOf
      <4> QED
        BY <4>1
    <3>4. Holds(s, c.pkt, len, c.i) /\ SameNumber(s, slot.uuid, c.pkt, len)
      BY <3>1, <3>2, <3>3 DEF RunOf
    <3>5. c.uuid = slot.uuid /\ c.len = len
      BY <1>a, <3>4 DEF SameNumber
    <3>6. r = slot
      BY <1>a, <1>b, <2>2, <3>5
    <3> QED
      BY <3>4, <3>5, <3>6 DEF Holds
  <2> QED
    BY <1>2, <2>1, <2>2
<1>5. /\ c.i + 1 < Parts(c.len) => Holds(s, c.pkt, c.len, c.i + 1)'
      /\ c.i + 1 = Parts(c.len) => ~slot'.active /\ Packet(got'.data, <<s, c.pkt>>)
      /\ c.i + 1 = Parts(c.len) => got'.data # <<>>
  <2>1. PICK n \in Nat : n = c.i
    BY <1>c
  <2>2. /\ c.i = n /\ r.total = Parts(c.len)
        /\ \A i \in 0 .. MaxTotal - 1 : r.part_len[i] = IF i < n THEN MaxPayload ELSE 0
        /\ \A k \in 1 .. Off(n) : buf[k] = <<s, c.pkt, c.len, k>>
    BY <1>4, <2>1
  <2>3. /\ n + 1 < Parts(c.len) => Holds(s, c.pkt, c.len, n + 1)'
        /\ n + 1 = Parts(c.len) => ~slot'.active /\ Packet(got'.data, <<s, c.pkt>>)
        /\ n + 1 = Parts(c.len) => got'.data # <<>>
    BY <2>2, NextPart
  <2> QED
    BY <2>1, <2>3
<1>6. run' = [pkt |-> <<s, c.pkt>>, n |-> c.i + 1, total |-> Parts(c.len)]
  BY <1>a, <1>2, <1>3
<1> QED
  BY <1>5, <1>6

LEMMA ReceivePartInv ==
  ASSUME IInv, NEW s \in Senders, ReceivePart(s)
  PROVE  IInv'
<1>p. PICK f : f = Head(air[s])
  OBVIOUS
<1>q. PICK c : c = JobOf(f)
  OBVIOUS
<1>r. PICK r : r = Opened(f)
  OBVIOUS
<1>a. TypeOK /\ MoreTypes /\ SendTypes /\ \A v \in Senders : Node(v)
  BY TypeParts DEF IInv
<1>b. UNCHANGED <<frag_tx_uuid, mu, frag, pc, job, sent, boots, up>> /\ age' = 0 /\ buf' = Written(r, f)
  BY <1>p, <1>r DEF ReceivePart, sendVars
<1>c. /\ f \in Frame /\ c \in Job /\ c.len \in Lens /\ c.len <= BufSize /\ c.i \in 0 .. Parts(c.len) - 1
      /\ f.total \in 2 .. MaxTotal /\ f.seq = c.i /\ f.seq < f.total /\ Len(f.data) \in 1 .. MaxPayload
      /\ f.total = Parts(c.len) /\ f.seq \in 0 .. MaxTotal - 1
  BY <1>p, <1>q, ComesIn
<1>d. /\ Node(s)' /\ air' \in [Senders -> Seq(Frame)] /\ \A v \in Senders \ {s} : air'[v] = air[v]
      /\ SameNumber(s, c.uuid, c.pkt, c.len)'
      /\ c.pkt \in 1 .. MaxPackets /\ c.pkt <= sent'[s]
  BY <1>p, <1>q, AfterIn
<1>e. /\ slot' \in Slots /\ slot'.uuid = c.uuid /\ slot'.total = r.total
      /\ slot'.from = r.from \cup {s}
      /\ slot'.received = Cardinality(There(slot'))
      /\ slot'.received \in Nat /\ slot'.total \in 0 .. MaxTotal /\ slot'.received <= slot'.total
      /\ slot'.received = r.received \/ slot'.received = r.received + 1
      /\ Fits(r, f) => slot'.received = r.received + 1
      /\ \A i \in 0 .. MaxTotal - 1 : i >= slot'.total => slot'.part_len[i] = 0
      /\ r.received < r.total /\ Counted(r)
      /\ \/ slot.active /\ age <= Timeout /\ slot.uuid = f.uuid /\ r = slot
         \/ Fresh(r, f)
  BY <1>p, <1>q, <1>r, TakesIn
<1>f. /\ slot'.active = (slot'.received # slot'.total)
      /\ got' = IF slot'.active THEN Nothing
                ELSE [data |-> SubSeq(buf', 1, Offset(slot', slot'.total)), from |-> slot'.from]
  BY <1>p, <1>q, <1>r, TakesIn
<1>g. \/ OneSender(s)' /\ slot'.active
      \/ ~slot'.active /\ Packet(got'.data, <<s, c.pkt>>) /\ got'.data[1] = <<s, c.pkt, c.len, 1>>
      \/ slot'.from # {s}
  BY <1>p, <1>q, <1>r, OneSenderIn
<1>h. run' # NoRun =>
        /\ run' = [pkt |-> <<s, c.pkt>>, n |-> c.i + 1, total |-> Parts(c.len)]
        /\ c.i + 1 < Parts(c.len) => Holds(s, c.pkt, c.len, c.i + 1)'
        /\ c.i + 1 = Parts(c.len) => ~slot'.active
  BY <1>p, <1>q, <1>r, RunIn
<1>1. SendTypes'
  BY <1>a, <1>b DEF SendTypes
<1>2. \A v \in Senders : Node(v)'
  <2>1. \A v \in Senders \ {s} : Node(v)'
    BY <1>a, <1>b, <1>d, Elsewhere
  <2> QED
    BY <1>d, <2>1
<1>3. MoreTypes'
  <2>1. buf' \in [1 .. BufSize -> Unit \cup {None}]
    BY <1>a, <1>b, <1>c, WrittenFacts
  <2> QED
    BY <1>a, <1>b, <1>d, <1>e, <2>1 DEF MoreTypes
<1>4. r.received \in Nat /\ r.total \in Nat
  BY <1>e DEF Counted, Slots
\* The first part that is met always fits.
<1>5. slot'.received >= 1
  <2>1. CASE slot.active /\ r = slot
    <3>1. slot.received >= 1
      BY <1>a, <2>1 DEF TypeOK
    <3> QED
      BY <1>e, <1>4, <2>1, <3>1
  <2>2. CASE Fresh(r, f)
    <3>1. r.part_len[f.seq] = 0 /\ f.seq < r.total
      BY <1>c, <2>2 DEF Fresh
    <3>2. Offset(r, f.seq) = 0
      <4>1. \A b \in (0 .. f.seq - 1) \X (1 .. MaxPayload) : ~(b[2] <= r.part_len[b[1]])
        <5>1. ASSUME NEW i \in 0 .. f.seq - 1, NEW k \in 1 .. MaxPayload PROVE ~(k <= r.part_len[i])
          <6>1. i \in 0 .. MaxTotal - 1
            BY <1>c, FragConstants
          <6>2. r.part_len[i] = 0
            BY <2>2, <6>1 DEF Fresh
          <6> QED
            BY <6>2, FragConstants
        <5> QED
          BY <5>1
      <4>2. {b \in (0 .. f.seq - 1) \X (1 .. MaxPayload) : b[2] <= r.part_len[b[1]]} = {}
        BY <4>1
      <4> QED
        BY <4>2, FS_EmptySet DEF Offset
    <3>3. Len(f.data) <= BufSize
      <4>1. MaxPayload \in Nat /\ MaxTotal \in Nat /\ MaxTotal > 0 /\ 0 \in Nat
        BY FragConstants
      <4>2. Off(0) + MaxPayload <= Off(MaxTotal) /\ Off(0) = 0 /\ Off(MaxTotal) = BufSize
        BY <4>1, OffFacts
      <4>3. BufSize \in Nat
        BY <4>1, <4>2, OffFacts
      <4> QED
        BY <1>c, <4>1, <4>2, <4>3
    <3>4. 0 + Len(f.data) <= BufSize
      BY <1>c, <3>3, FragConstants
    <3>5. Fits(r, f)
      BY <3>1, <3>2, <3>4 DEF Fits
    <3> QED
      BY <1>e, <1>4, <3>5
  <2> QED
    BY <1>e, <2>1, <2>2
<1>6. SlotTypes'
  <2>1. age' \in 0 .. Timeout + 1
    BY <1>b, FragConstants
  <2>2. slot'.active \in BOOLEAN /\ slot'.part_len \in [0 .. MaxTotal - 1 -> 0 .. MaxPayload]
    BY <1>e DEF Slots
  <2>3. slot'.received = Cardinality({i \in DOMAIN slot'.part_len : slot'.part_len[i] > 0})
    <3>1. DOMAIN slot'.part_len = 0 .. MaxTotal - 1
      BY <2>2
    <3> QED
      BY <1>e, <3>1 DEF There
  <2>4. slot'.active => slot'.received \in 1 .. slot'.total - 1
    <3>1. slot'.active => slot'.received # slot'.total
      BY <1>f
    <3>2. slot'.received \in Nat /\ slot'.total \in Nat
      BY <1>e, FragConstants
    <3> QED
      BY <1>e, <1>5, <3>1, <3>2
  <2> QED
    BY <1>e, <2>1, <2>2, <2>3, <2>4 DEF SlotTypes
<1>7. SlotOK'
  <2>1. s \in slot'.from
    BY <1>e
  <2>2. ASSUME slot'.active, NEW v \in Senders, slot'.from = {v} PROVE OneSender(v)'
    <3>1. v = s
      BY <2>1, <2>2
    <3> QED
      BY <1>g, <2>2, <3>1
  <2> QED
    BY <1>e, <2>1, <2>2 DEF SlotOK
<1>8. RunOK'
  <2>1. SUFFICES ASSUME slot'.active, run'.n > 0 PROVE RunOK'
    BY DEF RunOK
  <2>2. run' # NoRun
    BY <2>1 DEF NoRun
  <2>3. c.i + 1 < Parts(c.len)
    BY <1>c, <1>h, <2>1, <2>2
  <2>4. run'.pkt = <<s, c.pkt>> /\ run'.n = c.i + 1 /\ run'.total = Parts(c.len)
    BY <1>h, <2>2
  <2>5. SameNumber(s, slot.uuid, c.pkt, c.len)'
    BY <1>d, <1>e DEF SameNumber
  <2>6. RunOf(s, c.pkt, c.len)'
    BY <1>c, <1>d, <1>h, <2>2, <2>3, <2>4, <2>5 DEF RunOf
  <2> QED
    BY <1>c, <1>d, <2>6 DEF RunOK
<1>9. WholeOfOneSender'
  <2>1. SUFFICES ASSUME Cardinality(got'.from) = 1
                 PROVE  Packet(got'.data, <<got'.data[1][1], got'.data[1][2]>>)
    BY DEF WholeOfOneSender
  <2>2. ~slot'.active
    <3>1. SUFFICES ASSUME slot'.active PROVE FALSE
      OBVIOUS
    <3>2. got'.from = {}
      BY <1>f, <3>1 DEF Nothing
    <3> QED
      BY <2>1, <3>2, FS_EmptySet
  <2>3. got'.from = slot'.from
    BY <1>f, <2>2
  <2>4. slot'.from = {s}
    <3>1. slot'.from \in SUBSET Senders
      BY <1>e DEF Slots
    <3>2. IsFiniteSet(slot'.from)
      BY <3>1, FragConstants, FS_Subset
    <3>3. PICK v : slot'.from = {v}
      BY <2>1, <2>3, <3>2, FS_Singleton
    <3> QED
      BY <1>e, <3>3
  <2>5. Packet(got'.data, <<s, c.pkt>>) /\ got'.data[1] = <<s, c.pkt, c.len, 1>>
    BY <1>g, <2>2, <2>4
  <2>6. got'.data[1][1] = s /\ got'.data[1][2] = c.pkt
    BY <2>5, UnitFields
  <2> QED
    BY <2>5, <2>6
<1>10. TypeOK'
  BY <1>1, <1>6 DEF TypeOK, SendTypes, SlotTypes
<1> QED
  BY <1>2, <1>3, <1>7, <1>8, <1>9, <1>10 DEF IInv

-----------------------------------------------------------------------------
(* The theorems. *)

LEMMA InitInv == Init => IInv
<1> SUFFICES ASSUME Init PROVE IInv
  OBVIOUS
<1> USE DEF Init
<1>1. SendTypes
  BY FragConstants DEF SendTypes
<1>2. /\ slot \in Slots /\ ~slot.active /\ slot.total = 0 /\ slot.received = 0
      /\ slot.part_len = [i \in 0 .. MaxTotal - 1 |-> 0]
  <2>1. [i \in 0 .. MaxTotal - 1 |-> 0] \in [0 .. MaxTotal - 1 -> 0 .. MaxPayload]
    BY FragConstants
  <2> QED
    BY <2>1 DEF Slots
<1>3. SlotTypes
  <2>1. {i \in DOMAIN slot.part_len : slot.part_len[i] > 0} = {}
    BY <1>2
  <2>2. Cardinality({i \in DOMAIN slot.part_len : slot.part_len[i] > 0}) = 0
    BY <2>1, FS_EmptySet
  <2>3. slot.part_len \in [0 .. MaxTotal - 1 -> 0 .. MaxPayload] /\ slot.active \in BOOLEAN
    BY <1>2 DEF Slots
  <2>4. age \in 0 .. Timeout + 1 /\ slot.total \in 0 .. MaxTotal
    BY <1>2, FragConstants
  <2> QED
    BY <1>2, <2>2, <2>3, <2>4 DEF SlotTypes
<1>4. MoreTypes
  <2>1. <<>> \in Seq(Unit) /\ <<>> \in Seq(Frame)
    BY EmptySeq
  <2>2. NoFrame \in Frame /\ NoJob \in Job
    BY <2>1 DEF NoFrame, NoJob, Frame, Job
  <2>3. air \in [Senders -> Seq(Frame)] /\ frag \in [Senders -> Frame]
    BY <2>1, <2>2
  <2>4. job \in [Senders -> [Tasks -> Job]]
    <3>1. [t \in Tasks |-> NoJob] \in [Tasks -> Job]
      BY <2>2
    <3> QED
      BY <3>1
  <2>5. buf \in [1 .. BufSize -> Unit \cup {None}]
    OBVIOUS
  <2> QED
    BY <1>2, <2>3, <2>4, <2>5 DEF MoreTypes
<1>5. ASSUME NEW s \in Senders PROVE Node(s)
  <2>1. Len(air[s]) = 0 /\ air[s] = <<>> /\ \A t \in Tasks : ~Busy(s, t)
    BY EmptySeq DEF Busy
  <2>2. \A n \in 1 .. Len(air[s]) : FALSE
    BY <2>1
  <2>3. frag_tx_uuid[s] <= sent[s]
    OBVIOUS
  <2>4. JobsOK(s) /\ FramesOK(s) /\ InOrder(s)
    BY <2>1, <2>2 DEF JobsOK, FramesOK, InOrder
  <2>5. Started(s)
    BY <2>1, <2>3 DEF Started
  <2> QED
    BY <2>4, <2>5 DEF Node
<1>6. SlotOK /\ RunOK
  BY <1>2 DEF SlotOK, RunOK
<1>7. WholeOfOneSender
  <2>1. got.from = {}
    BY DEF Nothing
  <2> QED
    BY <2>1, FS_EmptySet DEF WholeOfOneSender
<1>8. TypeOK
  BY <1>1, <1>3, TypeParts
<1> QED
  BY <1>4, <1>5, <1>6, <1>7, <1>8 DEF IInv

LEMMA Stutters ==
  ASSUME IInv, UNCHANGED vars
  PROVE  IInv'
<1>a. /\ TypeOK /\ MoreTypes /\ WholeOfOneSender /\ SendTypes /\ SlotTypes /\ SlotOK /\ RunOK
      /\ \A v \in Senders : Node(v)
  BY TypeParts DEF IInv
<1>b. UNCHANGED <<frag_tx_uuid, mu, frag, pc, job, air, sent, boots, up, slot, buf, age, got, run>>
  BY DEF vars, sendVars, rxVars
<1>1. SendTypes' /\ SlotTypes' /\ MoreTypes' /\ WholeOfOneSender'
  BY <1>a, <1>b DEF SendTypes, SlotTypes, MoreTypes, WholeOfOneSender
<1>2. \A v \in Senders : Node(v)' /\ Coming(v)' = Coming(v)
  BY <1>a, <1>b, Elsewhere
<1>3. \A v \in Senders : Moved(v)
  <2>1. ASSUME NEW v \in Senders PROVE \A c \in Coming(v) : c.i \in Nat /\ c.i >= c.i
    BY <1>a, ComingJobs DEF Job
  <2> QED
    BY <1>2, <2>1 DEF Moved
<1>4. \A v \in Senders : /\ sent'[v] \in Nat /\ sent'[v] >= sent[v]
                         /\ frag_tx_uuid'[v] \in Nat /\ frag_tx_uuid'[v] >= frag_tx_uuid[v]
  BY <1>a, <1>b, NodeTypes
<1>5. UNCHANGED <<slot, buf, run>> /\ \A v \in Senders : age >= up[v] => age' >= up'[v]
  BY <1>b
<1>6. SlotOK' /\ RunOK'
  BY <1>a, <1>3, <1>4, <1>5, SlotKept
<1>7. TypeOK'
  BY <1>1 DEF TypeOK, SendTypes, SlotTypes
<1> QED
  BY <1>1, <1>2, <1>6, <1>7 DEF IInv

LEMMA FragStep == IInv /\ [Next]_vars => IInv'
<1> SUFFICES ASSUME IInv, [Next]_vars PROVE IInv'
  OBVIOUS
<1>1. ASSUME NEW s \in Senders, NEW t \in Tasks, NEW l \in Lens, Draw(s, t, l) PROVE IInv'
  BY <1>1, DrawInv
<1>2. ASSUME NEW s \in Senders, NEW t \in Tasks, Lock(s, t) PROVE IInv'
  BY <1>2, LockInv
<1>3. ASSUME NEW s \in Senders, NEW t \in Tasks, Fill(s, t) PROVE IInv'
  BY <1>3, FillInv
<1>4. ASSUME NEW s \in Senders, NEW t \in Tasks, SendPart(s, t) PROVE IInv'
  BY <1>4, SendPartInv
<1>5. ASSUME NEW s \in Senders, NEW t \in Tasks, SendFails(s, t) PROVE IInv'
  BY <1>5, SendFailsInv
<1>6. ASSUME NEW s \in Senders, Restart(s) PROVE IInv'
  BY <1>6, RestartInv
<1>7. ASSUME NEW s \in Senders, ReceiveSingle(s) PROVE IInv'
  BY <1>7, ReceiveSingleInv
<1>8. ASSUME NEW s \in Senders, ReceivePart(s) PROVE IInv'
  BY <1>8, ReceivePartInv
<1>9. ASSUME NEW s \in Senders, Lose(s) PROVE IInv'
  BY <1>9, LoseInv
<1>10. ASSUME Tick PROVE IInv'
  BY <1>10, TickInv
<1>11. ASSUME UNCHANGED vars PROVE IInv'
  BY <1>11, Stutters
<1> QED
  BY <1>1, <1>2, <1>3, <1>4, <1>5, <1>6, <1>7, <1>8, <1>9, <1>10, <1>11 DEF Next

\* IInv is an inductive invariant of halow_tx_mcs10_frag on any number of nodes, with
\* restarts and lost frames, and of halow_lmac_rx_mcs10.
THEOREM FragInvariance == Spec => []IInv
<1> QED
  BY InitInv, FragStep, PTL DEF Spec

\* The types hold: the mutex is held by the task between fill and send, the count of
\* frag_reasm is the number of parts that are there, and an open slot is incomplete.
THEOREM FragTypeCorrect == Spec => []TypeOK
<1>1. IInv => TypeOK
  BY DEF IInv
<1> QED
  BY <1>1, FragInvariance, PTL

\* What halow_lmac_rx_mcs10 hands up from a slot that met one sender is a packet of
\* that sender, whole and in order.
THEOREM WholeOfOneSenderCorrect == Spec => []WholeOfOneSender
<1>1. IInv => WholeOfOneSender
  BY DEF IInv
<1> QED
  BY <1>1, FragInvariance, PTL

LEMMA LastInRow ==
  ASSUME IInv, [Next]_vars, run' # run, run' # NoRun, run'.n = run'.total
  PROVE  got' # Nothing /\ Packet(got'.data, run'.pkt)
<1>1. \E s \in Senders : ReceivePart(s)
  <2>1. ASSUME NEW s \in Senders, NEW t \in Tasks, NEW l \in Lens, Draw(s, t, l) PROVE run' = run
    BY <2>1 DEF Draw, rxVars
  <2>2. ASSUME NEW s \in Senders, NEW t \in Tasks,
               Lock(s, t) \/ Fill(s, t) \/ SendPart(s, t) \/ SendFails(s, t)
        PROVE  run' = run
    BY <2>2 DEF Lock, Fill, SendPart, SendFails, rxVars
  <2>3. ASSUME NEW s \in Senders, Restart(s) \/ ReceiveSingle(s) \/ Lose(s) PROVE run' = run
    BY <2>3 DEF Restart, ReceiveSingle, Lose, rxVars
  <2>4. ASSUME Tick \/ UNCHANGED vars PROVE run' = run
    BY <2>4 DEF Tick, vars, rxVars
  <2> QED
    BY <2>1, <2>2, <2>3, <2>4 DEF Next
<1>2. PICK s \in Senders : ReceivePart(s)
  BY <1>1
<1>p. PICK f : f = Head(air[s])
  OBVIOUS
<1>q. PICK c : c = JobOf(f)
  OBVIOUS
<1>r. PICK r : r = Opened(f)
  OBVIOUS
<1>3. /\ run' = [pkt |-> <<s, c.pkt>>, n |-> c.i + 1, total |-> Parts(c.len)]
      /\ c.i + 1 = Parts(c.len) => Packet(got'.data, <<s, c.pkt>>)
      /\ c.i + 1 = Parts(c.len) => got'.data # <<>>
  BY <1>2, <1>p, <1>q, <1>r, RunIn
<1>4. c.i + 1 = Parts(c.len) /\ run'.pkt = <<s, c.pkt>>
  BY <1>3
<1>5. got' # Nothing
  BY <1>3, <1>4 DEF Nothing
<1> QED
  BY <1>3, <1>4, <1>5

\* A packet whose parts come one after the other, since a moment when frag_reasm held
\* no part under its number, is handed up with its last part.
THEOREM UndisturbedCorrect == Spec => UndisturbedIsDelivered
<1>1. IInv /\ [Next]_vars
        => [(run' # run /\ run' # NoRun /\ run'.n = run'.total)
              => got' # Nothing /\ Packet(got'.data, run'.pkt)]_vars
  BY LastInRow
<1> QED
  BY <1>1, FragInvariance, PTL DEF Spec, UndisturbedIsDelivered
=============================================================================
