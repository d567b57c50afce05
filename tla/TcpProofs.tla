----------------------------- MODULE TcpProofs -----------------------------
(***************************************************************************)
(* Proofs about the two halves of the TCP server.                          *)
(*                                                                         *)
(* TcpOut, for any ring, frame and burst size and any number of frames and *)
(* connections: no buffer is freed twice or leaked, and a host sees only   *)
(* frames that arrived for it, in order.                                   *)
(*                                                                         *)
(* TcpStream, for any payloads, frame and netbuf size, every way the bytes *)
(* are cut and every throttling: what reaches the ACK layer are the        *)
(* payloads the host framed, whole, in order and once each, and once all   *)
(* bytes are consumed none is missing. Its invariant places the bytes not  *)
(* yet decoded in the host's stream and says where the decoder must be     *)
(* after those before. FlattenSeq is recursive: what the proofs know of it *)
(* they get from LeastOf, by looking at the least number where it would    *)
(* fail.                                                                   *)
(***************************************************************************)
EXTENDS TcpOut, TcpStream, FiniteSetTheorems, SequenceTheorems, TLAPS

-----------------------------------------------------------------------------
(* The way out: the inductive invariant. *)

\* The ring holds frames in the order they arrived, none of them the frame in
\* hand, which is older.
RingOrdered ==
  /\ \A i, j \in 1 .. Len(ring) : i < j => ring[i] < ring[j]
  /\ \A i \in 1 .. Len(ring) : hand < ring[i] /\ ring[i] <= arrived
  /\ hand <= arrived

\* What a connection was given is older than what waits for it, and all of it
\* came after the connection; the frame in hand is the last one given, once any
\* byte of it was.
SentBefore ==
  /\ born <= arrived
  /\ tpc # "accept" => \A i \in 1 .. Len(ring) : ring[i] > born
  /\ hand # 0 => hand > born
  /\ \A i \in 1 .. Len(sent) : sent[i][1] > born /\ sent[i][1] <= arrived
  /\ \A i, j \in 1 .. Len(sent) : i < j => sent[i][1] < sent[j][1]
  /\ tpc # "accept" =>
       \A i \in 1 .. Len(sent), j \in 1 .. Len(ring) : sent[i][1] < ring[j]
  /\ hand # 0 /\ offset = 0 => \A i \in 1 .. Len(sent) : sent[i][1] < hand
  /\ hand # 0 /\ offset # 0 => sent # <<>> /\ sent[Len(sent)][1] = hand

\* A buffer is freed, once, when it has come and nobody holds it any more.
Accounted ==
  \A f \in Frames : freed[f] = IF f <= arrived /\ hand # f /\ ~InRing(f) THEN 1 ELSE 0

\* A package is taken only while the burst lasts.
BurstLasts == tpc = "write" => burst < Burst

IInv == TypeOK /\ RingOrdered /\ SentBefore /\ Accounted /\ BurstLasts

-----------------------------------------------------------------------------
(* The ring. *)

\* The constants are numbers, and so is what the ring holds.
LEMMA Constants ==
  /\ MaxFrames \in Nat /\ MaxClients \in Nat /\ FrameLen \in Nat /\ Burst \in Nat
  /\ StallLimit \in Nat /\ PkgBytes \in Nat /\ RingBytes \in Nat
  /\ 0 < MaxClients /\ 0 < FrameLen /\ 0 < Burst /\ 0 < PkgBytes /\ 0 < StallLimit
  /\ PkgBytes < RingBytes
BY TcpOutAssumption

LEMMA RingTyped ==
  ASSUME TypeOK
  PROVE  /\ Len(ring) \in Nat /\ DOMAIN ring = 1 .. Len(ring)
         /\ \A i \in 1 .. Len(ring) : ring[i] \in Frames /\ ring[i] \in Nat
<1>1. ring \in Seq(Frames)
  BY DEF TypeOK
<1> QED
  BY <1>1, Constants DEF Frames

\* In an ordered ring a frame stands once or not at all.
LEMMA CopiesInRing ==
  ASSUME TypeOK, RingOrdered, NEW f
  PROVE  Cardinality({i \in DOMAIN ring : ring[i] = f}) = IF InRing(f) THEN 1 ELSE 0
<1> DEFINE C == {i \in DOMAIN ring : ring[i] = f}
<1>0. /\ Len(ring) \in Nat /\ DOMAIN ring = 1 .. Len(ring)
      /\ \A i \in 1 .. Len(ring) : ring[i] \in Nat
  BY RingTyped
<1>1. CASE InRing(f)
  <2>1. PICK k \in 1 .. Len(ring) : ring[k] = f
    BY <1>0, <1>1 DEF InRing
  <2>2. ASSUME NEW i \in C PROVE i = k
    <3>1. i \in 1 .. Len(ring) /\ ring[i] = f /\ ring[i] \in Nat
      BY <1>0
    <3> QED
      BY <1>0, <2>1, <3>1 DEF RingOrdered
  <2>3. C = {k}
    BY <1>0, <2>1, <2>2
  <2> QED
    BY <1>1, <2>3, FS_Singleton
<1>2. CASE ~InRing(f)
  <2>1. C = {}
    BY <1>2 DEF InRing
  <2> QED
    BY <1>2, <2>1, FS_EmptySet
<1> QED
  BY <1>1, <1>2

\* tx_queue_clear frees what the ring holds, and nothing else.
LEMMA ClearAccounts ==
  ASSUME IInv, tx_queue_clear, UNCHANGED <<arrived, hand>>
  PROVE  ring' = <<>> /\ freed' \in [Frames -> Nat] /\ Accounted'
<1>1. ASSUME NEW f \in Frames
      PROVE  freed'[f] = freed[f] + IF InRing(f) THEN 1 ELSE 0
  BY CopiesInRing DEF IInv, tx_queue_clear
<1>2. freed' \in [Frames -> Nat]
  <2>1. \A f \in Frames : freed'[f] \in Nat
    BY <1>1 DEF IInv, TypeOK
  <2> QED
    BY <2>1 DEF tx_queue_clear
<1>3. ASSUME NEW f \in Frames
      PROVE  ~InRing(f)' /\ (InRing(f) => f <= arrived /\ hand # f)
  <2>1. ~InRing(f)'
    BY DEF tx_queue_clear, InRing
  <2>2. InRing(f) => f <= arrived /\ hand # f
    <3>1. hand \in Nat /\ arrived \in Nat
      BY Constants DEF IInv, TypeOK
    <3> QED
      BY <3>1, RingTyped DEF IInv, RingOrdered, InRing
  <2> QED
    BY <2>1, <2>2
<1> QED
  BY <1>1, <1>2, <1>3 DEF IInv, Accounted, tx_queue_clear

\* What a connection was given, as numbers.
LEMMA SentTyped ==
  ASSUME TypeOK
  PROVE  /\ Len(sent) \in Nat /\ DOMAIN sent = 1 .. Len(sent)
         /\ \A i \in 1 .. Len(sent) : sent[i][1] \in Nat
         /\ arrived \in Nat /\ hand \in Nat /\ born \in Nat /\ offset \in Nat
         /\ (tpc = "write") <=> (hand # 0)
<1>1. sent \in Seq(Frames \X (1 .. FrameLen))
  BY DEF TypeOK
<1>2. \A i \in 1 .. Len(sent) : sent[i] \in Frames \X (1 .. FrameLen)
  BY <1>1
<1>3. \A i \in 1 .. Len(sent) : sent[i][1] \in Nat
  BY <1>2, Constants DEF Frames
<1>4. arrived \in Nat /\ hand \in Nat /\ born \in Nat /\ offset \in Nat
  BY Constants DEF TypeOK
<1>5. (tpc = "write") <=> (hand # 0)
  BY DEF TypeOK
<1> QED
  BY <1>1, <1>3, <1>4, <1>5

\* A frame that is freed on arrival, or that enters the ring.
LEMMA DeliverInv ==
  ASSUME IInv, Deliver
  PROVE  IInv'
<1> DEFINE f == arrived + 1
<1>a. TypeOK /\ RingOrdered /\ SentBefore /\ Accounted /\ BurstLasts
  BY DEF IInv
<1>b. /\ Len(ring) \in Nat /\ DOMAIN ring = 1 .. Len(ring)
      /\ \A i \in 1 .. Len(ring) : ring[i] \in Nat
      /\ Len(sent) \in Nat /\ \A i \in 1 .. Len(sent) : sent[i][1] \in Nat
      /\ arrived \in Nat /\ hand \in Nat /\ born \in Nat
  BY <1>a, RingTyped, SentTyped
<1>0. f \in Frames /\ arrived' = f /\ UNCHANGED taskVars /\ f > hand /\ f > born /\ f \in Nat
  BY <1>a, <1>b, Constants DEF Deliver, RingOrdered, SentBefore, Frames
<1>1. CASE Free(f) /\ UNCHANGED ring
  <2>1. TypeOK'
    BY <1>a, <1>0, <1>1, Constants DEF TypeOK, taskVars, Free, Frames
  <2>2. RingOrdered' /\ BurstLasts'
    BY <1>a, <1>b, <1>0, <1>1 DEF taskVars, RingOrdered, BurstLasts
  <2>3. SentBefore'
    BY <1>a, <1>b, <1>0, <1>1 DEF taskVars, SentBefore
  <2>4. Accounted'
    <3>1. freed \in [Frames -> Nat] /\ Frames \subseteq Nat
      BY <1>a DEF TypeOK, Frames
    <3>2. ~InRing(f) /\ hand # f
      BY <1>a, <1>b, <1>0 DEF InRing, RingOrdered
    <3>3. \A g \in Frames : freed'[g] = IF g = f THEN freed[g] + 1 ELSE freed[g]
      BY <1>1, <3>1 DEF Free
    <3>4. \A g \in Frames : InRing(g)' <=> InRing(g)
      BY <1>1 DEF InRing
    <3>5. ASSUME NEW g \in Frames
          PROVE  freed'[g] = IF g <= arrived' /\ hand' # g /\ ~InRing(g)' THEN 1 ELSE 0
      BY <1>a, <1>b, <1>0, <3>1, <3>2, <3>3, <3>4 DEF taskVars, Accounted
    <3> QED
      BY <3>5 DEF Accounted
  <2> QED
    BY <2>1, <2>2, <2>3, <2>4 DEF IInv
<1>2. CASE ~(get_free < PkgBytes) /\ ring' = Append(ring, f) /\ UNCHANGED freed
  <2>0. /\ ring' \in Seq(Frames) /\ Len(ring') = Len(ring) + 1 /\ DOMAIN ring' = 1 .. Len(ring')
        /\ \A i \in 1 .. Len(ring) : ring'[i] = ring[i]
        /\ ring'[Len(ring) + 1] = f
    BY <1>a, <1>0, <1>2 DEF TypeOK
  <2>1. TypeOK'
    <3>1. (Len(ring) + 1) * PkgBytes = Len(ring) * PkgBytes + PkgBytes
      BY <1>b, Constants
    <3>2. Len(ring') * PkgBytes < RingBytes
      BY <1>b, <1>2, <2>0, <3>1, Constants DEF get_free
    <3> QED
      BY <1>a, <1>0, <1>2, <2>0, <3>2, Constants DEF TypeOK, taskVars, Frames
  <2>2. ASSUME NEW i \in 1 .. Len(ring') PROVE i \in 1 .. Len(ring) \/ (i = Len(ring) + 1 /\ ring'[i] = f)
    BY <1>b, <2>0
  <2>3. RingOrdered' /\ BurstLasts'
    <3>1. \A i, j \in 1 .. Len(ring') : i < j => ring'[i] < ring'[j]
      BY <1>a, <1>b, <1>0, <2>0, <2>2 DEF RingOrdered
    <3>2. \A i \in 1 .. Len(ring') : hand < ring'[i] /\ ring'[i] <= f
      BY <1>a, <1>b, <1>0, <2>0, <2>2 DEF RingOrdered
    <3>3. hand' = hand /\ arrived' = f /\ hand <= f /\ BurstLasts'
      BY <1>a, <1>b, <1>0 DEF taskVars, RingOrdered, BurstLasts
    <3> QED
      BY <3>1, <3>2, <3>3, Zenon DEF RingOrdered
  <2>4. SentBefore'
    <3>1. tpc # "accept" => \A i \in 1 .. Len(ring') : ring'[i] > born
      BY <1>a, <1>b, <1>0, <2>0, <2>2 DEF SentBefore
    <3>2. tpc # "accept" =>
            \A i \in 1 .. Len(sent), j \in 1 .. Len(ring') : sent[i][1] < ring'[j]
      <4>1. /\ \A i \in 1 .. Len(sent) : sent[i][1] <= arrived
            /\ tpc # "accept" => \A i \in 1 .. Len(sent), j \in 1 .. Len(ring) : sent[i][1] < ring[j]
        BY <1>a DEF SentBefore
      <4>2. \A i \in 1 .. Len(sent) : sent[i][1] < f
        BY <1>b, <4>1
      <4> HIDE DEF f
      <4> QED
        BY <2>0, <2>2, <4>1, <4>2
    <3> QED
      BY <1>a, <1>b, <1>0, <3>1, <3>2 DEF taskVars, SentBefore
  <2>5. Accounted'
    <3>1. ASSUME NEW g \in Frames
          PROVE  InRing(g)' <=> InRing(g) \/ g = f
      <4>1. ASSUME InRing(g)' PROVE InRing(g) \/ g = f
        <5>1. PICK i \in 1 .. Len(ring') : ring'[i] = g
          BY <2>0, <4>1 DEF InRing
        <5> QED
          BY <1>b, <2>0, <2>2, <5>1 DEF InRing
      <4>2. ASSUME InRing(g) PROVE InRing(g)'
        <5>1. PICK i \in 1 .. Len(ring) : ring[i] = g
          BY <1>b, <4>2 DEF InRing
        <5>2. i \in 1 .. Len(ring') /\ ring'[i] = g
          BY <1>b, <2>0, <5>1
        <5> QED
          BY <2>0, <5>2 DEF InRing
      <4>3. ASSUME g = f PROVE InRing(g)'
        <5>1. Len(ring) + 1 \in 1 .. Len(ring')
          BY <1>b, <2>0
        <5> QED
          BY <2>0, <4>3, <5>1 DEF InRing
      <4> QED
        BY <4>1, <4>2, <4>3
    <3>2. ~InRing(f)
      BY <1>a, <1>b, <1>0 DEF InRing, RingOrdered
    <3> QED
      BY <1>a, <1>b, <1>0, <1>2, <3>1, <3>2 DEF taskVars, Accounted, Frames
  <2> QED
    BY <2>1, <2>3, <2>4, <2>5 DEF IInv
<1> QED
  BY <1>1, <1>2 DEF Deliver, send_owned, push_owned_locked

-----------------------------------------------------------------------------
(* The task. *)

\* A connection begins with an empty ring, and nothing was given to it.
LEMMA AcceptInv ==
  ASSUME IInv, Accept
  PROVE  IInv'
<1>1. ring' = <<>> /\ freed' \in [Frames -> Nat] /\ Accounted'
  BY ClearAccounts DEF Accept
<1>2. /\ Len(ring') = 0 /\ Len(sent') = 0 /\ ring' \in Seq(Frames)
      /\ sent' \in Seq(Frames \X (1 .. FrameLen))
  BY <1>1 DEF Accept
<1>3. TypeOK
  BY DEF IInv
<1>4. hand = 0 /\ hand' = 0
  BY <1>3 DEF TypeOK, Accept
<1>5. TypeOK'
  BY <1>1, <1>2, <1>3, <1>4, Constants DEF TypeOK, Accept
<1>6. RingOrdered' /\ SentBefore' /\ BurstLasts'
  <2>1. arrived \in Nat /\ arrived' = arrived /\ born' = arrived /\ tpc' = "burst"
    BY <1>3, SentTyped DEF Accept
  <2> QED
    BY <1>2, <1>4, <2>1 DEF RingOrdered, SentBefore, BurstLasts
<1> QED
  BY <1>1, <1>5, <1>6 DEF IInv

\* When it ends, what waited for it is freed.
LEMMA CloseInv ==
  ASSUME IInv, Close
  PROVE  IInv'
<1>1. ring' = <<>> /\ freed' \in [Frames -> Nat] /\ Accounted'
  BY ClearAccounts DEF Close
<1>2. Len(ring') = 0 /\ ring' \in Seq(Frames)
  BY <1>1
<1>3. TypeOK /\ RingOrdered /\ SentBefore
  BY DEF IInv
<1>4. TypeOK'
  <2>1. hand = 0 /\ hand' = 0 /\ tpc' = "accept"
    BY <1>3 DEF TypeOK, Close
  <2>2. alive' \in BOOLEAN
    BY Zenon DEF Close
  <2> QED
    BY <1>1, <1>2, <1>3, <2>1, <2>2, Constants DEF TypeOK, Close
<1>5. RingOrdered' /\ SentBefore' /\ BurstLasts'
  BY <1>2, <1>3 DEF RingOrdered, SentBefore, BurstLasts, Close
<1> QED
  BY <1>1, <1>4, <1>5 DEF IInv

\* The steps that only move the task on, or end the host's side.
LEMMA MoveInv ==
  ASSUME IInv, BurstEnd \/ InputEnd \/ InputClosed \/ HostGone
  PROVE  IInv'
<1>1. /\ UNCHANGED <<ring, arrived, freed, clients, hand, offset, wb_cnt, sent, born>>
      /\ tpc # "accept" => tpc' # "accept"
      /\ tpc = "accept" => tpc' = "accept"
  BY DEF BurstEnd, InputEnd, InputClosed, HostGone
<1>2. TypeOK /\ RingOrdered /\ SentBefore /\ Accounted /\ BurstLasts
  BY DEF IInv
<1>3. /\ alive' \in BOOLEAN /\ burst' \in 0 .. Burst /\ (tpc' = "write") = (tpc = "write")
      /\ tpc' \in {"accept", "burst", "write", "input", "close"}
      /\ tpc' = "write" => burst' = burst
  <2>1. alive' \in BOOLEAN
    <3>1. alive \in BOOLEAN /\ (alive' = alive \/ alive' = FALSE)
      BY <1>2, Zenon DEF TypeOK, BurstEnd, InputEnd, InputClosed, HostGone
    <3> QED
      BY <3>1, Zenon
  <2>2. burst' \in 0 .. Burst
    BY <1>2, Constants DEF TypeOK, BurstEnd, InputEnd, InputClosed, HostGone
  <2>3. /\ (tpc' = "write") = (tpc = "write")
        /\ tpc' \in {"accept", "burst", "write", "input", "close"}
        /\ tpc' = "write" => burst' = burst
    BY <1>2 DEF TypeOK, BurstEnd, InputEnd, InputClosed, HostGone
  <2> QED
    BY <2>1, <2>2, <2>3
<1>4. TypeOK'
  BY <1>1, <1>2, <1>3 DEF TypeOK
<1>5. RingOrdered' /\ Accounted' /\ BurstLasts'
  BY <1>1, <1>2, <1>3 DEF RingOrdered, Accounted, InRing, BurstLasts
<1>6. SentBefore'
  BY <1>1, <1>2 DEF SentBefore
<1> QED
  BY <1>4, <1>5, <1>6 DEF IInv

\* The oldest package leaves the ring for the task's hand.
LEMMA PopInv ==
  ASSUME IInv, Pop
  PROVE  IInv'
<1>a. TypeOK /\ RingOrdered /\ SentBefore /\ Accounted /\ BurstLasts
  BY DEF IInv
<1>b. /\ Len(ring) \in Nat /\ DOMAIN ring = 1 .. Len(ring) /\ ring \in Seq(Frames)
      /\ \A i \in 1 .. Len(ring) : ring[i] \in Nat /\ ring[i] \in Frames
      /\ Len(sent) \in Nat /\ \A i \in 1 .. Len(sent) : sent[i][1] \in Nat
      /\ arrived \in Nat /\ hand \in Nat /\ born \in Nat /\ hand = 0 /\ Len(ring) > 0
  <2>1. ring \in Seq(Frames) /\ ring # <<>> /\ hand = 0
    BY <1>a DEF TypeOK, Pop
  <2>2. Len(ring) > 0
    BY <2>1
  <2> QED
    BY <1>a, <2>1, <2>2, RingTyped, SentTyped
<1>1. /\ hand' = ring[1] /\ ring' \in Seq(Frames) /\ Len(ring') = Len(ring) - 1
      /\ DOMAIN ring' = 1 .. Len(ring')
      /\ \A i \in 1 .. Len(ring') : ring'[i] = ring[i + 1]
  BY <1>b DEF Pop
<1>2. /\ offset' = 0 /\ wb_cnt' = 0 /\ tpc' = "write" /\ tpc = "burst" /\ burst < Burst
      /\ UNCHANGED <<arrived, freed, clients, alive, burst, sent, born>>
  BY DEF Pop
<1>3. 1 \in 1 .. Len(ring) /\ \A i \in 1 .. Len(ring') : i + 1 \in 1 .. Len(ring)
  BY <1>b, <1>1
<1>4. TypeOK'
  <2>1. (Len(ring) - 1) * PkgBytes = Len(ring) * PkgBytes - PkgBytes
    BY <1>b, Constants
  <2>2. Len(ring') * PkgBytes < RingBytes
    <3>1. Len(ring) * PkgBytes \in Nat /\ Len(ring) * PkgBytes < RingBytes
      BY <1>a, <1>b, Constants DEF TypeOK
    <3> QED
      BY <1>1, <2>1, <3>1, Constants
  <2>3. hand' \in 0 .. MaxFrames /\ hand' # 0
    BY <1>b, <1>1, <1>3, Constants DEF Frames
  <2> QED
    BY <1>a, <1>1, <1>2, <2>2, <2>3, Constants DEF TypeOK
<1>5. RingOrdered' /\ BurstLasts'
  <2>1. ASSUME NEW i \in 1 .. Len(ring'), NEW j \in 1 .. Len(ring'), i < j
        PROVE  ring'[i] < ring'[j]
    <3>1. i + 1 < j + 1 /\ i + 1 \in 1 .. Len(ring) /\ j + 1 \in 1 .. Len(ring)
      BY <1>b, <1>1, <1>3, <2>1
    <3> QED
      BY <1>a, <1>1, <3>1 DEF RingOrdered
  <2>2. \A i \in 1 .. Len(ring') : hand' < ring'[i] /\ ring'[i] <= arrived
    <3>1. \A i \in 1 .. Len(ring') : 1 < i + 1
      BY <1>b, <1>1
    <3> QED
      BY <1>a, <1>b, <1>1, <1>3, <3>1 DEF RingOrdered
  <2>3. hand' <= arrived
    BY <1>a, <1>b, <1>1, <1>3 DEF RingOrdered
  <2> QED
    BY <1>2, <2>1, <2>2, <2>3 DEF RingOrdered, BurstLasts
<1>6. SentBefore'
  <2>1. hand' > born /\ \A i \in 1 .. Len(sent) : sent[i][1] < hand'
    BY <1>a, <1>b, <1>1, <1>2, <1>3 DEF SentBefore
  <2>2. \A j \in 1 .. Len(ring') : ring'[j] > born /\ \A i \in 1 .. Len(sent) : sent[i][1] < ring'[j]
    BY <1>a, <1>b, <1>1, <1>2, <1>3 DEF SentBefore
  <2> QED
    BY <1>a, <1>2, <2>1, <2>2 DEF SentBefore
<1>7. Accounted'
  <2>1. ASSUME NEW g \in Frames
        PROVE  (InRing(g)' \/ hand' = g) <=> InRing(g)
    <3>1. ASSUME InRing(g) PROVE InRing(g)' \/ hand' = g
      <4>1. PICK i \in 1 .. Len(ring) : ring[i] = g
        BY <1>b, <3>1 DEF InRing
      <4>2. CASE i = 1
        BY <1>1, <4>1, <4>2
      <4>3. CASE i # 1
        <5>1. i - 1 \in 1 .. Len(ring') /\ (i - 1) + 1 = i
          BY <1>b, <1>1, <4>1, <4>3
        <5>2. ring'[i - 1] = g
          BY <1>1, <4>1, <5>1
        <5> QED
          BY <1>1, <5>1, <5>2 DEF InRing
      <4> QED
        BY <4>2, <4>3
    <3>2. ASSUME InRing(g)' PROVE InRing(g)
      <4>1. PICK i \in 1 .. Len(ring') : ring'[i] = g
        BY <1>1, <3>2 DEF InRing
      <4> QED
        BY <1>b, <1>1, <1>3, <4>1 DEF InRing
    <3>3. ASSUME hand' = g PROVE InRing(g)
      BY <1>b, <1>1, <1>3, <3>3 DEF InRing
    <3> QED
      BY <3>1, <3>2, <3>3
  <2>2. ASSUME NEW g \in Frames
        PROVE  freed'[g] = IF g <= arrived' /\ hand' # g /\ ~InRing(g)' THEN 1 ELSE 0
    <3>1. hand # g
      BY <1>b, Constants DEF Frames
    <3> QED
      BY <1>a, <1>2, <2>1, <3>1 DEF Accounted
  <2> QED
    BY <2>2 DEF Accounted
<1> QED
  BY <1>4, <1>5, <1>6, <1>7 DEF IInv

\* What Given(n) leaves: as many frames as before, or the frame in hand as one
\* more, at the end, with the bytes it has now.
LEMMA GivenSent ==
  ASSUME IInv, hand # 0, NEW n \in 0 .. FrameLen - offset, Given(n)
  PROVE  /\ sent' \in Seq(Frames \X (1 .. FrameLen)) /\ Len(sent') \in Nat
         /\ \A i \in 1 .. Len(sent') : sent'[i][1] > born /\ sent'[i][1] <= hand
         /\ \A i, j \in 1 .. Len(sent') : i < j => sent'[i][1] < sent'[j][1]
         /\ offset + n = 0 => \A i \in 1 .. Len(sent') : sent'[i][1] < hand
         /\ offset + n # 0 => sent' # <<>> /\ sent'[Len(sent')][1] = hand
<1>a. TypeOK /\ RingOrdered /\ SentBefore
  BY DEF IInv
<1>b. /\ Len(sent) \in Nat /\ \A i \in 1 .. Len(sent) : sent[i][1] \in Nat
      /\ hand \in Nat /\ born \in Nat /\ offset \in Nat /\ n \in Nat
  BY <1>a, SentTyped, Constants DEF TypeOK
<1>h. /\ sent \in Seq(Frames \X (1 .. FrameLen)) /\ hand \in Frames
      /\ offset \in 0 .. FrameLen - 1
  BY <1>a, Constants DEF TypeOK, Frames
<1>c. hand > born
  BY <1>a DEF SentBefore
<1>d. ASSUME offset # 0
      PROVE  /\ Len(sent) > 0 /\ sent[Len(sent)][1] = hand
             /\ \A i \in 1 .. Len(sent) : i # Len(sent) => sent[i][1] < hand
  <2>1. sent # <<>> /\ sent[Len(sent)][1] = hand
    BY <1>a, <1>d DEF SentBefore
  <2>2. Len(sent) > 0
    BY <1>b, <1>h, <2>1
  <2>3. Len(sent) \in 1 .. Len(sent) /\ \A i \in 1 .. Len(sent) : i # Len(sent) => i < Len(sent)
    BY <1>b, <2>2
  <2> QED
    BY <1>a, <2>1, <2>2, <2>3 DEF SentBefore
<1>e. \A i \in 1 .. Len(sent) : sent[i][1] > born
  BY <1>a DEF SentBefore
<1>f. \A i, j \in 1 .. Len(sent) : i < j => sent[i][1] < sent[j][1]
  BY <1>a DEF SentBefore
<1>g. offset = 0 => \A i \in 1 .. Len(sent) : sent[i][1] < hand
  BY <1>a DEF SentBefore
<1>1. CASE n = 0
  <2>1. sent' = sent
    BY <1>1 DEF Given
  <2>2. \A i \in 1 .. Len(sent) : sent[i][1] <= hand
    BY <1>b, <1>d, <1>g
  <2>3. offset # 0 => sent # <<>>
    BY <1>a DEF SentBefore
  <2> QED
    BY <1>1, <1>b, <1>h, <1>d, <1>e, <1>f, <1>g, <2>1, <2>2, <2>3
<1>2. CASE n # 0 /\ offset = 0
  <2>0. sent' = Append(sent, <<hand, n>>) /\ <<hand, n>> \in Frames \X (1 .. FrameLen)
    BY <1>2, <1>b, <1>h, Constants DEF Given
  <2>1. /\ sent' \in Seq(Frames \X (1 .. FrameLen)) /\ Len(sent') = Len(sent) + 1
        /\ \A i \in 1 .. Len(sent) : sent'[i] = sent[i]
        /\ sent'[Len(sent) + 1] = <<hand, n>>
    BY <2>0, <1>b, <1>h
  <2>2. sent'[Len(sent) + 1][1] = hand
    BY <2>1
  <2>3. \A i \in 1 .. Len(sent') : i \in 1 .. Len(sent) \/ i = Len(sent) + 1
    BY <1>b, <2>1
  <2>4. ASSUME NEW i \in 1 .. Len(sent') PROVE sent'[i][1] > born /\ sent'[i][1] <= hand
    <3>1. CASE i \in 1 .. Len(sent)
      <4>1. sent'[i][1] = sent[i][1]
        BY <2>1, <3>1
      <4> QED
        BY <1>2, <1>b, <1>e, <1>g, <3>1, <4>1
    <3>2. CASE i = Len(sent) + 1
      BY <1>b, <1>c, <2>2, <3>2
    <3> QED
      BY <2>3, <3>1, <3>2
  <2>5. ASSUME NEW i \in 1 .. Len(sent'), NEW j \in 1 .. Len(sent'), i < j
        PROVE  sent'[i][1] < sent'[j][1]
    <3>1. i \in 1 .. Len(sent)
      BY <1>b, <2>1, <2>5
    <3> QED
      BY <1>2, <1>b, <1>f, <1>g, <2>1, <2>2, <2>3, <2>5, <3>1
  <2>6. sent' # <<>> /\ sent'[Len(sent')][1] = hand
    BY <1>b, <2>1, <2>2
  <2> QED
    BY <1>2, <1>b, <2>1, <2>4, <2>5, <2>6
<1>3. CASE n # 0 /\ offset # 0
  <2>0. /\ sent' = [sent EXCEPT ![Len(sent)] = <<hand, offset + n>>]
        /\ <<hand, offset + n>> \in Frames \X (1 .. FrameLen)
        /\ Len(sent) \in 1 .. Len(sent)
    <3>1. Len(sent) \in 1 .. Len(sent)
      BY <1>3, <1>b, <1>d
    <3>2. offset + n \in 1 .. FrameLen
      BY <1>3, <1>b, <1>h, Constants
    <3> QED
      BY <1>3, <1>h, <3>1, <3>2 DEF Given
  <2>1. /\ sent' \in Seq(Frames \X (1 .. FrameLen)) /\ Len(sent') = Len(sent)
        /\ \A i \in 1 .. Len(sent) : i # Len(sent) => sent'[i] = sent[i]
        /\ sent'[Len(sent)] = <<hand, offset + n>>
    BY <2>0, <1>b, <1>h
  <2>2. sent'[Len(sent)][1] = hand
    BY <2>1
  <2>3. \A i \in 1 .. Len(sent) : sent'[i][1] = sent[i][1]
    BY <1>3, <1>d, <2>1, <2>2
  <2>4. \A i \in 1 .. Len(sent) : sent[i][1] <= hand
    BY <1>3, <1>b, <1>d
  <2>5. sent' # <<>>
    <3>1. Len(sent') # 0
      BY <1>3, <1>b, <1>d, <2>1
    <3> QED
      BY <3>1
  <2> QED
    BY <1>3, <1>b, <1>e, <1>f, <2>1, <2>2, <2>3, <2>4, <2>5
<1> QED
  BY <1>1, <1>2, <1>3

\* The frame in hand is given up or done with, and its buffer freed.
LEMMA DropInv ==
  ASSUME IInv, tpc = "write", NEW whole \in BOOLEAN, Drop(whole),
         UNCHANGED <<ring, arrived, clients, alive, born>>,
         sent' \in Seq(Frames \X (1 .. FrameLen)), Len(sent') \in Nat,
         \A i \in 1 .. Len(sent') : sent'[i][1] > born /\ sent'[i][1] <= hand,
         \A i, j \in 1 .. Len(sent') : i < j => sent'[i][1] < sent'[j][1]
  PROVE  IInv'
<1>a. TypeOK /\ RingOrdered /\ SentBefore /\ Accounted /\ BurstLasts
  BY DEF IInv
<1>b. /\ Len(ring) \in Nat /\ DOMAIN ring = 1 .. Len(ring)
      /\ \A i \in 1 .. Len(ring) : ring[i] \in Nat
      /\ arrived \in Nat /\ hand \in Nat /\ born \in Nat /\ hand # 0
  BY <1>a, RingTyped, SentTyped
<1>c. \A i \in 1 .. Len(sent') : sent'[i][1] \in Nat
  <2>1. \A i \in 1 .. Len(sent') : sent'[i] \in Frames \X (1 .. FrameLen)
    OBVIOUS
  <2> QED
    BY <2>1, Constants DEF Frames
<1>1. /\ freed' = [freed EXCEPT ![hand] = @ + 1]
      /\ hand' = 0 /\ offset' = 0 /\ wb_cnt' = 0
      /\ tpc' \in {"burst", "input"} /\ burst' \in {burst, burst + 1}
  BY DEF Drop, Free
<1>2. hand \in Frames
  BY <1>a, <1>b, Constants DEF TypeOK, Frames
<1>3. TypeOK'
  <2>1. freed' \in [Frames -> Nat]
    BY <1>a, <1>1, <1>2 DEF TypeOK
  <2>2. burst' \in 0 .. Burst
    BY <1>a, <1>1, Constants DEF TypeOK, BurstLasts
  <2>3. hand' \in 0 .. MaxFrames /\ offset' \in 0 .. FrameLen - 1 /\ wb_cnt' \in 0 .. StallLimit
        /\ tpc' \in {"accept", "burst", "write", "input", "close"}
        /\ (tpc' = "write") = (hand' # 0)
    BY <1>1, Constants
  <2> QED
    BY <1>a, <2>1, <2>2, <2>3 DEF TypeOK
<1>4. RingOrdered' /\ BurstLasts'
  BY <1>a, <1>b, <1>1 DEF RingOrdered, BurstLasts
<1>5. SentBefore'
  <2>1. \A i \in 1 .. Len(sent') : sent'[i][1] <= arrived
    BY <1>a, <1>b, <1>c DEF RingOrdered
  <2>2. \A i \in 1 .. Len(sent'), j \in 1 .. Len(ring) : sent'[i][1] < ring[j]
    BY <1>a, <1>b, <1>c DEF RingOrdered
  <2>3. \A j \in 1 .. Len(ring) : ring[j] > born
    BY <1>a DEF SentBefore
  <2> QED
    BY <1>a, <1>1, <2>1, <2>2, <2>3 DEF SentBefore
<1>6. Accounted'
  <2>1. ~InRing(hand) /\ hand <= arrived
    BY <1>a, <1>b DEF RingOrdered, InRing
  <2>2. \A g \in Frames : InRing(g)' <=> InRing(g)
    BY DEF InRing
  <2>3. freed \in [Frames -> Nat] /\ \A g \in Frames : g # 0
    BY <1>a DEF TypeOK, Frames
  <2>4. \A g \in Frames : freed'[g] = IF g = hand THEN freed[g] + 1 ELSE freed[g]
    BY <1>1, <2>3
  <2>5. ASSUME NEW g \in Frames
        PROVE  freed'[g] = IF g <= arrived' /\ hand' # g /\ ~InRing(g)' THEN 1 ELSE 0
    BY <1>a, <1>b, <1>1, <1>2, <2>1, <2>2, <2>3, <2>4 DEF Accounted
  <2> QED
    BY <2>5 DEF Accounted
<1> QED
  BY <1>3, <1>4, <1>5, <1>6 DEF IInv

\* Some of the frame in hand was written and the task tries again.
LEMMA WriteOnInv ==
  ASSUME IInv, tpc = "write", NEW n \in 0 .. FrameLen - offset - 1, Given(n),
         offset' = offset + n, wb_cnt' \in 0 .. StallLimit,
         UNCHANGED <<ring, arrived, freed, clients, alive, tpc, burst, hand, born>>
  PROVE  IInv'
<1>a. TypeOK /\ RingOrdered /\ SentBefore /\ Accounted /\ BurstLasts
  BY DEF IInv
<1>b. /\ Len(ring) \in Nat /\ \A i \in 1 .. Len(ring) : ring[i] \in Nat
      /\ arrived \in Nat /\ hand \in Nat /\ born \in Nat /\ hand # 0 /\ offset \in Nat
  BY <1>a, RingTyped, SentTyped
<1>1. n \in 0 .. FrameLen - offset
  BY <1>b, Constants
<1>2. /\ sent' \in Seq(Frames \X (1 .. FrameLen)) /\ Len(sent') \in Nat
      /\ \A i \in 1 .. Len(sent') : sent'[i][1] > born /\ sent'[i][1] <= hand
      /\ \A i, j \in 1 .. Len(sent') : i < j => sent'[i][1] < sent'[j][1]
      /\ offset + n = 0 => \A i \in 1 .. Len(sent') : sent'[i][1] < hand
      /\ offset + n # 0 => sent' # <<>> /\ sent'[Len(sent')][1] = hand
  BY <1>b, <1>1, GivenSent
<1>c. \A i \in 1 .. Len(sent') : sent'[i][1] \in Nat
  <2>1. \A i \in 1 .. Len(sent') : sent'[i] \in Frames \X (1 .. FrameLen)
    BY <1>2
  <2> QED
    BY <2>1, Constants DEF Frames
<1>3. TypeOK'
  <2>1. offset' \in 0 .. FrameLen - 1
    BY <1>b, Constants
  <2> QED
    BY <1>a, <1>2, <2>1 DEF TypeOK
<1>4. RingOrdered' /\ BurstLasts' /\ Accounted'
  BY <1>a DEF RingOrdered, BurstLasts, Accounted, InRing
<1>5. SentBefore'
  <2>1. \A i \in 1 .. Len(sent') : sent'[i][1] <= arrived
    BY <1>a, <1>b, <1>c, <1>2 DEF RingOrdered
  <2>2. ASSUME NEW i \in 1 .. Len(sent'), NEW j \in 1 .. Len(ring) PROVE sent'[i][1] < ring[j]
    <3>1. hand < ring[j] /\ ring[j] \in Nat /\ hand \in Nat
      BY <1>a, <1>b DEF RingOrdered
    <3>2. sent'[i][1] <= hand /\ sent'[i][1] \in Nat
      BY <1>c, <1>2
    <3> QED
      BY <3>1, <3>2
  <2> QED
    BY <1>a, <1>2, <2>1, <2>2 DEF SentBefore
<1> QED
  BY <1>3, <1>4, <1>5 DEF IInv

\* A try that ends in ERR_OK, in ERR_WOULDBLOCK, or in another error.
LEMMA WriteInv ==
  ASSUME IInv, WriteOk \/ WriteBlocked \/ WriteFailed
  PROVE  IInv'
<1>a. /\ hand # 0 /\ tpc = "write" /\ offset \in 0 .. FrameLen - 1
      /\ wb_cnt \in 0 .. StallLimit
  BY DEF IInv, TypeOK, WriteOk, WriteBlocked, WriteFailed
<1>1. CASE WriteOk
  <2>1. PICK n \in 1 .. FrameLen - offset :
          /\ Given(n)
          /\ IF offset + n = FrameLen THEN Drop(TRUE)
             ELSE offset' = offset + n /\ wb_cnt' = 0 /\ UNCHANGED <<freed, hand, tpc, burst>>
    BY <1>1 DEF WriteOk
  <2>2. UNCHANGED <<ring, arrived, clients, alive, born>> /\ n \in 0 .. FrameLen - offset
    BY <1>1, <1>a, Constants DEF WriteOk
  <2>3. CASE offset + n = FrameLen
    BY <1>a, <2>1, <2>2, <2>3, GivenSent, DropInv
  <2>4. CASE offset + n # FrameLen
    <3>1. n \in 0 .. FrameLen - offset - 1 /\ wb_cnt' \in 0 .. StallLimit
      BY <1>a, <2>1, <2>4, Constants
    <3> QED
      BY <1>a, <2>1, <2>2, <2>4, <3>1, WriteOnInv
  <2> QED
    BY <2>3, <2>4
<1>2. CASE WriteBlocked
  <2>1. PICK n \in 0 .. FrameLen - offset - 1 :
          /\ Given(n)
          /\ IF fruitless(n) > StallLimit THEN Drop(FALSE)
             ELSE /\ offset' = offset + n
                  /\ wb_cnt' = fruitless(n)
                  /\ UNCHANGED <<freed, hand, tpc, burst>>
    BY <1>2 DEF WriteBlocked
  <2>2. UNCHANGED <<ring, arrived, clients, alive, born>> /\ n \in 0 .. FrameLen - offset
    BY <1>2, <1>a, Constants DEF WriteBlocked
  <2>3. CASE fruitless(n) > StallLimit
    BY <1>a, <2>1, <2>2, <2>3, GivenSent, DropInv
  <2>4. CASE ~(fruitless(n) > StallLimit)
    <3>0. wb_cnt' = fruitless(n)
      BY <2>1, <2>4
    <3>1. wb_cnt' \in 0 .. StallLimit
      <4>1. fruitless(n) \in Nat
        BY <1>a, Constants DEF fruitless
      <4> QED
        BY <2>4, <3>0, <4>1, Constants
    <3> QED
      BY <1>a, <2>1, <2>2, <2>4, <3>1, WriteOnInv
  <2> QED
    BY <2>3, <2>4
<1>3. CASE WriteFailed
  <2>1. Drop(FALSE) /\ UNCHANGED <<ring, arrived, clients, alive, sent, born>>
    BY <1>3 DEF WriteFailed
  <2>2. TypeOK /\ SentBefore
    BY DEF IInv
  <2>3. Given(0) /\ 0 \in 0 .. FrameLen - offset
    BY <1>a, <2>1, Constants DEF Given
  <2> QED
    BY <1>a, <2>1, <2>3, GivenSent, DropInv
<1> QED
  BY <1>1, <1>2, <1>3

-----------------------------------------------------------------------------
(* The theorems. *)

LEMMA InitInv == Init => IInv
<1> SUFFICES ASSUME Init PROVE IInv
  OBVIOUS
<1>1. /\ Len(ring) = 0 /\ Len(sent) = 0 /\ ring \in Seq(Frames) /\ DOMAIN ring = {}
      /\ sent \in Seq(Frames \X (1 .. FrameLen))
  BY DEF Init
<1>2. TypeOK
  <2>1. alive \in BOOLEAN /\ freed \in [Frames -> Nat]
    BY DEF Init
  <2>2. tpc = "accept" /\ hand = 0 /\ clients = 0 /\ arrived = 0 /\ burst = 0 /\ offset = 0
        /\ wb_cnt = 0 /\ born = 0
    BY DEF Init
  <2> QED
    BY <1>1, <2>1, <2>2, Constants DEF TypeOK
<1>3. RingOrdered /\ SentBefore /\ BurstLasts
  BY <1>1 DEF Init, RingOrdered, SentBefore, BurstLasts
<1>4. Accounted
  BY <1>1, Constants DEF Init, Accounted, Frames
<1> QED
  BY <1>2, <1>3, <1>4 DEF IInv

\* The invariant is inductive: it holds at boot and every step of the receive
\* path, of the tcps task and of the host keeps it.
THEOREM TcpOutInvariance == Spec => []IInv
<1>1. IInv /\ [Next]_vars => IInv'
  <2> SUFFICES ASSUME IInv, [Next]_vars PROVE IInv'
    OBVIOUS
  <2>1. CASE UNCHANGED vars
    BY <2>1 DEF vars, taskVars, IInv, TypeOK, RingOrdered, SentBefore, Accounted, InRing, BurstLasts
  <2>2. CASE Next
    BY <2>2, DeliverInv, AcceptInv, CloseInv, MoveInv, PopInv, WriteInv
       DEF Next, TcpsWrite, TcpsInput
  <2> QED
    BY <2>1, <2>2
<1> QED
  BY <1>1, InitInv, PTL DEF Spec

\* Types of the ring and of the tcps task, the ring never fuller than its size less
\* one byte among them.
THEOREM TcpOutTypeCorrect == Spec => []TypeOK
<1>1. IInv => TypeOK
  BY DEF IInv
<1> QED
  BY <1>1, TcpOutInvariance, PTL

\* Every buffer is in the ring, in the task's hand or freed, exactly once, for any
\* size of ring, frame and burst.
THEOREM BufferOwnedOnceCorrect == Spec => []BufferOwnedOnce
<1>1. IInv => BufferOwnedOnce
  <2> SUFFICES ASSUME IInv, NEW f \in 1 .. arrived
               PROVE  Cardinality({i \in DOMAIN ring : ring[i] = f})
                        + (IF hand = f THEN 1 ELSE 0) + freed[f] = 1
    BY DEF BufferOwnedOnce
  <2>a. TypeOK /\ RingOrdered /\ Accounted
    BY DEF IInv
  <2>1. f \in Frames /\ f <= arrived /\ f # 0
    BY <2>a, Constants DEF TypeOK, Frames
  <2>2. InRing(f) => hand # f
    <3>1. hand \in Nat /\ arrived \in Nat
      BY <2>a, SentTyped
    <3> QED
      BY <2>a, <3>1, RingTyped DEF RingOrdered, InRing
  <2>3. freed[f] = IF hand # f /\ ~InRing(f) THEN 1 ELSE 0
    BY <2>a, <2>1 DEF Accounted
  <2>4. Cardinality({i \in DOMAIN ring : ring[i] = f}) = IF InRing(f) THEN 1 ELSE 0
    BY <2>a, CopiesInRing
  <2> QED
    BY <2>2, <2>3, <2>4
<1> QED
  BY <1>1, TcpOutInvariance, PTL

\* A host is given frames that arrived after it connected, at most once and in
\* order, whatever the client before it left behind.
THEOREM HostSeesOwnFramesCorrect == Spec => []HostSeesOwnFrames
<1>1. IInv => HostSeesOwnFrames
  <2> SUFFICES ASSUME IInv PROVE HostSeesOwnFrames
    OBVIOUS
  <2>1. DOMAIN sent = 1 .. Len(sent)
    BY SentTyped DEF IInv
  <2> QED
    BY <2>1 DEF IInv, SentBefore, HostSeesOwnFrames
<1> QED
  BY <1>1, TcpOutInvariance, PTL

-----------------------------------------------------------------------------
(* Sequences joined. *)

\* A set of naturals that is not empty has a least element.
LEMMA LeastOf ==
  ASSUME NEW T \in SUBSET Nat, T # {}
  PROVE  \E x \in T : \A y \in T : x <= y
<1> DEFINE R == OpToRel(<, Nat)
<1>1. \A x, y \in Nat : y < x => <<y, x>> \in R
  BY DEF OpToRel
<1>2. IsWellFoundedOn(R, Nat)
  BY NatLessThanWellFounded
<1> HIDE DEF R
<1>3. PICK x \in T : \A y \in T : ~ (<<y, x>> \in R)
  BY <1>2, WFMin
<1>4. \A y \in T : x \in Nat /\ y \in Nat /\ ~ (y < x)
  BY <1>1, <1>3
<1> QED
  BY <1>4

\* f is what FlattenSeq computes on the first n sequences of q.
IsFlat(q, n, f) == f = [i \in 1 .. n |-> IF i = 1 THEN q[i] ELSE f[i - 1] \o q[i]]

LEMMA FlatExists ==
  ASSUME NEW q, NEW n \in Nat
  PROVE  \E f : IsFlat(q, n, f)
<1> DEFINE T == {m \in Nat : ~ \E f : IsFlat(q, m, f)}
<1> SUFFICES ASSUME T # {} PROVE FALSE
  OBVIOUS
<1>1. PICK m \in T : \A y \in T : m <= y
  BY LeastOf
<1>2. m \in Nat /\ ~ \E f : IsFlat(q, m, f)
  OBVIOUS
<1>3. CASE m = 0
  <2> DEFINE f == [i \in 1 .. 0 |-> q[i]]
  <2>1. IsFlat(q, 0, f)
    BY DEF IsFlat
  <2> QED
    BY <1>2, <1>3, <2>1
<1>4. CASE m # 0
  <2>1. m - 1 \in Nat /\ m - 1 \notin T
    BY <1>1, <1>2, <1>4
  <2>2. PICK f : IsFlat(q, m - 1, f)
    BY <2>1
  <2> DEFINE z == [i \in 1 .. m |-> IF i < m THEN f[i] ELSE IF m = 1 THEN q[m] ELSE f[m - 1] \o q[m]]
  <2>3. \A i \in 1 .. m : z[i] = IF i = 1 THEN q[i] ELSE z[i - 1] \o q[i]
    <3> SUFFICES ASSUME NEW i \in 1 .. m PROVE z[i] = IF i = 1 THEN q[i] ELSE z[i - 1] \o q[i]
      OBVIOUS
    <3>0. \A k \in 1 .. m - 1 : f[k] = IF k = 1 THEN q[k] ELSE f[k - 1] \o q[k]
      BY <2>2 DEF IsFlat
    <3>1. \A k \in 1 .. m : z[k] = IF k < m THEN f[k] ELSE IF m = 1 THEN q[m] ELSE f[m - 1] \o q[m]
      OBVIOUS
    <3> HIDE DEF z
    <3>2. CASE i < m /\ i = 1
      <4>1. i \in 1 .. m - 1
        BY <1>2, <3>2
      <4> QED
        BY <3>0, <3>1, <3>2, <4>1
    <3>3. CASE i < m /\ i # 1
      <4>1. i \in 1 .. m - 1 /\ i - 1 \in 1 .. m /\ i - 1 < m
        BY <1>2, <3>3
      <4> QED
        BY <3>0, <3>1, <3>3, <4>1
    <3>4. CASE ~ (i < m) /\ i = 1
      <4>1. m = 1
        BY <1>2, <3>4
      <4> QED
        BY <3>1, <3>4, <4>1
    <3>5. CASE ~ (i < m) /\ i # 1
      <4>1. i = m /\ m # 1 /\ i - 1 \in 1 .. m /\ i - 1 < m
        BY <1>2, <3>5
      <4> QED
        BY <3>1, <3>5, <4>1
    <3> QED
      BY <3>2, <3>3, <3>4, <3>5
  <2>4. z = [i \in 1 .. m |-> z[i]]
    OBVIOUS
  <2> HIDE DEF z
  <2>5. IsFlat(q, m, z)
    BY <2>3, <2>4 DEF IsFlat
  <2> QED
    BY <1>2, <2>5
<1> QED
  BY <1>3, <1>4

AlikeTo(q, r, n) == \A i \in 1 .. n : q[i] = r[i]

\* What it computes on the first n of them depends on those only.
LEMMA FlatSame ==
  ASSUME NEW q, NEW r, NEW n \in Nat, NEW m \in Nat, n <= m, NEW f, NEW g,
         IsFlat(q, n, f), IsFlat(r, m, g), AlikeTo(q, r, n)
  PROVE  AlikeTo(f, g, n)
<1> USE DEF AlikeTo
<1> DEFINE T == {i \in 1 .. n : f[i] # g[i]}
<1> SUFFICES ASSUME T # {} PROVE FALSE
  OBVIOUS
<1>1. T \in SUBSET Nat
  OBVIOUS
<1>2. PICK x \in T : \A y \in T : x <= y
  BY <1>1, LeastOf
<1>3. x \in 1 .. n /\ x \in 1 .. m /\ f[x] # g[x] /\ q[x] = r[x]
  OBVIOUS
<1>4. /\ f[x] = IF x = 1 THEN q[x] ELSE f[x - 1] \o q[x]
      /\ g[x] = IF x = 1 THEN r[x] ELSE g[x - 1] \o r[x]
  BY <1>3 DEF IsFlat
<1>5. x # 1
  BY <1>3, <1>4
<1>6. x - 1 \in 1 .. n /\ ~ (x <= x - 1)
  BY <1>3, <1>5
<1>7. x - 1 \notin T
  BY <1>2, <1>6
<1>8. f[x - 1] = g[x - 1]
  BY <1>6, <1>7
<1> QED
  BY <1>3, <1>4, <1>5, <1>8

LEMMA FlattenIs ==
  ASSUME NEW q, Len(q) \in Nat, Len(q) # 0
  PROVE  \E f : IsFlat(q, Len(q), f) /\ FlattenSeq(q) = f[Len(q)]
<1> DEFINE P(f) == IsFlat(q, Len(q), f)
<1>1. \E f : P(f)
  BY FlatExists
<1>2. FlattenSeq(q) = (CHOOSE f : P(f))[Len(q)]
  BY DEF FlattenSeq, IsFlat
<1> HIDE DEF P
<1>3. P(CHOOSE f : P(f))
  BY <1>1
<1>4. PICK f : f = CHOOSE g : P(g)
  OBVIOUS
<1>5. P(f) /\ FlattenSeq(q) = f[Len(q)]
  BY <1>2, <1>3, <1>4
<1> QED
  BY <1>5 DEF P

\* The first n sequences of q, joined.
Pre(q, n) == FlattenSeq(SubSeq(q, 1, n))

LEMMA PreRec ==
  ASSUME NEW T, NEW q \in Seq(Seq(T))
  PROVE  /\ Pre(q, 0) = <<>>
         /\ \A n \in 1 .. Len(q) : Pre(q, n) = Pre(q, n - 1) \o q[n]
         /\ Pre(q, Len(q)) = FlattenSeq(q)
<1>0. Len(q) \in Nat
  OBVIOUS
<1>1. Pre(q, 0) = <<>>
  <2>1. SubSeq(q, 1, 0) = <<>> /\ Len(SubSeq(q, 1, 0)) = 0
    OBVIOUS
  <2> QED
    BY <2>1 DEF Pre, FlattenSeq
<1>2. Pre(q, Len(q)) = FlattenSeq(q)
  <2>1. SubSeq(q, 1, Len(q)) = q
    BY SubSeqFull
  <2> QED
    BY <2>1 DEF Pre
<1>3. ASSUME NEW n \in 1 .. Len(q) PROVE Pre(q, n) = Pre(q, n - 1) \o q[n]
  <2>0. n \in Nat /\ n - 1 \in Nat /\ n # 0 /\ n <= Len(q) /\ n - 1 <= n
    BY <1>0
  <2>1. PICK s : s = SubSeq(q, 1, n)
    OBVIOUS
  <2>2. Len(s) = n /\ \A i \in 1 .. n : s[i] = q[i]
    BY <2>0, <2>1
  <2>3. PICK f : IsFlat(s, n, f) /\ FlattenSeq(s) = f[n]
    BY <2>0, <2>2, FlattenIs
  <2>4. n \in 1 .. n
    BY <2>0
  <2>5. f[n] = IF n = 1 THEN s[n] ELSE f[n - 1] \o s[n]
    BY <2>3, <2>4 DEF IsFlat
  <2>6. Pre(q, n) = f[n] /\ s[n] = q[n]
    BY <2>1, <2>2, <2>3, <2>4 DEF Pre
  <2>7. CASE n = 1
    <3>1. q[1] \in Seq(T)
      BY <2>7, <2>0
    <3>2. <<>> \o q[1] = q[1]
      BY <3>1
    <3>3. Pre(q, n) = q[1]
      BY <2>5, <2>6, <2>7
    <3>4. Pre(q, n - 1) = <<>>
      BY <1>1, <2>7
    <3> QED
      BY <2>7, <3>2, <3>3, <3>4
  <2>8. CASE n # 1
    <3>0. n - 1 # 0
      BY <2>0, <2>8
    <3>1. PICK r : r = SubSeq(q, 1, n - 1)
      OBVIOUS
    <3>2. Len(r) = n - 1 /\ \A i \in 1 .. n - 1 : r[i] = q[i]
      BY <2>0, <3>1
    <3>3. PICK g : IsFlat(r, n - 1, g) /\ FlattenSeq(r) = g[n - 1]
      BY <2>0, <3>0, <3>2, FlattenIs
    <3>4. \A i \in 1 .. n - 1 : i \in 1 .. n
      BY <2>0
    <3>5. \A i \in 1 .. n - 1 : r[i] = s[i]
      BY <2>2, <3>2, <3>4
    <3>6. \A i \in 1 .. n - 1 : g[i] = f[i]
      <4>1. PICK l \in Nat : l = n - 1
        BY <2>0
      <4>2. l <= n /\ IsFlat(r, l, g) /\ IsFlat(s, n, f) /\ AlikeTo(r, s, l)
        BY <2>0, <2>3, <3>3, <3>5, <4>1 DEF AlikeTo
      <4>3. AlikeTo(g, f, l)
        BY <2>0, <4>2, FlatSame
      <4> QED
        BY <4>1, <4>3 DEF AlikeTo
    <3>7. n - 1 \in 1 .. n - 1
      BY <2>0, <3>0
    <3>8. g[n - 1] = f[n - 1]
      BY <3>6, <3>7
    <3>9. Pre(q, n - 1) = f[n - 1]
      BY <3>1, <3>3, <3>8 DEF Pre
    <3> QED
      BY <2>5, <2>6, <2>8, <3>9
  <2> QED
    BY <2>7, <2>8
<1> QED
  BY <1>1, <1>2, <1>3

LEMMA PreType ==
  ASSUME NEW T, NEW q \in Seq(Seq(T)), NEW n \in 0 .. Len(q)
  PROVE  Pre(q, n) \in Seq(T)
<1> DEFINE B == {i \in 0 .. Len(q) : Pre(q, i) \notin Seq(T)}
<1> SUFFICES ASSUME B # {} PROVE FALSE
  OBVIOUS
<1>1. B \in SUBSET Nat
  OBVIOUS
<1>2. PICK x \in B : \A y \in B : x <= y
  BY <1>1, LeastOf
<1>3. x \in 0 .. Len(q) /\ Pre(q, x) \notin Seq(T) /\ Len(q) \in Nat
  OBVIOUS
<1>4. x # 0
  <2>1. Pre(q, 0) = <<>>
    BY PreRec
  <2>2. <<>> \in Seq(T)
    OBVIOUS
  <2> QED
    BY <1>3, <2>1, <2>2
<1>5. x \in 1 .. Len(q) /\ x - 1 \in 0 .. Len(q) /\ ~ (x <= x - 1)
  BY <1>3, <1>4
<1>6. Pre(q, x - 1) \in Seq(T)
  BY <1>2, <1>5
<1>7. Pre(q, x) = Pre(q, x - 1) \o q[x] /\ q[x] \in Seq(T)
  <2>1. \A i \in 1 .. Len(q) : Pre(q, i) = Pre(q, i - 1) \o q[i]
    BY PreRec
  <2>2. q[x] \in Seq(T)
    BY <1>5
  <2> QED
    BY <1>5, <2>1, <2>2
<1>8. Pre(q, x - 1) \o q[x] \in Seq(T)
  BY <1>6, <1>7
<1> QED
  BY <1>3, <1>7, <1>8

\* u begins v.
Begins(u, v) == Len(u) <= Len(v) /\ \A i \in 1 .. Len(u) : v[i] = u[i]

\* Fewer of them begin what more of them are.
LEMMA PreBegins ==
  ASSUME NEW T, NEW q \in Seq(Seq(T)), NEW n \in 0 .. Len(q), NEW m \in 0 .. n
  PROVE  Begins(Pre(q, m), Pre(q, n))
<1> DEFINE B == {i \in m .. Len(q) : ~ Begins(Pre(q, m), Pre(q, i))}
<1> SUFFICES ASSUME B # {} PROVE FALSE
  OBVIOUS
<1>0. m \in Nat /\ m <= Len(q) /\ Len(q) \in Nat /\ n \in m .. Len(q)
  OBVIOUS
<1>1. B \in SUBSET Nat
  BY <1>0
<1>2. PICK x \in B : \A y \in B : x <= y
  BY <1>1, LeastOf
<1>3. x \in m .. Len(q) /\ ~ Begins(Pre(q, m), Pre(q, x)) /\ x \in Nat
  BY <1>1
<1>4. Pre(q, m) \in Seq(T) /\ Len(Pre(q, m)) \in Nat
  <2>1. m \in 0 .. Len(q)
    BY <1>0
  <2>2. Pre(q, m) \in Seq(T)
    BY <2>1, PreType
  <2> QED
    BY <2>2
<1>5. x # m
  <2>1. Begins(Pre(q, m), Pre(q, m))
    BY <1>4 DEF Begins
  <2> QED
    BY <1>3, <2>1
<1>6. x \in 1 .. Len(q) /\ x - 1 \in 0 .. Len(q) /\ x - 1 \in m .. Len(q) /\ ~ (x <= x - 1)
  BY <1>0, <1>3, <1>5
<1>7. Begins(Pre(q, m), Pre(q, x - 1))
  BY <1>2, <1>6
<1>8. PICK u, v, w : u = Pre(q, x - 1) /\ v = q[x] /\ w = Pre(q, x)
  OBVIOUS
<1>9. u \in Seq(T) /\ v \in Seq(T) /\ w = u \o v
  <2>1. \A i \in 1 .. Len(q) : Pre(q, i) = Pre(q, i - 1) \o q[i]
    BY PreRec
  <2>2. q[x] \in Seq(T)
    BY <1>6
  <2>3. Pre(q, x - 1) \in Seq(T)
    BY <1>6, PreType
  <2> QED
    BY <1>6, <1>8, <2>1, <2>2, <2>3
<1>10. Len(u) \in Nat /\ Len(w) = Len(u) + Len(v) /\ Len(v) \in Nat /\ \A i \in 1 .. Len(u) : w[i] = u[i]
  BY <1>9
<1>11. PICK p : p = Pre(q, m)
  OBVIOUS
<1>12. Len(p) \in Nat /\ Len(p) <= Len(u) /\ \A i \in 1 .. Len(p) : u[i] = p[i]
  BY <1>4, <1>7, <1>8, <1>11 DEF Begins
<1>13. \A i \in 1 .. Len(p) : i \in 1 .. Len(u)
  BY <1>10, <1>12
<1>14. Len(p) <= Len(w) /\ \A i \in 1 .. Len(p) : w[i] = p[i]
  <2>1. Len(p) <= Len(w)
    BY <1>10, <1>12
  <2> QED
    BY <1>10, <1>12, <1>13, <2>1
<1> QED
  BY <1>3, <1>8, <1>11, <1>14 DEF Begins

\* v lies in w from position c on.
LiesIn(v, w, c) ==
  /\ c \in Nat /\ Len(v) \in Nat /\ c + Len(v) <= Len(w)
  /\ \A i \in 1 .. Len(v) : w[c + i] = v[i]

LEMMA ConcatAt ==
  ASSUME NEW T, NEW u \in Seq(T), NEW v \in Seq(T)
  PROVE  /\ u \o v \in Seq(T) /\ Len(u \o v) = Len(u) + Len(v)
         /\ LiesIn(u, u \o v, 0) /\ LiesIn(v, u \o v, Len(u))
<1>0. PICK w : w = u \o v
  OBVIOUS
<1>1. Len(u) \in Nat /\ Len(v) \in Nat
  OBVIOUS
<1>2. /\ w \in Seq(T) /\ Len(w) = Len(u) + Len(v)
      /\ \A i \in 1 .. Len(u) + Len(v) : w[i] = IF i <= Len(u) THEN u[i] ELSE v[i - Len(u)]
  BY <1>0, ConcatProperties
<1>3. PICK a \in Nat, b \in Nat : a = Len(u) /\ b = Len(v)
  BY <1>1
<1>4. /\ \A i \in 1 .. a : i \in 1 .. a + b /\ i <= a
      /\ \A i \in 1 .. b : a + i \in 1 .. a + b /\ ~ (a + i <= a) /\ (a + i) - a = i
  OBVIOUS
<1>5. \A i \in 1 .. a + b : w[i] = IF i <= a THEN u[i] ELSE v[i - a]
  BY <1>2, <1>3
<1>6. \A i \in 1 .. a : w[i] = u[i]
  BY <1>4, <1>5
<1>7. \A i \in 1 .. b : w[a + i] = v[i]
  BY <1>4, <1>5
<1>8. LiesIn(u, w, 0) /\ LiesIn(v, w, a)
  <2>1. 0 + a <= Len(w) /\ a + b <= Len(w) /\ \A i \in 1 .. a : 0 + i = i
    BY <1>2, <1>3
  <2> QED
    BY <1>3, <1>6, <1>7, <2>1 DEF LiesIn
<1> QED
  BY <1>0, <1>2, <1>3, <1>8

\* Where the k-th of them lies in the whole.
LEMMA JoinAt ==
  ASSUME NEW T, NEW q \in Seq(Seq(T)), NEW k \in 1 .. Len(q)
  PROVE  /\ FlattenSeq(q) \in Seq(T)
         /\ Len(Pre(q, k)) = Len(Pre(q, k - 1)) + Len(q[k])
         /\ LiesIn(q[k], FlattenSeq(q), Len(Pre(q, k - 1)))
<1>0. Len(q) \in Nat /\ k \in 0 .. Len(q) /\ k - 1 \in 0 .. Len(q) /\ Len(q) \in 0 .. Len(q)
  OBVIOUS
<1>1. Pre(q, Len(q)) = FlattenSeq(q)
  BY PreRec
<1>2. \A i \in 1 .. Len(q) : Pre(q, i) = Pre(q, i - 1) \o q[i]
  BY PreRec
<1>3. PICK u, v, w, z : u = Pre(q, k - 1) /\ v = q[k] /\ w = Pre(q, k) /\ z = FlattenSeq(q)
  OBVIOUS
<1>4. u \in Seq(T) /\ z \in Seq(T)
  BY <1>0, <1>1, <1>3, PreType
<1>5. v \in Seq(T)
  BY <1>3
<1>6. w = u \o v
  BY <1>2, <1>3
<1>7. Begins(w, z)
  BY <1>0, <1>1, <1>3, PreBegins
<1>8. Len(w) = Len(u) + Len(v) /\ LiesIn(v, w, Len(u))
  BY <1>4, <1>5, <1>6, ConcatAt
<1>9. PICK c : c = Len(u)
  OBVIOUS
<1>10. /\ c \in Nat /\ Len(v) \in Nat /\ Len(w) = c + Len(v)
       /\ \A i \in 1 .. Len(v) : w[c + i] = v[i]
  BY <1>8, <1>9 DEF LiesIn
<1>11. \A i \in 1 .. Len(v) : c + i \in 1 .. Len(w)
  BY <1>10
<1>12. Len(w) <= Len(z) /\ \A i \in 1 .. Len(w) : z[i] = w[i]
  BY <1>7 DEF Begins
<1>13. \A i \in 1 .. Len(v) : z[c + i] = v[i]
  BY <1>10, <1>11, <1>12
<1>14. LiesIn(v, z, c)
  BY <1>10, <1>12, <1>13 DEF LiesIn
<1> QED
  BY <1>3, <1>4, <1>8, <1>9, <1>14

-----------------------------------------------------------------------------
(* The framing. *)

LEMMA ByteFacts ==
  /\ FLAG \in Bytes /\ ESC \in Bytes /\ FLAG # ESC
  /\ \A b \in Bytes : Masked[b] \in Bytes /\ Masked[Masked[b]] = b
  /\ Masked[FLAG] # FLAG /\ Masked[ESC] # FLAG
<1>1. Bytes = {"7E", "7D", "5E", "5D", "41", "61"}
  BY DEF Bytes, Masked
<1>2. /\ Masked["7E"] = "5E" /\ Masked["5E"] = "7E" /\ Masked["7D"] = "5D" /\ Masked["5D"] = "7D"
      /\ Masked["41"] = "61" /\ Masked["61"] = "41"
  BY DEF Masked
<1> QED
  BY <1>1, <1>2 DEF FLAG, ESC

EscapesOf(p) == [i \in 1 .. Len(p) |-> EscapeByte(p[i])]
FramesOf(ps) == [k \in 1 .. Len(ps) |-> Encode(ps[k])]
FitsOf(ps) == [k \in 1 .. Len(ps) |-> Fitting(ps[k])]

LEMMA EscapeByteType ==
  ASSUME NEW b \in Bytes
  PROVE  /\ EscapeByte(b) \in Seq(Bytes)
         /\ b \in {FLAG, ESC} => /\ Len(EscapeByte(b)) = 2
                                 /\ EscapeByte(b)[1] = ESC /\ EscapeByte(b)[2] = Masked[b]
         /\ b \notin {FLAG, ESC} => Len(EscapeByte(b)) = 1 /\ EscapeByte(b)[1] = b
<1>1. CASE b \in {FLAG, ESC}
  <2>1. EscapeByte(b) = <<ESC, Masked[b]>>
    BY <1>1 DEF EscapeByte
  <2>2. ESC \in Bytes /\ Masked[b] \in Bytes
    BY ByteFacts
  <2> QED
    BY <1>1, <2>1, <2>2
<1>2. CASE b \notin {FLAG, ESC}
  <2>1. EscapeByte(b) = <<b>>
    BY <1>2 DEF EscapeByte
  <2> QED
    BY <1>2, <2>1
<1> QED
  BY <1>1, <1>2

LEMMA EscapesType ==
  ASSUME NEW p \in Seq(Bytes)
  PROVE  /\ EscapesOf(p) \in Seq(Seq(Bytes)) /\ Len(EscapesOf(p)) = Len(p)
         /\ \A i \in 1 .. Len(p) : EscapesOf(p)[i] = EscapeByte(p[i])
         /\ Escape(p) = FlattenSeq(EscapesOf(p))
         /\ Escape(p) \in Seq(Bytes)
<1>1. \A i \in 1 .. Len(p) : EscapeByte(p[i]) \in Seq(Bytes)
  <2>1. \A i \in 1 .. Len(p) : p[i] \in Bytes
    OBVIOUS
  <2> QED
    BY <2>1, EscapeByteType
<1>2. Len(p) \in Nat
  OBVIOUS
<1>3. EscapesOf(p) \in Seq(Seq(Bytes)) /\ Len(EscapesOf(p)) = Len(p)
  BY <1>1, <1>2, IsASeq DEF EscapesOf
<1>4. Escape(p) = FlattenSeq(EscapesOf(p))
  BY DEF Escape, EscapesOf
<1>5. FlattenSeq(EscapesOf(p)) = Pre(EscapesOf(p), Len(p))
  BY <1>3, PreRec
<1>6. Len(p) \in 0 .. Len(EscapesOf(p))
  BY <1>2, <1>3
<1>7. Escape(p) \in Seq(Bytes)
  BY <1>3, <1>4, <1>5, <1>6, PreType
<1> QED
  BY <1>3, <1>4, <1>7 DEF EscapesOf

\* The bytes of a payload's escaped form before those of its j + 1st byte.
Before(p, j) == Len(Pre(EscapesOf(p), j))

\* Where the j + 1st byte of a payload is in its escaped form.
LEMMA EscapeAt ==
  ASSUME NEW p \in Seq(Bytes), NEW j \in 0 .. Len(p), j < Len(p)
  PROVE  /\ Before(p, j) \in Nat /\ Before(p, j + 1) <= Len(Escape(p))
         /\ p[j + 1] \in {FLAG, ESC} =>
              /\ Escape(p)[Before(p, j) + 1] = ESC
              /\ Escape(p)[Before(p, j) + 2] = Masked[p[j + 1]]
              /\ Before(p, j + 1) = Before(p, j) + 2
         /\ p[j + 1] \notin {FLAG, ESC} =>
              /\ Escape(p)[Before(p, j) + 1] = p[j + 1]
              /\ Before(p, j + 1) = Before(p, j) + 1
<1>0. Len(p) \in Nat /\ j \in Nat /\ j + 1 \in 1 .. Len(p) /\ (j + 1) - 1 = j
  OBVIOUS
<1>1. PICK k : k = j + 1
  OBVIOUS
<1>2. PICK q : q = EscapesOf(p)
  OBVIOUS
<1>3. q \in Seq(Seq(Bytes)) /\ Len(q) = Len(p) /\ q[k] = EscapeByte(p[k]) /\ Escape(p) = FlattenSeq(q)
  BY <1>0, <1>1, <1>2, EscapesType
<1>4. k \in 1 .. Len(q) /\ k - 1 = j /\ Before(p, j) = Len(Pre(q, k - 1)) /\ Before(p, k) = Len(Pre(q, k))
  BY <1>0, <1>1, <1>2, <1>3 DEF Before
<1>5. PICK c : c = Before(p, j)
  OBVIOUS
<1>6. PICK b : b = EscapeByte(p[k])
  OBVIOUS
<1>7. /\ c \in Nat /\ Before(p, k) = c + Len(b) /\ c + Len(b) <= Len(Escape(p))
      /\ \A i \in 1 .. Len(b) : Escape(p)[c + i] = b[i]
  <2>1. Len(Pre(q, k)) = Len(Pre(q, k - 1)) + Len(q[k]) /\ LiesIn(q[k], FlattenSeq(q), Len(Pre(q, k - 1)))
    BY <1>3, <1>4, JoinAt
  <2>2. Before(p, k) = c + Len(b) /\ LiesIn(b, Escape(p), c)
    BY <1>3, <1>4, <1>5, <1>6, <2>1
  <2> QED
    BY <2>2 DEF LiesIn
<1>8. p[k] \in Bytes
  BY <1>0, <1>1
<1>9. /\ p[k] \in {FLAG, ESC} => Len(b) = 2 /\ b[1] = ESC /\ b[2] = Masked[p[k]]
      /\ p[k] \notin {FLAG, ESC} => Len(b) = 1 /\ b[1] = p[k]
  BY <1>6, <1>8, EscapeByteType
<1>10. CASE p[k] \in {FLAG, ESC}
  <2>1. 1 \in 1 .. Len(b) /\ 2 \in 1 .. Len(b)
    BY <1>9, <1>10
  <2>2. Escape(p)[c + 1] = ESC /\ Escape(p)[c + 2] = Masked[p[k]]
    BY <1>7, <1>9, <1>10, <2>1
  <2> QED
    BY <1>1, <1>5, <1>7, <1>9, <1>10, <2>2
<1>11. CASE p[k] \notin {FLAG, ESC}
  <2>1. 1 \in 1 .. Len(b)
    BY <1>9, <1>11
  <2>2. Escape(p)[c + 1] = p[k]
    BY <1>7, <1>9, <1>11, <2>1
  <2> QED
    BY <1>1, <1>5, <1>7, <1>9, <1>11, <2>2
<1> QED
  BY <1>10, <1>11

LEMMA EncodeType ==
  ASSUME NEW p \in Seq(Bytes)
  PROVE  /\ Encode(p) \in Seq(Bytes) /\ Len(Encode(p)) = Len(Escape(p)) + 2
         /\ Len(Escape(p)) \in Nat
         /\ Encode(p)[1] = FLAG /\ Encode(p)[Len(Escape(p)) + 2] = FLAG
         /\ \A i \in 1 .. Len(Escape(p)) : Encode(p)[i + 1] = Escape(p)[i]
<1>1. PICK e : e = Escape(p)
  OBVIOUS
<1>2. e \in Seq(Bytes)
  BY <1>1, EscapesType
<1>3. PICK f : f = <<FLAG>>
  OBVIOUS
<1>4. f \in Seq(Bytes) /\ Len(f) = 1 /\ f[1] = FLAG
  <2>1. FLAG \in Bytes
    BY ByteFacts
  <2> QED
    BY <1>3, <2>1
<1>5. PICK g : g = f \o e
  OBVIOUS
<1>6. /\ g \in Seq(Bytes) /\ Len(g) = Len(e) + 1 /\ Len(e) \in Nat
      /\ g[1] = FLAG /\ \A i \in 1 .. Len(e) : g[i + 1] = e[i]
  <2>1. /\ g \in Seq(Bytes) /\ Len(g) = Len(f) + Len(e)
        /\ LiesIn(f, g, 0) /\ LiesIn(e, g, Len(f))
    BY <1>2, <1>4, <1>5, ConcatAt
  <2>2. /\ Len(e) \in Nat /\ \A i \in 1 .. 1 : g[0 + i] = f[i]
        /\ \A i \in 1 .. Len(e) : g[1 + i] = e[i]
    BY <1>4, <2>1 DEF LiesIn
  <2>3. 1 \in 1 .. 1 /\ 0 + 1 = 1 /\ \A i \in 1 .. Len(e) : 1 + i = i + 1
    BY <2>2
  <2>4. g[1] = FLAG /\ \A i \in 1 .. Len(e) : g[i + 1] = e[i]
    BY <1>4, <2>2, <2>3
  <2>5. Len(g) = Len(e) + 1
    BY <1>4, <2>1, <2>2
  <2> QED
    BY <2>1, <2>2, <2>4, <2>5
<1>7. Encode(p) = g \o f
  BY <1>1, <1>3, <1>5 DEF Encode
<1>8. PICK h : h = g \o f
  OBVIOUS
<1>9. /\ h \in Seq(Bytes) /\ Len(h) = Len(e) + 2
      /\ \A i \in 1 .. Len(g) : h[i] = g[i]
      /\ h[Len(g) + 1] = FLAG
  <2>1. h \in Seq(Bytes) /\ Len(h) = Len(g) + Len(f) /\ LiesIn(g, h, 0) /\ LiesIn(f, h, Len(g))
    BY <1>4, <1>6, <1>8, ConcatAt
  <2>2. /\ Len(g) \in Nat /\ \A i \in 1 .. Len(g) : h[0 + i] = g[i]
        /\ \A i \in 1 .. 1 : h[Len(g) + i] = f[i]
    BY <1>4, <2>1 DEF LiesIn
  <2>3. 1 \in 1 .. 1 /\ \A i \in 1 .. Len(g) : 0 + i = i
    BY <2>2
  <2>4. Len(h) = Len(e) + 2
    BY <1>4, <1>6, <2>1
  <2> QED
    BY <1>4, <2>1, <2>2, <2>3, <2>4
<1>10. Len(g) + 1 = Len(e) + 2 /\ 1 \in 1 .. Len(g) /\ \A i \in 1 .. Len(e) : i + 1 \in 1 .. Len(g)
  BY <1>6
<1>11. h[1] = FLAG /\ h[Len(e) + 2] = FLAG /\ \A i \in 1 .. Len(e) : h[i + 1] = e[i]
  BY <1>6, <1>9, <1>10
<1> QED
  BY <1>1, <1>6, <1>7, <1>8, <1>9, <1>11

LEMMA FramesType ==
  ASSUME NEW ps \in Seq(Seq(Bytes))
  PROVE  /\ FramesOf(ps) \in Seq(Seq(Bytes)) /\ Len(FramesOf(ps)) = Len(ps)
         /\ \A k \in 1 .. Len(ps) : FramesOf(ps)[k] = Encode(ps[k])
<1>1. \A k \in 1 .. Len(ps) : Encode(ps[k]) \in Seq(Bytes)
  <2>1. \A k \in 1 .. Len(ps) : ps[k] \in Seq(Bytes)
    OBVIOUS
  <2> QED
    BY <2>1, EncodeType
<1>2. Len(ps) \in Nat
  OBVIOUS
<1> QED
  BY <1>1, <1>2, IsASeq DEF FramesOf

LEMMA FitsType ==
  ASSUME NEW ps \in Seq(Seq(Bytes))
  PROVE  /\ FitsOf(ps) \in Seq(Seq(Seq(Bytes))) /\ Len(FitsOf(ps)) = Len(ps)
         /\ \A k \in 1 .. Len(ps) : FitsOf(ps)[k] = Fitting(ps[k])
<1>1. \A k \in 1 .. Len(ps) : Fitting(ps[k]) \in Seq(Seq(Bytes))
  <2>1. \A k \in 1 .. Len(ps) : ps[k] \in Seq(Bytes)
    OBVIOUS
  <2>2. ASSUME NEW p \in Seq(Bytes) PROVE Fitting(p) \in Seq(Seq(Bytes))
    <3>1. <<p>> \in Seq(Seq(Bytes)) /\ <<>> \in Seq(Seq(Bytes))
      OBVIOUS
    <3> QED
      BY <3>1 DEF Fitting
  <2> QED
    BY <2>1, <2>2
<1>2. Len(ps) \in Nat
  OBVIOUS
<1> QED
  BY <1>1, <1>2, IsASeq DEF FitsOf

-----------------------------------------------------------------------------
(* Where the decoder is in a host's stream. *)

\* The bytes of the first k frames, and what comes of their payloads.
Begin(ps, k) == Len(Pre(FramesOf(ps), k))
Kept(ps, k) == Pre(FitsOf(ps), k)

\* After n bytes of the frames ps the decoder is between two frames, after the
\* k-th; or in frame k, j bytes of the payload behind it; or past the ESC
\* of the next one. fr is what it has of the frame, o what it handed on.
Between(ps, n, k, st, fr, o) ==
  /\ n = Begin(ps, k)
  /\ st = (IF k = 0 THEN "wait" ELSE "read") /\ fr = <<>> /\ o = Kept(ps, k)

Inside(ps, n, k, j, st, fr, o) ==
  /\ n = Begin(ps, k - 1) + 1 + Before(ps[k], j)
  /\ IF j <= MaxFrame THEN st = "read" /\ fr = SubSeq(ps[k], 1, j) ELSE st = "wait" /\ fr = <<>>
  /\ o = Kept(ps, k - 1)

Escaping(ps, n, k, j, st, fr, o) ==
  /\ j < Len(ps[k]) /\ ps[k][j + 1] \in {FLAG, ESC}
  /\ n = Begin(ps, k - 1) + 2 + Before(ps[k], j)
  /\ IF j <= MaxFrame THEN st = "esc" /\ fr = SubSeq(ps[k], 1, j) ELSE st = "wait" /\ fr = <<>>
  /\ o = Kept(ps, k - 1)

At(ps, n, st, fr, o) ==
  \/ \E k \in 0 .. Len(ps) : Between(ps, n, k, st, fr, o)
  \/ \E k \in 1 .. Len(ps) : \E j \in 0 .. Len(ps[k]) :
       Inside(ps, n, k, j, st, fr, o) \/ Escaping(ps, n, k, j, st, fr, o)

\* What the decoder makes of byte b.
StateAfter(st, fr, b) ==
  IF b = FLAG THEN "read"
  ELSE IF st = "wait" THEN "wait"
  ELSE IF st = "read" /\ b = ESC THEN "esc"
  ELSE IF Len(fr) >= MaxFrame THEN "wait" ELSE "read"
FrameAfter(st, fr, b) ==
  IF b = FLAG THEN <<>>
  ELSE IF st = "wait" \/ (st = "read" /\ b = ESC) THEN fr
  ELSE IF Len(fr) >= MaxFrame THEN <<>> ELSE Append(fr, IF st = "esc" THEN Masked[b] ELSE b)
OutAfter(st, fr, o, b) ==
  IF b = FLAG /\ st \in {"read", "esc"} /\ fr # <<>> THEN Append(o, fr) ELSE o

LEMMA StreamConstants ==
  /\ MaxFrame \in Nat /\ MaxFrame > 0 /\ MaxNetbuf \in Nat /\ Window \in Nat
  /\ Sessions \in Seq(Seq(Seq(Bytes))) /\ Len(Sessions) \in Nat /\ 1 \in 1 .. Len(Sessions)
<1>1. MaxFrame \in Nat \ {0} /\ MaxNetbuf \in Nat \ {0} /\ Window \in Nat \ {0}
  BY StreamAssumption
<1>2. Sessions \in Seq(Seq(Seq(Bytes))) /\ Len(Sessions) > 0
  BY StreamAssumption
<1>3. Len(Sessions) \in Nat
  BY <1>2
<1>4. 1 \in 1 .. Len(Sessions)
  BY <1>2, <1>3
<1> QED
  BY <1>1, <1>2, <1>3, <1>4

\* Where frame k is in the stream of the frames ps.
LEMMA FrameAt ==
  ASSUME NEW ps \in Seq(Seq(Bytes)), NEW k \in 1 .. Len(ps),
         NEW h, h = FlattenSeq(FramesOf(ps)), NEW e, e = Escape(ps[k])
  PROVE  /\ Begin(ps, k - 1) \in Nat /\ Len(e) \in Nat
         /\ Begin(ps, k) = Begin(ps, k - 1) + Len(e) + 2
         /\ Begin(ps, k) <= Len(h)
         /\ h[Begin(ps, k - 1) + 1] = FLAG
         /\ h[Begin(ps, k - 1) + Len(e) + 2] = FLAG
         /\ LiesIn(e, h, Begin(ps, k - 1) + 1)
<1>1. PICK q : q = FramesOf(ps)
  OBVIOUS
<1>2. PICK f : f = Encode(ps[k])
  OBVIOUS
<1>3. q \in Seq(Seq(Bytes)) /\ k \in 1 .. Len(q) /\ q[k] = f
  BY <1>1, <1>2, FramesType
<1>4. ps[k] \in Seq(Bytes)
  OBVIOUS
<1>5. /\ Len(f) = Len(e) + 2 /\ Len(e) \in Nat /\ f[1] = FLAG /\ f[Len(e) + 2] = FLAG
      /\ \A i \in 1 .. Len(e) : f[i + 1] = e[i]
  BY <1>2, <1>4, EncodeType
<1>6. /\ Len(Pre(q, k)) = Len(Pre(q, k - 1)) + Len(q[k])
      /\ LiesIn(q[k], FlattenSeq(q), Len(Pre(q, k - 1)))
  BY <1>3, JoinAt
<1>7. PICK c : c = Begin(ps, k - 1)
  OBVIOUS
<1>8. Begin(ps, k) = c + Len(f) /\ LiesIn(f, h, c)
  BY <1>1, <1>3, <1>6, <1>7 DEF Begin
<1>9. c \in Nat /\ c + Len(f) <= Len(h) /\ \A i \in 1 .. Len(f) : h[c + i] = f[i]
  BY <1>8 DEF LiesIn
<1>10. /\ 1 \in 1 .. Len(f) /\ Len(e) + 2 \in 1 .. Len(f) /\ c + (Len(e) + 2) = c + Len(e) + 2
       /\ \A i \in 1 .. Len(e) : i + 1 \in 1 .. Len(f) /\ c + (i + 1) = c + 1 + i
  BY <1>5, <1>9
<1>11. /\ h[c + 1] = FLAG /\ h[c + Len(e) + 2] = FLAG
       /\ \A i \in 1 .. Len(e) : h[c + 1 + i] = e[i]
  <2>1. h[c + 1] = FLAG
    BY <1>5, <1>9, <1>10
  <2>2. h[c + (Len(e) + 2)] = f[Len(e) + 2]
    BY <1>9, <1>10
  <2>3. \A i \in 1 .. Len(e) : h[c + (i + 1)] = f[i + 1]
    BY <1>9, <1>10
  <2>4. \A i \in 1 .. Len(e) : h[c + 1 + i] = e[i]
    BY <1>5, <1>10, <2>3
  <2> QED
    BY <1>5, <1>10, <2>1, <2>2, <2>4
<1>12. Begin(ps, k) = c + Len(e) + 2 /\ Begin(ps, k) <= Len(h)
  BY <1>5, <1>8, <1>9
<1>13. LiesIn(e, h, c + 1)
  <2>1. c + 1 \in Nat /\ c + 1 + Len(e) <= Len(h)
    BY <1>5, <1>9
  <2> QED
    BY <1>5, <1>11, <2>1 DEF LiesIn
<1> QED
  BY <1>5, <1>7, <1>9, <1>11, <1>12, <1>13

LEMMA StreamEnds ==
  ASSUME NEW ps \in Seq(Seq(Bytes))
  PROVE  /\ Begin(ps, 0) = 0 /\ Begin(ps, Len(ps)) = Len(FlattenSeq(FramesOf(ps)))
         /\ Kept(ps, 0) = <<>> /\ Kept(ps, Len(ps)) = FlattenSeq(FitsOf(ps))
         /\ FlattenSeq(FramesOf(ps)) \in Seq(Bytes)
         /\ FlattenSeq(FitsOf(ps)) \in Seq(Seq(Bytes))
<1>1. PICK q : q = FramesOf(ps)
  OBVIOUS
<1>2. q \in Seq(Seq(Bytes)) /\ Len(q) = Len(ps)
  BY <1>1, FramesType
<1>3. Pre(q, 0) = <<>> /\ Pre(q, Len(q)) = FlattenSeq(q)
  BY <1>2, PreRec
<1>4. PICK r : r = FitsOf(ps)
  OBVIOUS
<1>5. r \in Seq(Seq(Seq(Bytes))) /\ Len(r) = Len(ps)
  BY <1>4, FitsType
<1>6. Pre(r, 0) = <<>> /\ Pre(r, Len(r)) = FlattenSeq(r)
  BY <1>5, PreRec
<1>7. Len(<<>>) = 0 /\ Len(ps) \in Nat
  OBVIOUS
<1>8. Len(ps) \in 0 .. Len(q) /\ Len(ps) \in 0 .. Len(r)
  BY <1>2, <1>5, <1>7
<1>9. FlattenSeq(q) \in Seq(Bytes)
  BY <1>2, <1>3, <1>8, PreType
<1>10. FlattenSeq(r) \in Seq(Seq(Bytes))
  BY <1>5, <1>6, <1>8, PreType
<1>11. Begin(ps, 0) = 0 /\ Begin(ps, Len(ps)) = Len(FlattenSeq(q))
  BY <1>1, <1>2, <1>3, <1>7 DEF Begin
<1>12. Kept(ps, 0) = <<>> /\ Kept(ps, Len(ps)) = FlattenSeq(r)
  BY <1>4, <1>5, <1>6 DEF Kept
<1> QED
  BY <1>1, <1>4, <1>9, <1>10, <1>11, <1>12

LEMMA EscapeEnds ==
  ASSUME NEW p \in Seq(Bytes)
  PROVE  /\ Before(p, 0) = 0 /\ Before(p, Len(p)) = Len(Escape(p))
         /\ \A j \in 0 .. Len(p) : Before(p, j) \in Nat /\ Before(p, j) <= Len(Escape(p))
<1>1. PICK q : q = EscapesOf(p)
  OBVIOUS
<1>2. q \in Seq(Seq(Bytes)) /\ Len(q) = Len(p) /\ Escape(p) = FlattenSeq(q)
  BY <1>1, EscapesType
<1>3. Pre(q, 0) = <<>> /\ Pre(q, Len(q)) = FlattenSeq(q)
  BY <1>2, PreRec
<1>4. Len(<<>>) = 0 /\ Len(p) \in Nat
  OBVIOUS
<1>5. Before(p, 0) = 0 /\ Before(p, Len(p)) = Len(Escape(p))
  BY <1>1, <1>2, <1>3, <1>4 DEF Before
<1>6. ASSUME NEW j \in 0 .. Len(p)
      PROVE  Before(p, j) \in Nat /\ Before(p, j) <= Len(Escape(p))
  <2>1. j \in 0 .. Len(q) /\ Len(q) \in 0 .. Len(q)
    BY <1>2, <1>4
  <2>2. Pre(q, j) \in Seq(Bytes)
    BY <1>2, <2>1, PreType
  <2>3. Len(Pre(q, j)) \in Nat
    BY <2>2
  <2>4. Begins(Pre(q, j), Pre(q, Len(q)))
    BY <1>2, <2>1, PreBegins
  <2> QED
    BY <1>1, <1>2, <1>3, <2>3, <2>4 DEF Begins, Before
<1> QED
  BY <1>5, <1>6

\* A payload is handed on when it fits the frame buffer and is not empty.
LEMMA KeptStep ==
  ASSUME NEW ps \in Seq(Seq(Bytes)), NEW k \in 1 .. Len(ps)
  PROVE  /\ Kept(ps, k - 1) \in Seq(Seq(Bytes))
         /\ Kept(ps, k) = IF Len(ps[k]) \in 1 .. MaxFrame THEN Append(Kept(ps, k - 1), ps[k])
                                                          ELSE Kept(ps, k - 1)
<1>1. PICK r : r = FitsOf(ps)
  OBVIOUS
<1>2. r \in Seq(Seq(Seq(Bytes))) /\ Len(r) = Len(ps) /\ r[k] = Fitting(ps[k])
  BY <1>1, FitsType
<1>3. \A i \in 1 .. Len(r) : Pre(r, i) = Pre(r, i - 1) \o r[i]
  BY <1>2, PreRec
<1>4. k \in 1 .. Len(r) /\ k - 1 \in 0 .. Len(r)
  BY <1>2
<1>5. PICK o : o = Kept(ps, k - 1)
  OBVIOUS
<1>6. o \in Seq(Seq(Bytes))
  BY <1>1, <1>2, <1>4, <1>5, PreType DEF Kept
<1>7. Kept(ps, k) = o \o Fitting(ps[k])
  BY <1>1, <1>2, <1>3, <1>4, <1>5 DEF Kept
<1>8. PICK p \in Seq(Bytes) : p = ps[k]
  OBVIOUS
<1>9. o \o <<p>> = Append(o, p) /\ o \o <<>> = o
  BY <1>6
<1>10. CASE Len(p) \in 1 .. MaxFrame
  <2>1. Fitting(ps[k]) = <<p>>
    BY <1>8, <1>10 DEF Fitting
  <2> QED
    BY <1>5, <1>6, <1>7, <1>8, <1>9, <1>10, <2>1
<1>11. CASE ~ (Len(p) \in 1 .. MaxFrame)
  <2>1. Fitting(ps[k]) = <<>>
    BY <1>8, <1>11 DEF Fitting
  <2> QED
    BY <1>5, <1>6, <1>7, <1>8, <1>9, <1>11, <2>1
<1> QED
  BY <1>10, <1>11

NextAt(ps, n, st, fr, o, b) ==
  At(ps, n + 1, StateAfter(st, fr, b), FrameAfter(st, fr, b), OutAfter(st, fr, o, b))

\* A frame begins.
LEMMA BetweenStep ==
  ASSUME NEW ps \in Seq(Seq(Bytes)), NEW h, h = FlattenSeq(FramesOf(ps)),
         NEW n \in Nat, n < Len(h), NEW st, NEW fr, NEW o,
         NEW k \in 0 .. Len(ps), Between(ps, n, k, st, fr, o)
  PROVE  NextAt(ps, n, st, fr, o, h[n + 1])
<1>0. Len(ps) \in Nat /\ n = Begin(ps, k) /\ fr = <<>> /\ o = Kept(ps, k)
  BY DEF Between
<1>1. k # Len(ps)
  <2>1. Begin(ps, Len(ps)) = Len(h)
    BY StreamEnds
  <2> QED
    BY <1>0, <2>1
<1>2. PICK m : m = k + 1
  OBVIOUS
<1>3. m \in 1 .. Len(ps) /\ m - 1 = k
  BY <1>0, <1>1, <1>2
<1>4. PICK p \in Seq(Bytes) : p = ps[m]
  BY <1>3
<1>5. h[n + 1] = FLAG
  BY <1>0, <1>3, FrameAt
<1>6. Before(p, 0) = 0 /\ SubSeq(p, 1, 0) = <<>> /\ 0 \in 0 .. Len(p) /\ 0 <= MaxFrame
  BY EscapeEnds, StreamConstants
<1>7. Inside(ps, n + 1, m, 0, "read", <<>>, o)
  <2>1. n + 1 = Begin(ps, m - 1) + 1 + Before(ps[m], 0)
    BY <1>0, <1>3, <1>4, <1>6
  <2> QED
    BY <1>0, <1>3, <1>4, <1>6, <2>1 DEF Inside
<1>8. At(ps, n + 1, "read", <<>>, o)
  BY <1>3, <1>4, <1>6, <1>7 DEF At
<1>9. /\ StateAfter(st, fr, FLAG) = "read" /\ FrameAfter(st, fr, FLAG) = <<>>
      /\ OutAfter(st, fr, o, FLAG) = o
  BY <1>0 DEF StateAfter, FrameAfter, OutAfter
<1> QED
  BY <1>5, <1>8, <1>9 DEF NextAt

\* The first j bytes of a payload, and one more.
LEMMA OneMore ==
  ASSUME NEW p \in Seq(Bytes), NEW j \in 0 .. Len(p)
  PROVE  /\ SubSeq(p, 1, j) \in Seq(Bytes) /\ Len(SubSeq(p, 1, j)) = j
         /\ j < Len(p) => SubSeq(p, 1, j + 1) = Append(SubSeq(p, 1, j), p[j + 1])
         /\ j = Len(p) => SubSeq(p, 1, j) = p
<1>1. SubSeq(p, 1, j) \in Seq(Bytes) /\ Len(SubSeq(p, 1, j)) = j
  OBVIOUS
<1>2. j = Len(p) => SubSeq(p, 1, j) = p
  BY SubSeqFull
<1>3. ASSUME j < Len(p) PROVE SubSeq(p, 1, j + 1) = Append(SubSeq(p, 1, j), p[j + 1])
  <2>1. PICK m : m = j + 1
    OBVIOUS
  <2>2. m \in 1 .. Len(p) /\ m - 1 = j
    BY <1>3, <2>1
  <2>3. SubSeq(p, 1, m) = Append(SubSeq(p, 1, m - 1), p[m])
    BY <2>2, SubSeqRecursiveSecond
  <2> QED
    BY <2>1, <2>2, <2>3
<1> QED
  BY <1>1, <1>2, <1>3

\* A payload's next byte comes, or the ESC before it.
LEMMA InsideStep ==
  ASSUME NEW ps \in Seq(Seq(Bytes)), NEW h, h = FlattenSeq(FramesOf(ps)),
         NEW n \in Nat, NEW st, NEW fr, NEW o,
         NEW k \in 1 .. Len(ps), NEW j \in 0 .. Len(ps[k]), j < Len(ps[k]),
         Inside(ps, n, k, j, st, fr, o)
  PROVE  NextAt(ps, n, st, fr, o, h[n + 1])
<1>0. PICK p \in Seq(Bytes) : p = ps[k]
  OBVIOUS
<1>1. PICK e : e = Escape(p)
  OBVIOUS
<1>2. PICK c : c = Begin(ps, k - 1)
  OBVIOUS
<1>3. PICK d : d = Before(p, j)
  OBVIOUS
<1>4. /\ c \in Nat /\ Len(e) \in Nat
      /\ \A i \in 1 .. Len(e) : h[c + 1 + i] = e[i]
  <2>1. c \in Nat /\ LiesIn(e, h, c + 1)
    BY <1>0, <1>1, <1>2, FrameAt
  <2> QED
    BY <2>1 DEF LiesIn
<1>5. /\ n = c + 1 + d /\ o = Kept(ps, k - 1)
      /\ IF j <= MaxFrame THEN st = "read" /\ fr = SubSeq(p, 1, j) ELSE st = "wait" /\ fr = <<>>
  BY <1>0, <1>2, <1>3 DEF Inside
<1>6. /\ d \in Nat /\ Before(p, j + 1) <= Len(e)
      /\ p[j + 1] \in {FLAG, ESC} => e[d + 1] = ESC /\ Before(p, j + 1) = d + 2
      /\ p[j + 1] \notin {FLAG, ESC} => e[d + 1] = p[j + 1] /\ Before(p, j + 1) = d + 1
  BY <1>0, <1>1, <1>3, EscapeAt
<1>7. h[n + 1] = e[d + 1]
  <2>1. d + 1 \in 1 .. Len(e)
    BY <1>4, <1>6
  <2>2. n + 1 = c + 1 + (d + 1)
    BY <1>4, <1>5, <1>6
  <2> QED
    BY <1>4, <2>1, <2>2
<1>8. j \in Nat /\ j + 1 \in 0 .. Len(p) /\ Len(p) \in Nat /\ MaxFrame \in Nat /\ j < Len(p)
  BY <1>0, StreamConstants
<1>9. /\ SubSeq(p, 1, j) \in Seq(Bytes) /\ Len(SubSeq(p, 1, j)) = j
      /\ SubSeq(p, 1, j + 1) = Append(SubSeq(p, 1, j), p[j + 1])
  BY <1>0, <1>8, OneMore
<1>10. CASE p[j + 1] \in {FLAG, ESC}
  <2>1. h[n + 1] = ESC /\ ESC # FLAG
    BY <1>6, <1>7, <1>10, ByteFacts
  <2>2. n + 1 = c + 2 + d
    BY <1>4, <1>5, <1>6
  <2>3. CASE j <= MaxFrame
    <3>1. st = "read" /\ fr = SubSeq(p, 1, j)
      BY <1>5, <2>3
    <3>2. Escaping(ps, n + 1, k, j, "esc", fr, o)
      BY <1>0, <1>2, <1>3, <1>5, <1>8, <1>10, <2>2, <2>3, <3>1 DEF Escaping
    <3>3. StateAfter(st, fr, ESC) = "esc" /\ FrameAfter(st, fr, ESC) = fr /\ OutAfter(st, fr, o, ESC) = o
      BY <2>1, <3>1 DEF StateAfter, FrameAfter, OutAfter
    <3>4. At(ps, n + 1, "esc", fr, o)
      BY <3>2 DEF At
    <3> QED
      BY <2>1, <3>3, <3>4 DEF NextAt
  <2>4. CASE ~ (j <= MaxFrame)
    <3>1. st = "wait" /\ fr = <<>>
      BY <1>5, <2>4
    <3>2. Escaping(ps, n + 1, k, j, "wait", <<>>, o)
      BY <1>0, <1>2, <1>3, <1>5, <1>8, <1>10, <2>2, <2>4, <3>1 DEF Escaping
    <3>3. StateAfter(st, fr, ESC) = "wait" /\ FrameAfter(st, fr, ESC) = <<>> /\ OutAfter(st, fr, o, ESC) = o
      BY <2>1, <3>1 DEF StateAfter, FrameAfter, OutAfter
    <3>4. At(ps, n + 1, "wait", <<>>, o)
      BY <3>2 DEF At
    <3> QED
      BY <2>1, <3>3, <3>4 DEF NextAt
  <2> QED
    BY <2>3, <2>4
<1>11. CASE p[j + 1] \notin {FLAG, ESC}
  <2>1. PICK b : b = p[j + 1]
    OBVIOUS
  <2>2. h[n + 1] = b /\ b # FLAG /\ b # ESC
    BY <1>6, <1>7, <1>11, <2>1
  <2>3. n + 1 = c + 1 + Before(p, j + 1)
    BY <1>4, <1>5, <1>6, <1>11
  <2>4. PICK m : m = j + 1
    OBVIOUS
  <2>5. m \in 0 .. Len(ps[k]) /\ n + 1 = Begin(ps, k - 1) + 1 + Before(ps[k], m)
    BY <1>0, <1>2, <1>8, <2>3, <2>4
  <2>6. CASE j < MaxFrame
    <3>1. st = "read" /\ fr = SubSeq(p, 1, j) /\ Len(fr) = j /\ ~ (Len(fr) >= MaxFrame)
      BY <1>5, <1>8, <1>9, <2>6
    <3>2. m <= MaxFrame /\ SubSeq(ps[k], 1, m) = Append(fr, b)
      BY <1>0, <1>8, <1>9, <2>1, <2>4, <2>6, <3>1
    <3>3. Inside(ps, n + 1, k, m, "read", Append(fr, b), o)
      BY <1>2, <1>5, <2>5, <3>2 DEF Inside
    <3>4. /\ StateAfter(st, fr, b) = "read" /\ FrameAfter(st, fr, b) = Append(fr, b)
          /\ OutAfter(st, fr, o, b) = o
      BY <2>2, <3>1 DEF StateAfter, FrameAfter, OutAfter
    <3>5. At(ps, n + 1, "read", Append(fr, b), o)
      BY <2>5, <3>3 DEF At
    <3> QED
      BY <2>2, <3>4, <3>5 DEF NextAt
  <2>7. CASE ~ (j < MaxFrame)
    <3>1. ~ (m <= MaxFrame)
      BY <1>8, <2>4, <2>7
    <3>2. Inside(ps, n + 1, k, m, "wait", <<>>, o)
      BY <1>2, <1>5, <2>5, <3>1 DEF Inside
    <3>3. At(ps, n + 1, "wait", <<>>, o)
      BY <2>5, <3>2 DEF At
    <3>4. /\ StateAfter(st, fr, b) = "wait" /\ FrameAfter(st, fr, b) = <<>>
          /\ OutAfter(st, fr, o, b) = o
      <4>1. CASE j = MaxFrame
        <5>1. st = "read" /\ Len(fr) >= MaxFrame
          BY <1>5, <1>8, <1>9, <4>1
        <5> QED
          BY <2>2, <5>1 DEF StateAfter, FrameAfter, OutAfter
      <4>2. CASE j # MaxFrame
        <5>1. st = "wait" /\ fr = <<>>
          BY <1>5, <1>8, <2>7, <4>2
        <5> QED
          BY <2>2, <5>1 DEF StateAfter, FrameAfter, OutAfter
      <4> QED
        BY <4>1, <4>2
    <3> QED
      BY <2>2, <3>3, <3>4 DEF NextAt
  <2> QED
    BY <2>6, <2>7
<1> QED
  BY <1>10, <1>11

\* The FLAG comes that ends frame k.
LEMMA EndStep ==
  ASSUME NEW ps \in Seq(Seq(Bytes)), NEW h, h = FlattenSeq(FramesOf(ps)),
         NEW n \in Nat, NEW st, NEW fr, NEW o,
         NEW k \in 1 .. Len(ps), Inside(ps, n, k, Len(ps[k]), st, fr, o)
  PROVE  NextAt(ps, n, st, fr, o, h[n + 1])
<1>0. PICK p \in Seq(Bytes) : p = ps[k]
  OBVIOUS
<1>1. PICK e : e = Escape(p)
  OBVIOUS
<1>2. PICK c : c = Begin(ps, k - 1)
  OBVIOUS
<1>3. /\ c \in Nat /\ Len(e) \in Nat /\ Begin(ps, k) = c + Len(e) + 2
      /\ h[c + Len(e) + 2] = FLAG
  BY <1>0, <1>1, <1>2, FrameAt
<1>4. Before(p, Len(p)) = Len(e)
  BY <1>1, EscapeEnds
<1>5. /\ n = c + 1 + Len(e) /\ o = Kept(ps, k - 1)
      /\ IF Len(p) <= MaxFrame THEN st = "read" /\ fr = SubSeq(p, 1, Len(p)) ELSE st = "wait" /\ fr = <<>>
  BY <1>0, <1>2, <1>4 DEF Inside
<1>6. n + 1 = Begin(ps, k) /\ h[n + 1] = FLAG
  <2>1. n + 1 = c + Len(e) + 2
    BY <1>3, <1>5
  <2> QED
    BY <1>3, <2>1
<1>7. Len(p) \in Nat /\ MaxFrame \in Nat /\ SubSeq(p, 1, Len(p)) = p /\ (p = <<>> <=> Len(p) = 0)
  BY StreamConstants, SubSeqFull, EmptySeq
<1>8. Kept(ps, k) = IF Len(p) \in 1 .. MaxFrame THEN Append(o, p) ELSE o
  BY <1>0, <1>5, KeptStep
<1>9. OutAfter(st, fr, o, FLAG) = Kept(ps, k)
  <2>1. CASE Len(p) \in 1 .. MaxFrame
    <3>1. st = "read" /\ fr = p /\ p # <<>>
      BY <1>5, <1>7, <2>1
    <3> QED
      BY <1>8, <2>1, <3>1 DEF OutAfter
  <2>2. CASE Len(p) \notin 1 .. MaxFrame
    <3>1. Len(p) = 0 \/ ~ (Len(p) <= MaxFrame)
      BY <1>7, <2>2
    <3>2. fr = <<>>
      BY <1>5, <1>7, <3>1
    <3> QED
      BY <1>8, <2>2, <3>2 DEF OutAfter
  <2> QED
    BY <2>1, <2>2
<1>10. StateAfter(st, fr, FLAG) = "read" /\ FrameAfter(st, fr, FLAG) = <<>>
  BY DEF StateAfter, FrameAfter
<1>11. k \in 0 .. Len(ps) /\ k # 0
  OBVIOUS
<1>12. Between(ps, n + 1, k, "read", <<>>, Kept(ps, k))
  BY <1>6, <1>11 DEF Between
<1>13. At(ps, n + 1, "read", <<>>, Kept(ps, k))
  BY <1>11, <1>12 DEF At
<1> QED
  BY <1>6, <1>9, <1>10, <1>13 DEF NextAt

\* The byte after ESC comes.
LEMMA EscapingStep ==
  ASSUME NEW ps \in Seq(Seq(Bytes)), NEW h, h = FlattenSeq(FramesOf(ps)),
         NEW n \in Nat, NEW st, NEW fr, NEW o,
         NEW k \in 1 .. Len(ps), NEW j \in 0 .. Len(ps[k]), Escaping(ps, n, k, j, st, fr, o)
  PROVE  NextAt(ps, n, st, fr, o, h[n + 1])
<1>0. PICK p \in Seq(Bytes) : p = ps[k]
  OBVIOUS
<1>1. PICK e : e = Escape(p)
  OBVIOUS
<1>2. PICK c : c = Begin(ps, k - 1)
  OBVIOUS
<1>3. PICK d : d = Before(p, j)
  OBVIOUS
<1>4. /\ c \in Nat /\ Len(e) \in Nat
      /\ \A i \in 1 .. Len(e) : h[c + 1 + i] = e[i]
  <2>1. c \in Nat /\ LiesIn(e, h, c + 1)
    BY <1>0, <1>1, <1>2, FrameAt
  <2> QED
    BY <2>1 DEF LiesIn
<1>5. /\ n = c + 2 + d /\ o = Kept(ps, k - 1) /\ j < Len(p) /\ p[j + 1] \in {FLAG, ESC}
      /\ IF j <= MaxFrame THEN st = "esc" /\ fr = SubSeq(p, 1, j) ELSE st = "wait" /\ fr = <<>>
  BY <1>0, <1>2, <1>3 DEF Escaping
<1>6. /\ d \in Nat /\ Before(p, j + 1) <= Len(e)
      /\ e[d + 2] = Masked[p[j + 1]] /\ Before(p, j + 1) = d + 2
  BY <1>0, <1>1, <1>3, <1>5, EscapeAt
<1>7. h[n + 1] = e[d + 2]
  <2>1. d + 2 \in 1 .. Len(e)
    BY <1>4, <1>6
  <2>2. n + 1 = c + 1 + (d + 2)
    BY <1>4, <1>5, <1>6
  <2> QED
    BY <1>4, <2>1, <2>2
<1>8. j \in Nat /\ j + 1 \in 0 .. Len(p) /\ Len(p) \in Nat /\ MaxFrame \in Nat /\ j \in 0 .. Len(p)
  BY <1>0, <1>5, StreamConstants
<1>9. /\ SubSeq(p, 1, j) \in Seq(Bytes) /\ Len(SubSeq(p, 1, j)) = j
      /\ SubSeq(p, 1, j + 1) = Append(SubSeq(p, 1, j), p[j + 1])
  BY <1>5, <1>8, OneMore
<1>10. PICK b : b = h[n + 1]
  OBVIOUS
<1>11. b # FLAG /\ Masked[b] = p[j + 1]
  <2>1. PICK x : x = p[j + 1]
    OBVIOUS
  <2>2. x \in {FLAG, ESC} /\ b = Masked[x]
    BY <1>5, <1>6, <1>7, <1>10, <2>1
  <2> QED
    BY <2>1, <2>2, ByteFacts
<1>12. PICK m : m = j + 1
  OBVIOUS
<1>13. m \in 0 .. Len(ps[k]) /\ n + 1 = Begin(ps, k - 1) + 1 + Before(ps[k], m)
  <2>1. n + 1 = c + 1 + Before(p, j + 1)
    BY <1>4, <1>5, <1>6
  <2>2. m \in 0 .. Len(p) /\ n + 1 = c + 1 + Before(p, m)
    BY <1>8, <1>12, <2>1
  <2> QED
    BY <1>0, <1>2, <2>2
<1>14. CASE j < MaxFrame
  <2>1. st = "esc" /\ fr = SubSeq(p, 1, j) /\ ~ (Len(fr) >= MaxFrame)
    BY <1>5, <1>8, <1>9, <1>14
  <2>2. m <= MaxFrame /\ SubSeq(ps[k], 1, m) = Append(fr, Masked[b])
    BY <1>0, <1>8, <1>9, <1>11, <1>12, <1>14, <2>1
  <2>3. Inside(ps, n + 1, k, m, "read", Append(fr, Masked[b]), o)
    BY <1>5, <1>13, <2>2 DEF Inside
  <2>4. /\ StateAfter(st, fr, b) = "read" /\ FrameAfter(st, fr, b) = Append(fr, Masked[b])
        /\ OutAfter(st, fr, o, b) = o
    BY <1>11, <2>1 DEF StateAfter, FrameAfter, OutAfter
  <2>5. At(ps, n + 1, "read", Append(fr, Masked[b]), o)
    BY <1>13, <2>3 DEF At
  <2> QED
    BY <1>10, <2>4, <2>5 DEF NextAt
<1>15. CASE ~ (j < MaxFrame)
  <2>1. ~ (m <= MaxFrame)
    BY <1>8, <1>12, <1>15
  <2>2. Inside(ps, n + 1, k, m, "wait", <<>>, o)
    BY <1>5, <1>13, <2>1 DEF Inside
  <2>3. At(ps, n + 1, "wait", <<>>, o)
    BY <1>13, <2>2 DEF At
  <2>4. /\ StateAfter(st, fr, b) = "wait" /\ FrameAfter(st, fr, b) = <<>>
        /\ OutAfter(st, fr, o, b) = o
    <3>1. CASE j = MaxFrame
      <4>1. st = "esc" /\ Len(fr) >= MaxFrame
        BY <1>5, <1>8, <1>9, <3>1
      <4> QED
        BY <1>11, <4>1 DEF StateAfter, FrameAfter, OutAfter
    <3>2. CASE j # MaxFrame
      <4>1. st = "wait" /\ fr = <<>>
        BY <1>5, <1>8, <1>15, <3>2
      <4> QED
        BY <1>11, <4>1 DEF StateAfter, FrameAfter, OutAfter
    <3> QED
      BY <3>1, <3>2
  <2> QED
    BY <1>10, <2>3, <2>4 DEF NextAt
<1> QED
  BY <1>14, <1>15

\* One byte takes the decoder from where it is after n bytes to where it is
\* after n + 1.
LEMMA AtStep ==
  ASSUME NEW ps \in Seq(Seq(Bytes)), NEW h, h = FlattenSeq(FramesOf(ps)),
         NEW n \in Nat, n < Len(h), NEW st, NEW fr, NEW o, At(ps, n, st, fr, o)
  PROVE  NextAt(ps, n, st, fr, o, h[n + 1])
<1>1. ASSUME NEW k \in 0 .. Len(ps), Between(ps, n, k, st, fr, o)
      PROVE  NextAt(ps, n, st, fr, o, h[n + 1])
  BY <1>1, BetweenStep
<1>2. ASSUME NEW k \in 1 .. Len(ps), NEW j \in 0 .. Len(ps[k]), Inside(ps, n, k, j, st, fr, o)
      PROVE  NextAt(ps, n, st, fr, o, h[n + 1])
  <2>1. CASE j < Len(ps[k])
    BY <1>2, <2>1, InsideStep
  <2>2. CASE ~ (j < Len(ps[k]))
    <3>1. ps[k] \in Seq(Bytes)
      OBVIOUS
    <3>2. Len(ps[k]) \in Nat
      BY <3>1
    <3>3. j = Len(ps[k])
      BY <2>2, <3>2
    <3> QED
      BY <1>2, <3>3, EndStep
  <2> QED
    BY <2>1, <2>2
<1>3. ASSUME NEW k \in 1 .. Len(ps), NEW j \in 0 .. Len(ps[k]), Escaping(ps, n, k, j, st, fr, o)
      PROVE  NextAt(ps, n, st, fr, o, h[n + 1])
  BY <1>3, EscapingStep
<1> QED
  BY <1>1, <1>2, <1>3 DEF At

LEMMA AtKept ==
  ASSUME NEW ps \in Seq(Seq(Bytes)), NEW n, NEW st, NEW fr, NEW o, At(ps, n, st, fr, o)
  PROVE  \E k \in 0 .. Len(ps) : o = Kept(ps, k)
<1>1. \A k \in 1 .. Len(ps) : k - 1 \in 0 .. Len(ps)
  OBVIOUS
<1> QED
  BY <1>1 DEF At, Between, Inside, Escaping

\* What was handed on are the first of the payloads that fit.
LEMMA AtPrefix ==
  ASSUME NEW ps \in Seq(Seq(Bytes)), NEW n, NEW st, NEW fr, NEW o, At(ps, n, st, fr, o)
  PROVE  IsPrefix(o, FlattenSeq(FitsOf(ps)))
<1>1. PICK k \in 0 .. Len(ps) : o = Kept(ps, k)
  BY AtKept
<1>2. PICK r : r = FitsOf(ps)
  OBVIOUS
<1>3. r \in Seq(Seq(Seq(Bytes))) /\ Len(r) = Len(ps)
  BY <1>2, FitsType
<1>4. Len(r) \in 0 .. Len(r) /\ k \in 0 .. Len(r)
  BY <1>3
<1>5. PICK t : t = FlattenSeq(r)
  OBVIOUS
<1>6. t = Pre(r, Len(r)) /\ o = Pre(r, k)
  BY <1>1, <1>2, <1>3, <1>5, PreRec DEF Kept
<1>7. t \in Seq(Seq(Bytes)) /\ o \in Seq(Seq(Bytes))
  BY <1>3, <1>4, <1>6, PreType
<1>8. Begins(o, t)
  BY <1>3, <1>4, <1>6, PreBegins
<1>9. Len(o) \in Nat /\ Len(t) \in Nat /\ Len(o) <= Len(t) /\ \A i \in 1 .. Len(o) : t[i] = o[i]
  BY <1>7, <1>8 DEF Begins
<1>10. SubSeq(o, 1, Len(o)) = o
  BY <1>7, SubSeqFull
<1>11. PICK u : u = SubSeq(t, 1, Len(o))
  OBVIOUS
<1>12. u \in Seq(Seq(Bytes)) /\ Len(u) = Len(o) /\ \A i \in 1 .. Len(o) : u[i] = t[i]
  BY <1>7, <1>9, <1>11
<1>13. u = o
  BY <1>7, <1>9, <1>12, SeqEqual
<1> QED
  BY <1>2, <1>5, <1>9, <1>10, <1>11, <1>13 DEF IsPrefix

\* At the end of the stream every payload that fits was handed on.
LEMMA AtEnd ==
  ASSUME NEW ps \in Seq(Seq(Bytes)), NEW h, h = FlattenSeq(FramesOf(ps)),
         NEW st, NEW fr, NEW o, At(ps, Len(h), st, fr, o)
  PROVE  o = FlattenSeq(FitsOf(ps))
<1>0. Len(ps) \in Nat /\ Begin(ps, Len(ps)) = Len(h) /\ Kept(ps, Len(ps)) = FlattenSeq(FitsOf(ps))
  BY StreamEnds
<1>1. ASSUME NEW k \in 0 .. Len(ps), Between(ps, Len(h), k, st, fr, o) PROVE o = FlattenSeq(FitsOf(ps))
  <2>1. Len(h) = Begin(ps, k) /\ o = Kept(ps, k)
    BY <1>1 DEF Between
  <2>2. CASE k = Len(ps)
    BY <1>0, <2>1, <2>2
  <2>3. CASE k # Len(ps)
    <3>1. PICK m : m = k + 1
      OBVIOUS
    <3>2. m \in 1 .. Len(ps) /\ m - 1 = k
      BY <1>0, <2>3, <3>1
    <3>3. PICK e : e = Escape(ps[m])
      OBVIOUS
    <3>4. Begin(ps, k) \in Nat /\ Len(e) \in Nat /\ Begin(ps, m) = Begin(ps, k) + Len(e) + 2 /\ Begin(ps, m) <= Len(h)
      BY <3>2, <3>3, FrameAt
    <3> QED
      BY <2>1, <3>4
  <2> QED
    BY <2>2, <2>3
<1>2. ASSUME NEW k \in 1 .. Len(ps), NEW j \in 0 .. Len(ps[k]),
             Inside(ps, Len(h), k, j, st, fr, o) \/ Escaping(ps, Len(h), k, j, st, fr, o)
      PROVE  FALSE
  <2>1. PICK p \in Seq(Bytes) : p = ps[k]
    OBVIOUS
  <2>2. PICK e : e = Escape(p)
    OBVIOUS
  <2>3. PICK c : c = Begin(ps, k - 1)
    OBVIOUS
  <2>4. c \in Nat /\ Len(e) \in Nat /\ Begin(ps, k) = c + Len(e) + 2 /\ Begin(ps, k) <= Len(h)
    BY <2>1, <2>2, <2>3, FrameAt
  <2>5. Before(p, j) \in Nat /\ Before(p, j) <= Len(e)
    BY <2>1, <2>2, EscapeEnds
  <2>6. CASE Inside(ps, Len(h), k, j, st, fr, o)
    <3>1. Len(h) = c + 1 + Before(p, j)
      BY <2>1, <2>3, <2>6 DEF Inside
    <3> QED
      BY <2>4, <2>5, <3>1
  <2>7. CASE Escaping(ps, Len(h), k, j, st, fr, o)
    <3>1. Len(h) = c + 2 + Before(p, j) /\ j < Len(p) /\ p[j + 1] \in {FLAG, ESC}
      BY <2>1, <2>3, <2>7 DEF Escaping
    <3>2. Before(p, j + 1) <= Len(e) /\ Before(p, j + 1) = Before(p, j) + 2
      BY <2>1, <2>2, <3>1, EscapeAt
    <3> QED
      BY <2>4, <2>5, <3>1, <3>2
  <2> QED
    BY <1>2, <2>6, <2>7
<1> QED
  BY <1>1, <1>2 DEF At

-----------------------------------------------------------------------------
(* The way in: the inductive invariant. *)

Netbufs == {q \in Seq(Seq(Bytes)) : Len(q) <= 2 /\ \A c \in 1 .. Len(q) : Len(q[c]) > 0}

\* The bytes of netbuf q before its chunk c.
Offset(q, c) == CASE c = 1 -> 0 [] c = 2 -> Len(q[1]) [] c = 3 -> Len(q[1]) + Len(q[2])
Size(q) == Offset(q, Len(q) + 1)

\* Netbuf q holds bytes of stream h from position a on.
HeldAt(q, h, a) == \A c \in 1 .. Len(q) : LiesIn(q[c], h, a + Offset(q, c))

\* The decoder is where it is after n bytes; a frame it holds counts as handed on.
Decoded(n) ==
  IF held THEN At(Sessions[session], n, "read", <<>>, Append(out, frame))
          ELSE At(Sessions[session], n, state, frame, out)

\* The netbuf in hand, the one to be received and the bytes not yet sent are the rest
\* of the host's stream, from position a on, and the decoder is where the cursor is.
Placed(a) ==
  LET h == HostStream(session)
      r == a + Size(nb)
      w == r + Size(rcvq)
  IN  /\ HeldAt(nb, h, a) /\ HeldAt(rcvq, h, r)
      /\ LiesIn(wire, h, w) /\ w + Len(wire) = Len(h)
      /\ Decoded(a + Offset(nb, chunk) + ofs)

StreamInv ==
  /\ session \in 1 .. Len(Sessions)
  /\ wire \in Seq(Bytes) /\ nb \in Netbufs /\ rcvq \in Netbufs
  /\ chunk \in 1 .. Len(nb) + 1 /\ ofs \in Nat
  /\ IF chunk <= Len(nb) THEN ofs < Len(nb[chunk]) ELSE ofs = 0
  /\ pc = "recv" => nb = <<>>
  /\ held \in BOOLEAN
  /\ \E a \in Nat : Placed(a)

LEMMA NetbufFacts ==
  ASSUME NEW q \in Netbufs
  PROVE  /\ q \in Seq(Seq(Bytes)) /\ Len(q) \in Nat /\ Len(q) <= 2
         /\ \A c \in 1 .. Len(q) : q[c] \in Seq(Bytes) /\ Len(q[c]) \in Nat /\ Len(q[c]) > 0
         /\ Offset(q, 1) = 0 /\ Size(q) \in Nat /\ Size(q) = Offset(q, Len(q) + 1)
         /\ \A c \in 1 .. Len(q) + 1 : Offset(q, c) \in Nat
         /\ \A c \in 1 .. Len(q) : Offset(q, c + 1) = Offset(q, c) + Len(q[c])
<1>1. q \in Seq(Seq(Bytes)) /\ Len(q) <= 2 /\ \A c \in 1 .. Len(q) : Len(q[c]) > 0
  BY DEF Netbufs
<1>2. Len(q) \in Nat /\ \A c \in 1 .. Len(q) : q[c] \in Seq(Bytes)
  BY <1>1
<1>3. \A c \in 1 .. Len(q) : Len(q[c]) \in Nat
  BY <1>2
<1>4. PICK l \in Nat : l = Len(q)
  BY <1>2
<1>5. l = 0 \/ l = 1 \/ l = 2
  BY <1>1, <1>4
<1>6. Offset(q, 1) = 0
  BY DEF Offset
<1>7. \A c \in 1 .. l : Offset(q, c + 1) = Offset(q, c) + Len(q[c])
  <2> SUFFICES ASSUME NEW c \in 1 .. l PROVE Offset(q, c + 1) = Offset(q, c) + Len(q[c])
    OBVIOUS
  <2>1. c = 1 \/ c = 2
    BY <1>5
  <2>2. CASE c = 1
    <3>1. c + 1 = 2 /\ Len(q[1]) \in Nat
      BY <1>3, <1>4, <2>2
    <3>2. Offset(q, 2) = Len(q[1])
      BY DEF Offset
    <3> QED
      BY <1>6, <2>2, <3>1, <3>2
  <2>3. CASE c = 2
    <3>1. c + 1 = 3
      BY <2>3
    <3>2. Offset(q, 2) = Len(q[1]) /\ Offset(q, 3) = Len(q[1]) + Len(q[2])
      BY DEF Offset
    <3> QED
      BY <2>3, <3>1, <3>2
  <2> QED
    BY <2>1, <2>2, <2>3
<1>8. \A c \in 1 .. l + 1 : Offset(q, c) \in Nat
  <2> SUFFICES ASSUME NEW c \in 1 .. l + 1 PROVE Offset(q, c) \in Nat
    OBVIOUS
  <2>1. CASE c = 1
    BY <1>6, <2>1
  <2>2. CASE c = 2
    <3>1. 1 \in 1 .. l
      BY <1>5, <2>2
    <3>2. Offset(q, 2) = Len(q[1])
      BY DEF Offset
    <3>3. Len(q[1]) \in Nat
      BY <1>3, <1>4, <3>1
    <3> QED
      BY <2>2, <3>2, <3>3
  <2>3. CASE c = 3
    <3>1. 1 \in 1 .. l /\ 2 \in 1 .. l
      BY <1>5, <2>3
    <3>2. Len(q[1]) \in Nat /\ Len(q[2]) \in Nat
      BY <1>3, <1>4, <3>1
    <3>3. Offset(q, 3) = Len(q[1]) + Len(q[2])
      BY DEF Offset
    <3>4. PICK x \in Nat : x = Len(q[1])
      BY <3>2
    <3>5. PICK y \in Nat : y = Len(q[2])
      BY <3>2
    <3>6. x + y \in Nat
      OBVIOUS
    <3> QED
      BY <2>3, <3>3, <3>4, <3>5, <3>6
  <2> QED
    BY <1>5, <2>1, <2>2, <2>3
<1>9. Size(q) = Offset(q, l + 1) /\ l + 1 \in 1 .. l + 1
  BY <1>4 DEF Size
<1> QED
  BY <1>1, <1>2, <1>3, <1>4, <1>6, <1>7, <1>8, <1>9

LEMMA NoNetbuf ==
  /\ <<>> \in Netbufs /\ Len(<<>>) = 0 /\ Size(<<>>) = 0
  /\ \A h, a : HeldAt(<<>>, h, a)
<1>1. Len(<<>>) = 0 /\ <<>> \in Seq(Seq(Bytes))
  OBVIOUS
<1>2. \A c \in 1 .. 0 : FALSE
  OBVIOUS
<1> QED
  BY <1>1, <1>2 DEF Netbufs, Size, Offset, HeldAt

LEMMA HostStreamType ==
  ASSUME NEW s \in 1 .. Len(Sessions)
  PROVE  /\ Sessions[s] \in Seq(Seq(Bytes))
         /\ HostStream(s) = FlattenSeq(FramesOf(Sessions[s]))
         /\ HostStream(s) \in Seq(Bytes)
<1>1. Sessions[s] \in Seq(Seq(Bytes))
  BY StreamConstants
<1>2. HostStream(s) = FlattenSeq(FramesOf(Sessions[s]))
  BY DEF HostStream, FramesOf
<1> QED
  BY <1>1, <1>2, StreamEnds

\* A connection begins at the beginning of its host's stream.
LEMMA AtStart ==
  ASSUME NEW s \in 1 .. Len(Sessions)
  PROVE  At(Sessions[s], 0, "wait", <<>>, <<>>)
<1>1. PICK ps \in Seq(Seq(Bytes)) : ps = Sessions[s]
  BY HostStreamType
<1>2. Begin(ps, 0) = 0 /\ Kept(ps, 0) = <<>>
  BY StreamEnds
<1>3. 0 \in 0 .. Len(ps)
  OBVIOUS
<1>4. Between(ps, 0, 0, "wait", <<>>, <<>>)
  BY <1>2 DEF Between
<1> QED
  BY <1>1, <1>3, <1>4 DEF At

-----------------------------------------------------------------------------
(* The steps of the way in. *)

LEMMA InitStream ==
  ASSUME StreamInit
  PROVE  StreamInv
<1>1. /\ session = 1 /\ wire = HostStream(1) /\ rcvq = <<>> /\ nb = <<>> /\ chunk = 1 /\ ofs = 0
      /\ state = "wait" /\ frame = <<>> /\ held = FALSE /\ pc = "top" /\ out = <<>>
  BY DEF StreamInit
<1>2. PICK h : h = HostStream(1)
  OBVIOUS
<1>3. h \in Seq(Bytes)
  BY <1>2, StreamConstants, HostStreamType
<1>4. Len(h) \in Nat
  BY <1>3
<1>5. LiesIn(h, h, 0)
  BY <1>4 DEF LiesIn
<1>6. Decoded(0)
  BY <1>1, StreamConstants, AtStart DEF Decoded
<1>7. Size(nb) = 0 /\ Size(rcvq) = 0 /\ Offset(nb, chunk) = 0 /\ Len(nb) = 0
  BY <1>1, NoNetbuf, NetbufFacts
<1>8. HeldAt(nb, h, 0) /\ HeldAt(rcvq, h, 0)
  BY <1>1, NoNetbuf
<1>9. 0 + Size(nb) = 0 /\ 0 + Size(nb) + Size(rcvq) = 0 /\ 0 + Offset(nb, chunk) + ofs = 0
  BY <1>1, <1>7
<1>10. Placed(0)
  BY <1>1, <1>2, <1>4, <1>5, <1>6, <1>8, <1>9 DEF Placed
<1>11. wire \in Seq(Bytes) /\ nb \in Netbufs /\ rcvq \in Netbufs /\ held \in BOOLEAN
  BY <1>1, <1>2, <1>3, NoNetbuf
<1> QED
  BY <1>1, <1>7, <1>10, <1>11, StreamConstants DEF StreamInv

\* Steps that move no byte.
LEMMA QuietStream ==
  ASSUME StreamInv, UNCHANGED <<session, wire, rcvq, nb, chunk, ofs>>,
         pc' = "recv" => nb = <<>>, held' \in BOOLEAN, \A n : Decoded(n) => Decoded(n)'
  PROVE  StreamInv'
<1>1. PICK a \in Nat : Placed(a)
  BY DEF StreamInv
<1>2. Placed(a)'
  BY <1>1 DEF Placed
<1> QED
  BY <1>2 DEF StreamInv

\* The host sends a netbuf.
LEMMA SendStream ==
  ASSUME StreamInv, HostSend
  PROVE  StreamInv'
<1>1. /\ rcvq = <<>>
      /\ UNCHANGED <<session, state, frame, held, nb, chunk, ofs, pc, out>>
  BY DEF HostSend, decoder, cursor
<1>0. PICK k \in 1 .. MaxNetbuf : \E j \in 1 .. k :
        /\ k <= Len(wire)
        /\ rcvq' = IF j = k THEN << SubSeq(wire, 1, k) >>
                            ELSE << SubSeq(wire, 1, j), SubSeq(wire, j + 1, k) >>
        /\ wire' = SubSeq(wire, k + 1, Len(wire))
  BY DEF HostSend
<1>2. PICK j \in 1 .. k :
        /\ k <= Len(wire)
        /\ rcvq' = IF j = k THEN << SubSeq(wire, 1, k) >>
                            ELSE << SubSeq(wire, 1, j), SubSeq(wire, j + 1, k) >>
        /\ wire' = SubSeq(wire, k + 1, Len(wire))
  BY <1>0
<1>3. PICK a \in Nat : Placed(a)
  BY DEF StreamInv
<1>4. PICK h : h = HostStream(session)
  OBVIOUS
<1>5. PICK r : r = a + Size(nb)
  OBVIOUS
<1>6. wire \in Seq(Bytes) /\ Size(nb) \in Nat /\ r \in Nat
  <2>1. wire \in Seq(Bytes) /\ nb \in Netbufs
    BY DEF StreamInv
  <2>2. Size(nb) \in Nat
    BY <2>1, NetbufFacts
  <2>3. r \in Nat
    BY <1>5, <2>2
  <2> QED
    BY <2>1, <2>2, <2>3
<1>7. /\ HeldAt(nb, h, a) /\ LiesIn(wire, h, r) /\ r + Len(wire) = Len(h)
      /\ Decoded(a + Offset(nb, chunk) + ofs)
  <2>1. Size(rcvq) = 0 /\ r + Size(rcvq) = r
    BY <1>1, <1>6, NoNetbuf
  <2> QED
    BY <1>3, <1>4, <1>5, <2>1 DEF Placed
<1>8. Len(wire) \in Nat /\ \A i \in 1 .. Len(wire) : h[r + i] = wire[i]
  BY <1>7 DEF LiesIn
<1>9. k \in Nat /\ j \in Nat /\ 1 <= j /\ j <= k /\ k <= Len(wire) /\ Len(h) \in Nat
  BY <1>2, <1>6, <1>7, <1>8, StreamConstants
<1>10. ASSUME NEW x \in Nat, NEW y \in Nat, x <= y, y <= Len(wire), NEW s, s = SubSeq(wire, x + 1, y)
       PROVE  s \in Seq(Bytes) /\ Len(s) = y - x /\ LiesIn(s, h, r + x)
  <2>1. s \in Seq(Bytes) /\ Len(s) = y - x /\ \A i \in 1 .. y - x : s[i] = wire[x + i]
    <3>0. \A i \in x + 1 .. y : i \in 1 .. Len(wire)
      BY <1>8, <1>10
    <3>1. x + 1 \in Int /\ y \in Int /\ \A i \in x + 1 .. y : wire[i] \in Bytes
      BY <1>6, <3>0
    <3>2. /\ SubSeq(wire, x + 1, y) \in Seq(Bytes)
          /\ Len(SubSeq(wire, x + 1, y)) = IF x + 1 <= y THEN y - (x + 1) + 1 ELSE 0
          /\ \A i \in 1 .. y - (x + 1) + 1 : SubSeq(wire, x + 1, y)[i] = wire[(x + 1) + i - 1]
      BY <3>1, SubSeqProperties
    <3>3. /\ y - (x + 1) + 1 = y - x /\ (IF x + 1 <= y THEN y - (x + 1) + 1 ELSE 0) = y - x
          /\ \A i \in 1 .. y - x : (x + 1) + i - 1 = x + i
      BY <1>10
    <3> QED
      BY <1>10, <3>2, <3>3
  <2>2. \A i \in 1 .. y - x : x + i \in 1 .. Len(wire) /\ r + (x + i) = (r + x) + i
    BY <1>6, <1>8, <1>10
  <2>3. \A i \in 1 .. y - x : h[(r + x) + i] = s[i]
    BY <1>8, <2>1, <2>2
  <2>4. r + x \in Nat /\ y - x \in Nat /\ (r + x) + (y - x) <= Len(h)
    BY <1>6, <1>7, <1>8, <1>10
  <2>5. LiesIn(s, h, r + x)
    BY <2>1, <2>3, <2>4 DEF LiesIn
  <2> QED
    BY <2>1, <2>5
<1>11. wire' \in Seq(Bytes) /\ LiesIn(wire', h, r + k) /\ r + k + Len(wire') = Len(h)
  <2>1. PICK y \in Nat : y = Len(wire)
    BY <1>8
  <2>2. k <= y /\ y <= Len(wire) /\ wire' = SubSeq(wire, k + 1, y)
    BY <1>2, <1>9, <2>1
  <2>3. wire' \in Seq(Bytes) /\ Len(wire') = y - k /\ LiesIn(wire', h, r + k)
    BY <1>9, <1>10, <2>2
  <2>4. r + y = Len(h) /\ Len(wire') = y - k
    BY <1>7, <2>1, <2>3
  <2>5. r + k + Len(wire') = Len(h)
    BY <1>6, <1>9, <2>4
  <2> QED
    BY <2>3, <2>5
<1>12. rcvq' \in Netbufs /\ Size(rcvq') = k /\ HeldAt(rcvq', h, r)
  <2>1. CASE j = k
    <3>1. PICK s : s = SubSeq(wire, 1, k)
      OBVIOUS
    <3>2. s \in Seq(Bytes) /\ Len(s) = k /\ LiesIn(s, h, r)
      <4>1. 0 \in Nat /\ 0 + 1 = 1 /\ 0 <= k /\ k - 0 = k /\ r + 0 = r
        BY <1>6, <1>9
      <4>2. s \in Seq(Bytes) /\ Len(s) = k - 0 /\ LiesIn(s, h, r + 0)
        BY <1>9, <1>10, <3>1, <4>1
      <4> QED
        BY <4>1, <4>2
    <3>3. PICK q : q = <<s>>
      OBVIOUS
    <3>4. q \in Seq(Seq(Bytes)) /\ Len(q) = 1 /\ q[1] = s /\ \A c \in 1 .. Len(q) : c = 1
      BY <3>2, <3>3
    <3>5. q \in Netbufs
      <4>1. Len(q) <= 2 /\ \A c \in 1 .. Len(q) : Len(q[c]) > 0
        BY <1>9, <3>2, <3>4
      <4> QED
        BY <3>4, <4>1 DEF Netbufs
    <3>6. Offset(q, 1) = 0 /\ Offset(q, 2) = Len(q[1])
      BY DEF Offset
    <3>7. Size(q) = k
      BY <3>2, <3>4, <3>6 DEF Size
    <3>8. HeldAt(q, h, r)
      <4>1. r + Offset(q, 1) = r
        BY <1>6, <3>6
      <4> QED
        BY <3>2, <3>4, <4>1 DEF HeldAt
    <3> QED
      BY <1>2, <2>1, <3>1, <3>3, <3>5, <3>7, <3>8
  <2>2. CASE j # k
    <3>1. PICK s, t : s = SubSeq(wire, 1, j) /\ t = SubSeq(wire, j + 1, k)
      OBVIOUS
    <3>2. s \in Seq(Bytes) /\ Len(s) = j /\ LiesIn(s, h, r)
      <4>1. 0 \in Nat /\ 0 + 1 = 1 /\ 0 <= j /\ j <= Len(wire) /\ j - 0 = j /\ r + 0 = r
        BY <1>6, <1>8, <1>9
      <4>2. s \in Seq(Bytes) /\ Len(s) = j - 0 /\ LiesIn(s, h, r + 0)
        BY <1>9, <1>10, <3>1, <4>1
      <4> QED
        BY <4>1, <4>2
    <3>3. t \in Seq(Bytes) /\ Len(t) = k - j /\ LiesIn(t, h, r + j)
      BY <1>9, <1>10, <3>1
    <3>4. PICK q : q = <<s, t>>
      OBVIOUS
    <3>5. /\ q \in Seq(Seq(Bytes)) /\ Len(q) = 2 /\ q[1] = s /\ q[2] = t
          /\ \A c \in 1 .. Len(q) : c = 1 \/ c = 2
      BY <3>2, <3>3, <3>4
    <3>6. Len(s) > 0 /\ Len(t) > 0 /\ Len(s) + Len(t) = k
      BY <1>9, <2>2, <3>2, <3>3
    <3>7. q \in Netbufs
      <4>1. Len(q) <= 2 /\ \A c \in 1 .. Len(q) : Len(q[c]) > 0
        BY <3>5, <3>6
      <4> QED
        BY <3>5, <4>1 DEF Netbufs
    <3>8. Offset(q, 1) = 0 /\ Offset(q, 2) = Len(q[1]) /\ Offset(q, 3) = Len(q[1]) + Len(q[2])
      BY DEF Offset
    <3>9. Size(q) = k
      BY <3>5, <3>6, <3>8 DEF Size
    <3>10. HeldAt(q, h, r)
      <4>1. r + Offset(q, 1) = r /\ r + Offset(q, 2) = r + j
        BY <1>6, <3>2, <3>5, <3>8
      <4> QED
        BY <3>2, <3>3, <3>5, <4>1 DEF HeldAt
    <3> QED
      BY <1>2, <2>2, <3>1, <3>4, <3>7, <3>9, <3>10
  <2> QED
    BY <2>1, <2>2
<1>13. Decoded(a + Offset(nb, chunk) + ofs)'
  BY <1>1, <1>7 DEF Decoded
<1>14. Placed(a)'
  BY <1>1, <1>4, <1>5, <1>7, <1>11, <1>12, <1>13 DEF Placed
<1> QED
  BY <1>1, <1>11, <1>12, <1>14 DEF StreamInv

\* The cursor moves on by one byte.
LEMMA CursorNext ==
  ASSUME StreamInv, chunk <= Len(nb), Advance
  PROVE  /\ nb' = nb /\ chunk' \in 1 .. Len(nb') + 1 /\ ofs' \in Nat
         /\ IF chunk' <= Len(nb') THEN ofs' < Len(nb'[chunk']) ELSE ofs' = 0
         /\ Offset(nb', chunk') + ofs' = Offset(nb, chunk) + ofs + 1
<1>1. nb \in Netbufs /\ chunk \in 1 .. Len(nb) + 1 /\ ofs \in Nat /\ ofs < Len(nb[chunk])
  BY DEF StreamInv
<1>2. Len(nb) \in Nat
  BY <1>1, NetbufFacts
<1>3. chunk \in 1 .. Len(nb) /\ chunk + 1 \in 1 .. Len(nb) + 1
  BY <1>1, <1>2
<1>4. /\ Len(nb[chunk]) \in Nat /\ Offset(nb, chunk) \in Nat
      /\ Offset(nb, chunk + 1) = Offset(nb, chunk) + Len(nb[chunk])
  BY <1>1, <1>3, NetbufFacts
<1>5. nb' = nb
  BY DEF Advance
<1>6. CASE ofs + 1 >= Len(nb[chunk])
  <2>1. chunk' = chunk + 1 /\ ofs' = 0
    BY <1>6 DEF Advance
  <2>2. ofs + 1 = Len(nb[chunk])
    BY <1>1, <1>4, <1>6
  <2>3. chunk + 1 <= Len(nb) => 0 < Len(nb[chunk + 1])
    <3>1. chunk + 1 <= Len(nb) => chunk + 1 \in 1 .. Len(nb)
      BY <1>2, <1>3
    <3> QED
      BY <1>1, <3>1, NetbufFacts
  <2>4. Offset(nb, chunk + 1) + 0 = Offset(nb, chunk) + ofs + 1
    BY <1>1, <1>4, <2>2
  <2> QED
    BY <1>3, <1>5, <2>1, <2>3, <2>4
<1>7. CASE ~ (ofs + 1 >= Len(nb[chunk]))
  <2>1. chunk' = chunk /\ ofs' = ofs + 1
    BY <1>7 DEF Advance
  <2>2. ofs + 1 \in Nat /\ ofs + 1 < Len(nb[chunk])
    BY <1>1, <1>4, <1>7
  <2>3. Offset(nb, chunk) + (ofs + 1) = Offset(nb, chunk) + ofs + 1
    BY <1>1, <1>4
  <2> QED
    BY <1>1, <1>5, <2>1, <2>2, <2>3
<1> QED
  BY <1>6, <1>7

\* The byte at the cursor is the next one of the host's stream.
LEMMA ByteAtCursor ==
  ASSUME StreamInv, chunk <= Len(nb), ~held, NEW a \in Nat, Placed(a),
         NEW n, n = a + Offset(nb, chunk) + ofs
  PROVE  n \in Nat /\ NextAt(Sessions[session], n, state, frame, out, nb[chunk][ofs + 1])
<1>1. /\ nb \in Netbufs /\ chunk \in 1 .. Len(nb) + 1 /\ ofs \in Nat /\ ofs < Len(nb[chunk])
      /\ session \in 1 .. Len(Sessions)
  BY DEF StreamInv
<1>2. Len(nb) \in Nat
  BY <1>1, NetbufFacts
<1>3. chunk \in 1 .. Len(nb)
  BY <1>1, <1>2
<1>4. PICK f : f = Offset(nb, chunk)
  OBVIOUS
<1>5. PICK v : v = nb[chunk]
  OBVIOUS
<1>6. f \in Nat /\ Len(v) \in Nat
  BY <1>1, <1>3, <1>4, <1>5, NetbufFacts
<1>7. PICK h : h = HostStream(session)
  OBVIOUS
<1>8. PICK ps : ps = Sessions[session]
  OBVIOUS
<1>9. ps \in Seq(Seq(Bytes)) /\ h = FlattenSeq(FramesOf(ps)) /\ h \in Seq(Bytes)
  BY <1>1, <1>7, <1>8, HostStreamType
<1>10. HeldAt(nb, h, a) /\ At(ps, n, state, frame, out)
  BY <1>7, <1>8 DEF Placed, Decoded
<1>11. LiesIn(v, h, a + f)
  BY <1>3, <1>4, <1>5, <1>10 DEF HeldAt
<1>12. a + f + Len(v) <= Len(h) /\ \A i \in 1 .. Len(v) : h[a + f + i] = v[i]
  BY <1>11 DEF LiesIn
<1>13. PICK m : m = ofs + 1
  OBVIOUS
<1>14. Len(h) \in Nat
  BY <1>9
<1>15. m \in 1 .. Len(v) /\ n \in Nat /\ n + 1 = a + f + m /\ n < Len(h)
  <2>1. ofs \in Nat /\ ofs < Len(v) /\ n = a + f + ofs
    BY <1>1, <1>4, <1>5
  <2>2. PICK l \in Nat : l = Len(v)
    BY <1>6
  <2>3. PICK g \in Nat : g = Len(h)
    BY <1>14
  <2>4. a + f + l <= g /\ ofs < l
    BY <1>12, <2>1, <2>2, <2>3
  <2>5. m \in 1 .. l /\ n \in Nat /\ n + 1 = a + f + m /\ n < g
    BY <1>6, <1>13, <2>1, <2>4
  <2> QED
    BY <2>2, <2>3, <2>5
<1>16. h[n + 1] = v[m]
  BY <1>12, <1>15
<1>17. NextAt(ps, n, state, frame, out, h[n + 1])
  BY <1>9, <1>10, <1>15, AtStep
<1> QED
  BY <1>5, <1>8, <1>13, <1>15, <1>16, <1>17

\* Steps that feed the decoder one byte.
LEMMA FeedStream ==
  ASSUME StreamInv, chunk <= Len(nb), ~held, Advance, UNCHANGED <<session, wire, rcvq>>,
         pc' # "recv", held' \in BOOLEAN,
         \A n \in Nat : NextAt(Sessions[session], n, state, frame, out, nb[chunk][ofs + 1])
                          => Decoded(n + 1)'
  PROVE  StreamInv'
<1>1. PICK a \in Nat : Placed(a)
  BY DEF StreamInv
<1>2. PICK n : n = a + Offset(nb, chunk) + ofs
  OBVIOUS
<1>3. n \in Nat /\ NextAt(Sessions[session], n, state, frame, out, nb[chunk][ofs + 1])
  BY <1>1, <1>2, ByteAtCursor
<1>4. Decoded(n + 1)'
  BY <1>3
<1>5. /\ nb' = nb /\ chunk' \in 1 .. Len(nb') + 1 /\ ofs' \in Nat
      /\ IF chunk' <= Len(nb') THEN ofs' < Len(nb'[chunk']) ELSE ofs' = 0
      /\ Offset(nb', chunk') + ofs' = Offset(nb, chunk) + ofs + 1
  BY CursorNext
<1>6. n + 1 = a + Offset(nb', chunk') + ofs'
  <2>1. nb \in Netbufs /\ chunk \in 1 .. Len(nb) + 1 /\ ofs \in Nat
    BY DEF StreamInv
  <2>2. Offset(nb, chunk) \in Nat
    BY <2>1, NetbufFacts
  <2>3. nb' \in Netbufs
    BY <1>5, <2>1
  <2>4. Offset(nb', chunk') \in Nat
    BY <1>5, <2>3, NetbufFacts
  <2>5. PICK x \in Nat : x = Offset(nb, chunk)
    BY <2>2
  <2>6. PICK y \in Nat : y = Offset(nb', chunk')
    BY <2>4
  <2>7. PICK z \in Nat : z = ofs
    BY <2>1
  <2>8. PICK u \in Nat : u = ofs'
    BY <1>5
  <2>9. n = a + x + z /\ y + u = x + z + 1
    BY <1>2, <1>5, <2>5, <2>6, <2>7, <2>8
  <2>10. n + 1 = a + y + u
    BY <2>9
  <2> QED
    BY <2>6, <2>8, <2>10
<1>7. (Decoded(a + Offset(nb, chunk) + ofs))'
  BY <1>4, <1>6
<1>8. Placed(a)'
  BY <1>1, <1>5, <1>7 DEF Placed
<1> QED
  BY <1>5, <1>8 DEF StreamInv

LEMMA FeedByteStream ==
  ASSUME StreamInv, FeedByte
  PROVE  StreamInv'
<1>1. PICK b : b = nb[chunk][ofs + 1]
  OBVIOUS
<1>2. /\ chunk <= Len(nb) /\ ~held /\ Advance /\ UNCHANGED <<session, wire, rcvq>> /\ pc' # "recv"
      /\ IF b = FLAG THEN TakeFlag ELSE TakeByte(b)
  BY <1>1 DEF FeedByte, hostVars
<1>3. /\ held' = held /\ state' = StateAfter(state, frame, b)
      /\ frame' = FrameAfter(state, frame, b) /\ out' = OutAfter(state, frame, out, b)
  <2>1. CASE b = FLAG
    BY <1>2, <2>1 DEF TakeFlag, Taken, Complete, StateAfter, FrameAfter, OutAfter
  <2>2. CASE b # FLAG
    BY <1>2, <2>2 DEF TakeByte, StateAfter, FrameAfter, OutAfter
  <2> QED
    BY <2>1, <2>2
<1>4. \A n \in Nat : NextAt(Sessions[session], n, state, frame, out, b) => Decoded(n + 1)'
  BY <1>2, <1>3 DEF NextAt, Decoded
<1>5. held' \in BOOLEAN
  BY <1>3 DEF StreamInv
<1> QED
  BY <1>1, <1>2, <1>4, <1>5, FeedStream

\* A frame that is held counts as handed on.
LEMMA ThrottledStream ==
  ASSUME StreamInv, FeedThrottled
  PROVE  StreamInv'
<1>1. PICK b : b = nb[chunk][ofs + 1]
  OBVIOUS
<1>2. /\ chunk <= Len(nb) /\ ~held /\ Advance /\ UNCHANGED <<session, wire, rcvq>> /\ pc' # "recv"
      /\ b = FLAG /\ Complete /\ held' = TRUE /\ UNCHANGED <<frame, out>>
  BY <1>1 DEF FeedThrottled, HoldFrame, Throttled, hostVars
<1>3. /\ StateAfter(state, frame, b) = "read" /\ FrameAfter(state, frame, b) = <<>>
      /\ OutAfter(state, frame, out, b) = Append(out, frame)
  BY <1>2 DEF Complete, StateAfter, FrameAfter, OutAfter
<1>4. \A n \in Nat : NextAt(Sessions[session], n, state, frame, out, b) => Decoded(n + 1)'
  BY <1>2, <1>3 DEF NextAt, Decoded
<1>5. held' \in BOOLEAN
  BY <1>2
<1> QED
  BY <1>1, <1>2, <1>4, <1>5, FeedStream

\* The decoder is left alone, or its held frame is tried again.
LEMMA HeldStream ==
  ASSUME StreamInv, UNCHANGED <<session, wire, rcvq, nb, chunk, ofs>>, pc' = "recv" => nb = <<>>,
         \/ held /\ RetryTaken
         \/ UNCHANGED <<state, frame, held, out>>
  PROVE  StreamInv'
<1>1. CASE held /\ RetryTaken
  <2>1. held /\ held' = FALSE /\ state' = "read" /\ frame' = <<>> /\ out' = Append(out, frame)
    BY <1>1 DEF RetryTaken, Taken
  <2>2. \A n : Decoded(n) => Decoded(n)'
    BY <2>1 DEF Decoded
  <2>3. held' \in BOOLEAN
    BY <2>1
  <2> QED
    BY <2>2, <2>3, QuietStream
<1>2. CASE UNCHANGED <<state, frame, held, out>>
  <2>1. \A n : Decoded(n) => Decoded(n)'
    BY <1>2 DEF Decoded
  <2>2. held' \in BOOLEAN
    BY <1>2 DEF StreamInv
  <2> QED
    BY <2>1, <2>2, QuietStream
<1> QED
  BY <1>1, <1>2

\* A netbuf is consumed: what comes next begins where it ended.
LEMMA EndStream ==
  ASSUME StreamInv, FeedEnd
  PROVE  StreamInv'
<1>1. /\ chunk > Len(nb) /\ nb' = <<>> /\ chunk' = 1 /\ ofs' = 0 /\ pc' = "top"
      /\ UNCHANGED <<session, wire, rcvq, state, frame, held, out>>
  BY DEF FeedEnd, hostVars, decoder
<1>2. PICK a \in Nat : Placed(a)
  BY DEF StreamInv
<1>3. PICK r : r = a + Size(nb)
  OBVIOUS
<1>4. PICK h : h = HostStream(session)
  OBVIOUS
<1>5. Size(nb) \in Nat /\ Offset(nb, chunk) = Size(nb) /\ ofs = 0
  <2>1. nb \in Netbufs /\ chunk \in 1 .. Len(nb) + 1
    BY DEF StreamInv
  <2>2. Size(nb) \in Nat /\ Size(nb) = Offset(nb, Len(nb) + 1) /\ Len(nb) \in Nat
    BY <2>1, NetbufFacts
  <2>3. chunk = Len(nb) + 1 /\ ~ (chunk <= Len(nb))
    BY <1>1, <2>1, <2>2
  <2> QED
    BY <2>2, <2>3 DEF StreamInv
<1>6. r \in Nat /\ a + Offset(nb, chunk) + ofs = r
  BY <1>3, <1>5
<1>7. /\ HeldAt(rcvq, h, r) /\ LiesIn(wire, h, r + Size(rcvq)) /\ r + Size(rcvq) + Len(wire) = Len(h)
      /\ Decoded(r)
  BY <1>2, <1>3, <1>4, <1>6 DEF Placed
<1>8. Decoded(r)'
  BY <1>1, <1>7 DEF Decoded
<1>9. Size(nb') = 0 /\ Offset(nb', chunk') = 0 /\ Len(nb') = 0 /\ HeldAt(nb', h, r) /\ nb' \in Netbufs
  BY <1>1, NoNetbuf, NetbufFacts
<1>10. r + Size(nb') = r /\ r + Offset(nb', chunk') + ofs' = r
  BY <1>1, <1>6, <1>9
<1>11. Placed(r)'
  BY <1>1, <1>4, <1>7, <1>8, <1>9, <1>10 DEF Placed
<1>12. chunk' \in 1 .. Len(nb') + 1 /\ ofs' \in Nat /\ ~ (chunk' <= Len(nb')) /\ pc' # "recv"
  BY <1>1, <1>9
<1> QED
  BY <1>1, <1>6, <1>9, <1>11, <1>12 DEF StreamInv

\* The netbuf that waited is taken in hand.
LEMMA RecvStream ==
  ASSUME StreamInv, Recv
  PROVE  StreamInv'
<1>1. /\ pc = "recv" /\ nb' = rcvq /\ chunk' = 1 /\ ofs' = 0 /\ rcvq' = <<>> /\ pc' = "feed"
      /\ UNCHANGED <<session, wire, state, frame, held, out>>
  BY DEF Recv, hostVars, decoder
<1>2. PICK a \in Nat : Placed(a)
  BY DEF StreamInv
<1>3. PICK h : h = HostStream(session)
  OBVIOUS
<1>4. nb = <<>> /\ chunk \in 1 .. Len(nb) + 1 /\ rcvq \in Netbufs
  BY <1>1 DEF StreamInv
<1>5. Size(nb) = 0 /\ Len(nb) = 0 /\ nb \in Netbufs
  BY <1>4, NoNetbuf
<1>6. chunk = 1 /\ ofs = 0
  <2>1. chunk = 1 /\ ~ (chunk <= Len(nb))
    BY <1>4, <1>5
  <2> QED
    BY <2>1 DEF StreamInv
<1>7. Offset(nb, chunk) = 0
  BY <1>5, <1>6, NetbufFacts
<1>8. a + Size(nb) = a /\ a + Offset(nb, chunk) + ofs = a
  BY <1>5, <1>6, <1>7
<1>9. /\ HeldAt(rcvq, h, a) /\ LiesIn(wire, h, a + Size(rcvq)) /\ a + Size(rcvq) + Len(wire) = Len(h)
      /\ Decoded(a)
  BY <1>2, <1>3, <1>8 DEF Placed
<1>10. Decoded(a)'
  BY <1>1, <1>9 DEF Decoded
<1>11. PICK q : q = rcvq
  OBVIOUS
<1>12. q \in Netbufs /\ Size(q) \in Nat /\ Offset(q, 1) = 0 /\ Len(q) \in Nat
  BY <1>4, <1>11, NetbufFacts
<1>13. IF 1 <= Len(q) THEN 0 < Len(q[1]) ELSE TRUE
  <2>1. 1 <= Len(q) => 1 \in 1 .. Len(q)
    BY <1>12
  <2> QED
    BY <1>12, <2>1, NetbufFacts
<1>14. Size(rcvq') = 0 /\ HeldAt(rcvq', h, a + Size(q)) /\ rcvq' \in Netbufs
  BY <1>1, NoNetbuf
<1>15. a + Size(q) + Size(rcvq') = a + Size(q) /\ a + Offset(nb', chunk') + ofs' = a
  BY <1>1, <1>11, <1>12, <1>14
<1>16. nb' = q
  BY <1>1, <1>11
<1>17. Placed(a)'
  BY <1>1, <1>3, <1>9, <1>10, <1>11, <1>14, <1>15, <1>16 DEF Placed
<1>18. /\ chunk' \in 1 .. Len(nb') + 1 /\ ofs' \in Nat
       /\ IF chunk' <= Len(nb') THEN ofs' < Len(nb'[chunk']) ELSE ofs' = 0
  BY <1>1, <1>12, <1>13, <1>16
<1> QED
  BY <1>1, <1>12, <1>14, <1>16, <1>17, <1>18 DEF StreamInv

\* The next connection: nothing of the last one is left.
LEMMA ClientStream ==
  ASSUME StreamInv, NextClient
  PROVE  StreamInv'
<1>0. PICK s : s = session + 1
  OBVIOUS
<1>1. /\ session' = s /\ wire' = HostStream(s) /\ rcvq' = <<>> /\ nb' = <<>> /\ chunk' = 1 /\ ofs' = 0
      /\ state' = "wait" /\ frame' = <<>> /\ held' = FALSE /\ pc' = "top" /\ out' = <<>>
      /\ session < Len(Sessions)
  BY <1>0 DEF NextClient, session_reset
<1>2. s \in 1 .. Len(Sessions)
  BY <1>0, <1>1, StreamConstants DEF StreamInv
<1>3. PICK h : h = HostStream(s)
  OBVIOUS
<1>4. h \in Seq(Bytes)
  BY <1>2, <1>3, HostStreamType
<1>5. Len(h) \in Nat
  BY <1>4
<1>6. LiesIn(h, h, 0)
  BY <1>5 DEF LiesIn
<1>7. Decoded(0)'
  BY <1>1, <1>2, AtStart DEF Decoded
<1>8. Size(nb') = 0 /\ Size(rcvq') = 0 /\ Offset(nb', chunk') = 0 /\ Len(nb') = 0
  BY <1>1, NoNetbuf, NetbufFacts
<1>9. HeldAt(nb', h, 0) /\ HeldAt(rcvq', h, 0)
  BY <1>1, NoNetbuf
<1>10. 0 + Size(nb') = 0 /\ 0 + Size(nb') + Size(rcvq') = 0 /\ 0 + Offset(nb', chunk') + ofs' = 0
  BY <1>1, <1>8
<1>11. Placed(0)'
  BY <1>1, <1>3, <1>5, <1>6, <1>7, <1>9, <1>10 DEF Placed
<1>12. wire' \in Seq(Bytes) /\ nb' \in Netbufs /\ rcvq' \in Netbufs /\ held' \in BOOLEAN
  BY <1>1, <1>3, <1>4, NoNetbuf
<1> QED
  BY <1>1, <1>2, <1>8, <1>11, <1>12 DEF StreamInv

LEMMA StreamStep ==
  ASSUME StreamInv, [StreamNext]_streamVars
  PROVE  StreamInv'
<1> USE DEF hostVars, decoder, cursor
<1>0. pc = "recv" => nb = <<>>
  BY DEF StreamInv
<1>1. CASE HostSend
  BY <1>1, SendStream
<1>2. CASE HostClose
  BY <1>0, <1>2, HeldStream DEF HostClose
<1>3. CASE Ack
  BY <1>0, <1>3, HeldStream DEF Ack
<1>4. CASE FeedHeld
  <2>1. /\ UNCHANGED <<session, wire, rcvq, nb, chunk, ofs>> /\ pc' # "recv"
        /\ (held /\ RetryTaken) \/ UNCHANGED <<state, frame, held, out>>
    BY <1>4 DEF FeedHeld, Throttled
  <2> QED
    BY <2>1, HeldStream
<1>5. CASE FeedByte
  BY <1>5, FeedByteStream
<1>6. CASE FeedThrottled
  BY <1>6, ThrottledStream
<1>7. CASE FeedEnd
  BY <1>7, EndStream
<1>8. CASE LoopHeldNetbuf
  BY <1>8, HeldStream DEF LoopHeldNetbuf
<1>9. CASE LoopNotReady
  <2>1. /\ UNCHANGED <<session, wire, rcvq, nb, chunk, ofs>> /\ nb = <<>>
        /\ (held /\ RetryTaken) \/ UNCHANGED <<state, frame, held, out>>
    BY <1>9 DEF LoopNotReady, retry_held, Throttled
  <2> QED
    BY <2>1, HeldStream
<1>10. CASE LoopReady
  BY <1>10, HeldStream DEF LoopReady
<1>11. CASE Recv
  BY <1>11, RecvStream
<1>12. CASE RecvNothing
  BY <1>12, HeldStream DEF RecvNothing
<1>13. CASE NextClient
  BY <1>13, ClientStream
<1>14. CASE UNCHANGED streamVars
  BY <1>0, <1>14, HeldStream DEF streamVars
<1> QED
  BY <1>1, <1>2, <1>3, <1>4, <1>5, <1>6, <1>7, <1>8, <1>9, <1>10, <1>11, <1>12, <1>13, <1>14
  DEF StreamNext, Task

\* The netbuf in hand, the one that waits and what the host has not sent yet are
\* the rest of the host's stream, and the decoder with what it handed on is where
\* it must be after the bytes before it.
THEOREM StreamInvariance == StreamSpec => []StreamInv
<1>1. StreamInit => StreamInv
  BY InitStream
<1>2. StreamInv /\ [StreamNext]_streamVars => StreamInv'
  BY StreamStep
<1> QED
  BY <1>1, <1>2, PTL DEF StreamSpec

LEMMA ExpectedFits ==
  Expected = FlattenSeq(FitsOf(Sessions[session]))
BY DEF Expected, FitsOf

LEMMA DecodedOut ==
  ASSUME StreamInv, NEW n, Decoded(n)
  PROVE  \E st, fr : At(Sessions[session], n, st, fr, OutAndHeld)
BY DEF Decoded, OutAndHeld

\* tcp_server_feed_netbuf and the decoder behind it: for all payloads, every way TCP
\* cuts the stream and every throttling, the ACK layer gets the payloads that fit,
\* whole, in order, once each, and nothing of an earlier connection.
THEOREM WholeInOrderCorrect == StreamSpec => []WholeInOrder
<1>1. StreamInv => WholeInOrder
  <2> SUFFICES ASSUME StreamInv PROVE WholeInOrder
    OBVIOUS
  <2>1. PICK a \in Nat : Placed(a)
    BY DEF StreamInv
  <2>2. PICK n : n = a + Offset(nb, chunk) + ofs
    OBVIOUS
  <2>3. Decoded(n)
    BY <2>1, <2>2 DEF Placed
  <2>4. PICK st, fr : At(Sessions[session], n, st, fr, OutAndHeld)
    BY <2>3, DecodedOut
  <2>5. Sessions[session] \in Seq(Seq(Bytes))
    BY HostStreamType DEF StreamInv
  <2>6. IsPrefix(OutAndHeld, FlattenSeq(FitsOf(Sessions[session])))
    BY <2>4, <2>5, AtPrefix
  <2> QED
    BY <2>6, ExpectedFits DEF WholeInOrder
<1> QED
  BY <1>1, StreamInvariance, PTL

\* Once the host's bytes are all consumed, every payload that fits was handed on or
\* is the one frame rns_stream_decoder_retry_held still holds.
THEOREM NoneLostCorrect == StreamSpec => []NoneLost
<1>1. StreamInv => NoneLost
  <2> SUFFICES ASSUME StreamInv, wire = <<>>, rcvq = <<>>, nb = <<>>
               PROVE  OutAndHeld = Expected
    BY DEF NoneLost
  <2>1. PICK a \in Nat : Placed(a)
    BY DEF StreamInv
  <2>2. PICK h : h = HostStream(session)
    OBVIOUS
  <2>3. /\ Sessions[session] \in Seq(Seq(Bytes)) /\ h = FlattenSeq(FramesOf(Sessions[session]))
    BY <2>2, HostStreamType DEF StreamInv
  <2>4. Len(wire) = 0 /\ Size(rcvq) = 0 /\ Size(nb) = 0 /\ Len(nb) = 0 /\ nb \in Netbufs
    BY NoNetbuf
  <2>5. chunk = 1 /\ ofs = 0
    <3>1. chunk \in 1 .. Len(nb) + 1
      BY DEF StreamInv
    <3>2. chunk = 1 /\ ~ (chunk <= Len(nb))
      BY <2>4, <3>1
    <3> QED
      BY <3>2 DEF StreamInv
  <2>6. Offset(nb, chunk) = 0
    BY <2>4, <2>5, NetbufFacts
  <2>7. a + Size(nb) + Size(rcvq) + Len(wire) = Len(h) /\ Decoded(a + Offset(nb, chunk) + ofs)
    BY <2>1, <2>2 DEF Placed
  <2>8. a = Len(h) /\ a + Offset(nb, chunk) + ofs = a
    BY <2>4, <2>5, <2>6, <2>7
  <2>9. Decoded(Len(h))
    BY <2>7, <2>8
  <2>10. PICK st, fr : At(Sessions[session], Len(h), st, fr, OutAndHeld)
    BY <2>9, DecodedOut
  <2> QED
    BY <2>3, <2>10, AtEnd, ExpectedFits
<1> QED
  BY <1>1, StreamInvariance, PTL
=============================================================================
