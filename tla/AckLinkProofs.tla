---------------------------- MODULE AckLinkProofs ----------------------------
(***************************************************************************)
(* Proofs about the link between two nodes, for any window, shift width,   *)
(* number of bundles and order of arrival, whatever is restarted, reset or *)
(* evicted and however late a copy comes.                                  *)
(*                                                                         *)
(* The first section is about the sequence window alone. The types of the  *)
(* link, and that marks and ACKs stand for bundles that arrived until one  *)
(* comes so late that the receiver's shift leaves its word, hold under no  *)
(* condition on the constants. That the newest number stays asks that the  *)
(* numbers of the bundles and one window fit in the sequence space; that   *)
(* delivery is at most once, and that the link implements Delivery, that   *)
(* they fit in half of it (FewNumbers): a turn of the 16-bit counter later *)
(* the number of an old copy would be in use again.                        *)
(***************************************************************************)
EXTENDS AckLink, SequenceTheorems, TLAPS

-----------------------------------------------------------------------------
(* The sequence window (SeqWindow): for every window size, every width of the
   sequence numbers and every position, the wrap included. *)

\* Distances are sequence numbers themselves.
LEMMA SubType ==
  ASSUME NEW a \in Seqs, NEW b \in Seqs
  PROVE  Sub(a, b) \in Seqs
BY SeqAssumption DEF Seqs, Sub

LEMMA SubNat ==
  ASSUME NEW a \in Seqs, NEW b \in Seqs
  PROVE  Sub(a, b) \in Nat /\ Sub(a, b) < Mod /\ Sub(a, a) = 0
BY SeqAssumption DEF Seqs, Sub

\* Going there and back is going all the way round, or not at all.
LEMMA SubBack ==
  ASSUME NEW a \in Seqs, NEW b \in Seqs
  PROVE  a # b => Sub(a, b) > 0 /\ Sub(b, a) = Mod - Sub(a, b)
BY SeqAssumption DEF Seqs, Sub

\* Distances add up unless they go round.
LEMMA SubAdds ==
  ASSUME NEW a \in Seqs, NEW b \in Seqs, NEW c \in Seqs, Sub(a, b) + Sub(b, c) < Mod
  PROVE  Sub(a, c) = Sub(a, b) + Sub(b, c)
BY SeqAssumption DEF Seqs, Sub

\* The two ends of a distance: going back by it leads to the start.
LEMMA SubInverse ==
  ASSUME NEW a \in Seqs, NEW b \in Seqs, NEW d \in Seqs
  PROVE  Sub(a, b) = d <=> Sub(a, d) = b
BY SeqAssumption DEF Seqs, Sub

\* Counting from the base of an ACK or back from rx_seq_last is the same.
LEMMA BaseDistance ==
  ASSUME NEW last \in Seqs, NEW seq \in Seqs, NEW i \in Bits
  PROVE  Sub(seq, Sub(last, Win - 1)) = i <=> Sub(last, seq) = Win - 1 - i
BY SeqAssumption DEF Seqs, Bits, Sub

\* An ACK made by env_ack_capture_locked covers, at the sender, exactly the
\* sequence numbers the receiver has marked.
THEOREM CaptureExact ==
  ASSUME NEW w \in Windows, w.seen, NEW seq \in Seqs
  PROVE  Covers(Capture(w), seq) <=> Marked(w, seq)
<1>1. w.last \in Seqs /\ w.win \in SUBSET Bits
  BY DEF Windows
<1> DEFINE base == Sub(w.last, Win - 1)
<1>2. Covers(Capture(w), seq) <=> \E i \in Bits : Sub(seq, base) = i /\ Win - 1 - i \in w.win
  BY DEF Covers, Capture
<1>3. Marked(w, seq) <=> \E i \in Bits : Sub(w.last, seq) = Win - 1 - i /\ Win - 1 - i \in w.win
  <2>1. ASSUME Marked(w, seq)
        PROVE  \E i \in Bits : Sub(w.last, seq) = Win - 1 - i /\ Win - 1 - i \in w.win
    <3> DEFINE j == Sub(w.last, seq)
    <3>1. j \in w.win /\ j \in Bits
      BY <1>1, <2>1 DEF Marked
    <3>2. Win - 1 - j \in Bits /\ Win - 1 - (Win - 1 - j) = j
      BY <3>1, SeqAssumption DEF Bits
    <3> HIDE DEF j
    <3>3. j = Win - 1 - (Win - 1 - j) /\ Win - 1 - (Win - 1 - j) \in w.win
      BY <3>1, <3>2
    <3> QED
      BY <3>2, <3>3 DEF j
  <2> QED
    BY <2>1 DEF Marked
<1>4. \A i \in Bits : Sub(seq, base) = i <=> Sub(w.last, seq) = Win - 1 - i
  BY <1>1, BaseDistance
<1> QED
  BY <1>2, <1>3, <1>4

\* peer_rx_seq leaves a window behind whose newest number is marked, so a second
\* copy of the newest bundle is always recognised.
THEOREM RxSeqType ==
  ASSUME NEW w \in Windows, NEW seq \in Seqs, NEW x \in peer_rx_seq(w, seq),
         w.seen => 0 \in w.win
  PROVE  x \in Windows /\ x.seen /\ 0 \in x.win
<1>1. w.last \in Seqs /\ w.win \in SUBSET Bits /\ 0 \in Bits
  BY SeqAssumption DEF Windows, Bits
<1>2. CASE x = Resync(seq)
  BY <1>1, <1>2 DEF Resync, Windows
<1>3. CASE w.seen /\ x = w
  BY <1>3
<1>4. CASE w.seen /\ x = Forward(w, seq)
  BY <1>1, <1>4 DEF Forward, Windows
<1>5. CASE w.seen /\ Sub(w.last, seq) < Win /\ x \in LateMarks(w, Sub(w.last, seq))
  <2> DEFINE back == Sub(w.last, seq)
  <2>1. back \in Bits
    <3>1. back \in Seqs /\ back < Win
      BY <1>1, <1>5, SubType
    <3> HIDE DEF back
    <3> QED
      BY <3>1, SeqAssumption DEF Seqs, Bits
  <2>2. back % ShiftBits \in Bits
    <3>1. back \in Nat /\ ShiftBits \in Nat \ {0}
      BY <2>1, SeqAssumption DEF Bits
    <3>2. back % ShiftBits \in 0 .. ShiftBits - 1
      BY <3>1
    <3> QED
      BY <3>2, SeqAssumption DEF Bits
  <2>3. x = w \/ \E b \in Bits : x = [w EXCEPT !.win = @ \cup {b}]
    BY <1>5, <2>1, <2>2 DEF LateMarks
  <2> QED
    BY <1>1, <1>5, <2>3 DEF Windows
<1> QED
  BY <1>2, <1>3, <1>4, <1>5 DEF peer_rx_seq

\* While an arrival is not older than the part of the window the shift can
\* reach, peer_rx_seq marks it, forgets no number that is still in the window
\* and marks no other: an old bundle sent again never un-acks a newer one.
THEOREM RxSeqExact ==
  ASSUME NEW w \in Windows, w.seen, 0 \in w.win,
         NEW seq \in Seqs, NEW x \in peer_rx_seq(w, seq), NEW s \in Seqs,
         Sub(seq, w.last) < Win \/ Sub(w.last, seq) < ShiftBits
  PROVE  Marked(x, s) <=> s = seq \/ (Marked(w, s) /\ Sub(x.last, s) \in Bits)
<1> DEFINE fwd == Sub(seq, w.last)
           back == Sub(w.last, seq)
<1>1. w.last \in Seqs /\ w.win \in SUBSET Bits
  BY DEF Windows
<1>2. fwd \in Seqs /\ back \in Seqs
  BY <1>1, SubType
<1>3. CASE fwd = 0
  <2>1. x = w
    BY <1>3, SeqAssumption DEF peer_rx_seq
  <2>3. seq = w.last
    BY <1>1, <1>3, SeqAssumption DEF Sub, Seqs
  <2>2. Sub(w.last, s) = 0 <=> s = w.last
    BY <1>1, SeqAssumption DEF Sub, Seqs
  <2> QED
    BY <1>1, <2>1, <2>2, <2>3 DEF Marked
<1>4. CASE fwd \in 1 .. Win - 1
  <2>1. x = Forward(w, seq)
    BY <1>4, SeqAssumption DEF peer_rx_seq
  <2>2. x.last = seq /\ x.seen /\ x.win = {i \in Bits : i = 0 \/ i - fwd \in w.win}
    BY <1>1, <2>1 DEF Forward, Windows
  <2> DEFINE d == Sub(seq, s)
  <2>3. Marked(x, s) <=> d \in Bits /\ (d = 0 \/ d - fwd \in w.win)
    BY <2>2 DEF Marked
  <2>4. d = 0 <=> s = seq
    BY SeqAssumption DEF Sub, Seqs
  <2>5. d - fwd \in w.win => d - fwd \in Bits
    BY <1>1
  <2>6. d \in Bits /\ d - fwd \in Bits => Sub(w.last, s) = d - fwd
    BY <1>1, <1>4, SeqAssumption DEF Sub, Seqs, Bits
  <2>7. Sub(w.last, s) \in Bits => d = Sub(w.last, s) + fwd
    BY <1>1, <1>4, SeqAssumption DEF Sub, Seqs, Bits
  <2>8. d \in Bits /\ d - fwd \in w.win <=> Marked(w, s) /\ d \in Bits
    <3>1. ASSUME d \in Bits, d - fwd \in w.win PROVE Marked(w, s)
      BY <2>5, <2>6, <3>1 DEF Marked
    <3>2. ASSUME Marked(w, s) PROVE d - fwd \in w.win
      <4>1. Sub(w.last, s) \in w.win /\ Sub(w.last, s) \in Bits
        BY <1>1, <3>2 DEF Marked
      <4>2. d - fwd = Sub(w.last, s)
        BY <1>2, <2>7, <4>1 DEF Bits, Seqs
      <4> QED
        BY <4>1, <4>2
    <3> QED
      BY <3>1, <3>2
  <2>9. 0 \in Bits
    BY SeqAssumption DEF Bits
  <2> QED
    BY <2>2, <2>3, <2>4, <2>8, <2>9
<1>5. CASE fwd >= Win
  <2>1. back < ShiftBits /\ back < Win /\ back \in Bits
    BY <1>2, <1>5, SeqAssumption DEF Seqs, Bits
  <2>2. x = [w EXCEPT !.win = @ \cup {back}]
    <3>1. peer_rx_seq(w, seq) = LateMarks(w, back)
      BY <1>2, <1>5, <2>1, SeqAssumption DEF peer_rx_seq, Seqs
    <3> QED
      BY <2>1, <3>1 DEF LateMarks
  <2>3. x.last = w.last /\ x.seen /\ x.win = w.win \cup {back}
    BY <2>2 DEF Windows
  <2>4. Sub(w.last, s) = back <=> s = seq
    BY <1>1, SeqAssumption DEF Sub, Seqs
  <2> QED
    BY <1>1, <2>1, <2>3, <2>4 DEF Marked
<1> QED
  BY <1>2, <1>3, <1>4, <1>5, SeqAssumption DEF Seqs

-----------------------------------------------------------------------------
(* The inductive invariant of the first part. *)

\* What is on its way or was received was sent.
Sent ==
  /\ \A i \in Ids : verdict[i] = "unsent" <=> i > sent
  /\ \A i \in air : i <= sent
  /\ rx_pc = "data" => rx_id \in 1 .. sent
  /\ rx_pc # "data" => rx_id = 0
  /\ \A i \in Ids : got[i] > 0 => i <= sent

\* A bundle is handed up no more often than it was sent.
Copies(i) == got[i] + (IF i \in air THEN 1 ELSE 0) + (IF Arriving(i) THEN 1 ELSE 0)

CopiesSent ==
  \A i \in Ids :
    /\ Copies(i) <= MaxRetries + 1
    /\ verdict[i] = "unsent" => Copies(i) = 0 /\ retries[i] = 0
    /\ verdict[i] = "pending" => Copies(i) <= retries[i] + 1

\* The newest number of a window is marked.
NewestMarked == rx.seen => 0 \in rx.win

\* A bundle with this number was handed up, or is about to be.
NumberArrived(s) == \E j \in 1 .. sent : seq_of[j] = s /\ Arrived(j)

\* The newest number of a window is marked, and every mark is of a number that
\* arrived.
MarksTrue ==
  /\ rx.seen => 0 \in rx.win
  /\ \A s \in Seqs : Marked(rx, s) => NumberArrived(s)

\* What the dedup ring and the lists made from it name was handed up.
FidsTrue ==
  /\ \A k \in 1 .. Len(ring) : got[ring[k]] > 0
  /\ \A i \in rx_fids \cup tick_fids : got[i] > 0

\* So was what an ACK in the air names.
AcksTrue ==
  \A a \in acks :
    /\ a.env => \A s \in Seqs : Covers(a, s) => NumberArrived(s)
    /\ \A i \in a.fids : got[i] > 0

\* A number the sender counts as acknowledged arrived.
AckedTrue ==
  \A i \in Ids : verdict[i] = "acked" => \E j \in 1 .. sent : seq_of[j] = seq_of[i] /\ Arrived(j)

TInv == TypeOK /\ Sent /\ CopiesSent /\ NewestMarked
IInv == TypeOK /\ Sent /\ CopiesSent /\ MarksTrue /\ FidsTrue /\ AcksTrue /\ AckedTrue

-----------------------------------------------------------------------------
(* Types and constants. *)

LEMMA LinkConstants ==
  /\ N \in Nat /\ MaxRetries \in Nat /\ DedupWin \in Nat /\ AckFids \in Nat
  /\ MaxRestarts \in Nat
  /\ 1 <= AckFids /\ AckFids <= DedupWin /\ N < Mod
  /\ Mod \in Nat /\ Win \in Nat /\ ShiftBits \in Nat /\ 0 < ShiftBits /\ ShiftBits <= Win
  /\ 2 * Win <= Mod /\ 1 < Mod
<1>1. /\ N \in Nat /\ MaxRetries \in Nat /\ DedupWin \in Nat
      /\ MaxRestarts \in Nat /\ AckFids \in Nat
  BY LinkAssumption
<1> QED
  BY <1>1, LinkAssumption, SeqAssumption

\* The numbers of a state.
LEMMA Numbers ==
  ASSUME TypeOK
  PROVE  /\ sent \in Nat /\ sent <= N /\ tx_seq \in Seqs
         /\ \A i \in Ids : seq_of[i] \in Seqs /\ seq_of[i] \in Nat /\ seq_of[i] <= Mod - 2
         /\ \A i \in Ids : got[i] \in Nat /\ retries[i] \in Nat
         /\ Len(ring) \in Nat /\ DOMAIN ring = 1 .. Len(ring)
         /\ \A k \in 1 .. Len(ring) : ring[k] \in Ids
         /\ rx \in Windows
<1>1. /\ sent \in Nat /\ sent <= N /\ tx_seq \in Seqs /\ rx \in Windows
  BY LinkConstants DEF TypeOK
<1>2. \A i \in Ids : seq_of[i] \in Seqs /\ seq_of[i] \in Nat /\ seq_of[i] <= Mod - 2
  BY LinkConstants DEF TypeOK, Seqs
<1>3. \A i \in Ids : got[i] \in Nat /\ retries[i] \in Nat
  BY LinkConstants DEF TypeOK
<1>4. ring \in Seq(Ids)
  BY DEF TypeOK
<1>5. /\ Len(ring) \in Nat /\ DOMAIN ring = 1 .. Len(ring)
      /\ \A k \in 1 .. Len(ring) : ring[k] \in Ids
  BY <1>4
<1> QED
  BY <1>1, <1>2, <1>3, <1>5

\* A bundle counts as arrived once it does, while its number is kept.
LEMMA NumbersKept ==
  ASSUME TypeOK, sent' \in Nat, sent <= sent',
         \A j \in 1 .. sent : seq_of'[j] = seq_of[j] /\ (Arrived(j) => Arrived(j)')
  PROVE  \A s : NumberArrived(s) => NumberArrived(s)'
<1> SUFFICES ASSUME NEW s, NumberArrived(s) PROVE NumberArrived(s)'
  OBVIOUS
<1>1. PICK j \in 1 .. sent : seq_of[j] = s /\ Arrived(j)
  BY DEF NumberArrived
<1>2. j \in 1 .. sent'
  BY <1>1, Numbers
<1> QED
  BY <1>1, <1>2 DEF NumberArrived

\* AckedTrue holds on while every newly acknowledged number arrived.
LEMMA AckedKept ==
  ASSUME AckedTrue, \A s : NumberArrived(s) => NumberArrived(s)',
         \A i \in Ids : verdict'[i] = "acked" =>
           seq_of'[i] = seq_of[i] /\ (verdict[i] = "acked" \/ NumberArrived(seq_of[i]))
  PROVE  AckedTrue'
<1> SUFFICES ASSUME NEW i \in Ids, verdict'[i] = "acked"
             PROVE  \E j \in 1 .. sent' : seq_of'[j] = seq_of'[i] /\ Arrived(j)'
  BY DEF AckedTrue
<1> DEFINE s == seq_of[i]
<1>1. NumberArrived(s) /\ seq_of'[i] = s
  BY DEF AckedTrue, NumberArrived
<1> HIDE DEF s
<1>2. \E j \in 1 .. sent' : seq_of'[j] = s /\ Arrived(j)'
  BY <1>1 DEF NumberArrived
<1> QED
  BY <1>1, <1>2

\* What is true of marks, lists and ACKs stays true while nothing is added.
LEMMA TruthKept ==
  ASSUME IInv, sent' \in Nat, sent <= sent',
         \A j \in 1 .. sent : seq_of'[j] = seq_of[j],
         \A j \in Ids : got'[j] \in Nat /\ got[j] <= got'[j],
         UNCHANGED <<ring, rx_pc, rx_id, rx_fids, tick_fids>>,
         rx' = rx, acks' \subseteq acks
  PROVE  /\ MarksTrue' /\ FidsTrue' /\ AcksTrue'
         /\ \A s : NumberArrived(s) => NumberArrived(s)'
<1>a. TypeOK /\ Sent /\ MarksTrue /\ FidsTrue /\ AcksTrue
  BY DEF IInv
<1>b. \A j \in Ids : got[j] > 0 => got'[j] > 0
  BY <1>a, Numbers
<1>c. \A j \in 1 .. sent : j \in Ids
  BY <1>a, Numbers, LinkConstants DEF Ids
<1>1. \A s : NumberArrived(s) => NumberArrived(s)'
  <2>1. \A j \in 1 .. sent : Arrived(j) => Arrived(j)'
    BY <1>b, <1>c DEF Arrived, Arriving
  <2> QED
    BY <1>a, <2>1, NumbersKept
<1>2. MarksTrue'
  BY <1>a, <1>1 DEF MarksTrue, Marked
<1>3. FidsTrue'
  <2>1. \A k \in 1 .. Len(ring) : ring[k] \in Ids
    BY <1>a, Numbers
  <2>2. rx_fids \subseteq Ids /\ tick_fids \subseteq Ids
    BY <1>a DEF TypeOK
  <2> QED
    BY <1>a, <1>b, <2>1, <2>2 DEF FidsTrue
<1>4. AcksTrue'
  <2> SUFFICES ASSUME NEW a \in acks
               PROVE  /\ a.env => \A s \in Seqs : Covers(a, s) => NumberArrived(s)'
                      /\ \A i \in a.fids : got'[i] > 0
    BY DEF AcksTrue
  <2>1. a.fids \subseteq Ids
    BY <1>a DEF TypeOK
  <2> QED
    BY <1>a, <1>b, <1>1, <2>1 DEF AcksTrue
<1> QED
  BY <1>1, <1>2, <1>3, <1>4

-----------------------------------------------------------------------------
(* The types. That a bundle is handed up at most as often as it was sent needs  *)
(* the count of its copies; nothing here depends on the order of arrival.       *)

LEMMA NoWindowType == NoWindow \in Windows
<1>1. 0 \in Seqs /\ {} \in SUBSET Bits
  BY LinkConstants DEF Seqs
<1>2. FALSE \in BOOLEAN
  OBVIOUS
<1> QED
  BY <1>1, <1>2 DEF NoWindow, Windows

\* The dedup ring after a frame: still a ring, with the frame and older entries.
LEMMA RingAfter ==
  ASSUME TypeOK, NEW m \in Ids, NEW d,
         d = IF dedup_seen(ring, m) THEN ring ELSE dedup_remember(ring, m)
  PROVE  /\ d \in Seq(Ids) /\ Len(d) <= DedupWin /\ Len(d) \in Nat /\ DOMAIN d = 1 .. Len(d)
         /\ \A k \in 1 .. Len(d) : d[k] = m \/ \E q \in 1 .. Len(ring) : d[k] = ring[q]
<1>a. ring \in Seq(Ids) /\ Len(ring) <= DedupWin
  BY DEF TypeOK
<1>b. Len(ring) \in Nat /\ DOMAIN ring = 1 .. Len(ring)
  BY <1>a
<1>c. Len(ring) <= DedupWin
  BY DEF TypeOK
<1>d. Len(ring) \in Nat
  BY <1>b
<1>1. CASE dedup_seen(ring, m)
  BY <1>1, <1>a, <1>b
<1>2. CASE ~dedup_seen(ring, m) /\ Len(ring) < DedupWin
  <2>1. d = Append(ring, m)
    BY <1>2 DEF dedup_remember
  <2>2. /\ d \in Seq(Ids) /\ Len(d) = Len(ring) + 1 /\ d[Len(ring) + 1] = m
        /\ \A k \in 1 .. Len(ring) : d[k] = ring[k]
    BY <1>a, <1>b, <2>1
  <2>3. DOMAIN d = 1 .. Len(d)
    BY <2>2
  <2>4. \A k \in 1 .. Len(ring) + 1 : k \in 1 .. Len(ring) \/ k = Len(ring) + 1
    BY <1>b
  <2>5. Len(d) <= DedupWin /\ Len(d) \in Nat
    BY <1>2, <1>b, <2>2, LinkConstants
  <2>6. ASSUME NEW k \in 1 .. Len(d)
        PROVE  d[k] = m \/ \E q \in 1 .. Len(ring) : d[k] = ring[q]
    BY <2>2, <2>4
  <2> QED
    BY <2>2, <2>3, <2>5, <2>6
<1>3. CASE ~dedup_seen(ring, m) /\ ~(Len(ring) < DedupWin)
  <2>1. d = Append(Tail(ring), m)
    BY <1>3 DEF dedup_remember
  <2>2. Len(ring) = DedupWin /\ Len(ring) > 0
    <3>1. ~(Len(ring) < DedupWin)
      BY <1>3
    <3> QED
      BY <3>1, <1>c, <1>d, LinkConstants
  <2>3. /\ Tail(ring) \in Seq(Ids) /\ Len(Tail(ring)) = Len(ring) - 1
        /\ \A k \in 1 .. Len(ring) - 1 : Tail(ring)[k] = ring[k + 1]
    BY <1>a, <1>b, <2>2
  <2>4. /\ d \in Seq(Ids) /\ Len(d) = Len(ring) /\ d[Len(ring)] = m
        /\ \A k \in 1 .. Len(ring) - 1 : d[k] = ring[k + 1]
    <3> DEFINE t == Tail(ring)
    <3>1. t \in Seq(Ids) /\ Len(t) = Len(ring) - 1 /\ Len(t) \in Nat
      BY <1>b, <2>2, <2>3
    <3>2. Len(t) + 1 = Len(ring)
      BY <1>b, <2>3
    <3> HIDE DEF t
    <3>3. /\ Append(t, m) \in Seq(Ids) /\ Len(Append(t, m)) = Len(t) + 1
          /\ Append(t, m)[Len(t) + 1] = m /\ \A k \in 1 .. Len(t) : Append(t, m)[k] = t[k]
      BY <3>1
    <3>4. d = Append(t, m)
      BY <2>1 DEF t
    <3>5. \A k \in 1 .. Len(ring) - 1 : t[k] = ring[k + 1]
      BY <2>3 DEF t
    <3>6. d \in Seq(Ids) /\ Len(d) = Len(ring) /\ d[Len(ring)] = m
      BY <3>2, <3>3, <3>4
    <3>7. \A k \in 1 .. Len(ring) - 1 : d[k] = ring[k + 1]
      BY <3>1, <3>3, <3>4, <3>5
    <3> QED
      BY <3>6, <3>7
  <2>5. DOMAIN d = 1 .. Len(d)
    BY <2>4
  <2>6. \A k \in 1 .. Len(ring) :
          (k + 1 \in 1 .. Len(ring) /\ k \in 1 .. Len(ring) - 1) \/ k = Len(ring)
    BY <1>d
  <2>7. ASSUME NEW k \in 1 .. Len(d)
        PROVE  d[k] = m \/ \E q \in 1 .. Len(ring) : d[k] = ring[q]
    BY <2>4, <2>6
  <2> QED
    BY <1>b, <2>2, <2>4, <2>5, <2>7
<1> QED
  BY <1>1, <1>2, <1>3

\* The list made from the ring names entries of the ring.
LEMMA FidsFromRing ==
  ASSUME NEW d \in Seq(Ids), NEW i \in build_fids(d)
  PROVE  i \in Ids /\ \E k \in 1 .. Len(d) : i = d[k]
<1>1. DOMAIN d = 1 .. Len(d)
  OBVIOUS
<1>2. PICK k \in DOMAIN d : i = d[k]
  BY DEF build_fids
<1> QED
  BY <1>1, <1>2

LEMMA FlushType ==
  ASSUME TInv, agg_flush
  PROVE  TInv'
<1> DEFINE n == sent + 1
<1>a. TypeOK /\ Sent /\ CopiesSent /\ NewestMarked
  BY DEF TInv
<1>b. n \in Ids /\ sent \in Nat /\ n \in Nat /\ sent' = n
  BY <1>a, Numbers, LinkConstants DEF agg_flush, Ids
<1>c. /\ seq_of' = [seq_of EXCEPT ![n] = SeqTaken(tx_seq)] /\ tx_seq' = TxSeqAfter(tx_seq)
      /\ verdict' = [verdict EXCEPT ![n] = "pending"]
      /\ air' = air \cup {n}
      /\ UNCHANGED <<retries, restarts, acks, peerVars, hold, rxVars, tickVars, got>>
  BY DEF agg_flush
<1>d. /\ verdict[n] = "unsent" /\ Copies(n) = 0 /\ retries[n] = 0 /\ n \notin air
      /\ ~Arriving(n) /\ got[n] = 0
  <2>1. verdict[n] = "unsent"
    BY <1>a, <1>b DEF Sent
  <2>2. Copies(n) = 0 /\ retries[n] = 0
    BY <1>a, <1>b, <2>1 DEF CopiesSent
  <2>3. got[n] \in Nat
    BY <1>a, <1>b, Numbers
  <2> QED
    BY <2>1, <2>2, <2>3 DEF Copies
<1>e. \A i \in Ids : i # n => verdict'[i] = verdict[i] /\ seq_of'[i] = seq_of[i]
  BY <1>a, <1>c DEF TypeOK
<1>f. verdict'[n] = "pending"
  BY <1>a, <1>b, <1>c DEF TypeOK
<1>1. TypeOK'
  <2>1. SeqTaken(tx_seq) \in 0 .. Mod - 2 /\ TxSeqAfter(tx_seq) \in Seqs
    BY <1>a, LinkConstants DEF TypeOK, Seqs, SeqTaken, TxSeqAfter
  <2>2. seq_of' \in [Ids -> 0 .. Mod - 2]
    BY <1>a, <1>b, <1>c, <2>1 DEF TypeOK
  <2>3. verdict' \in [Ids -> {"unsent", "pending", "acked", "dropped"}]
    BY <1>a, <1>b, <1>c DEF TypeOK
  <2>4. sent' \in 0 .. N /\ air' \subseteq Ids
    BY <1>a, <1>b, <1>c, LinkConstants DEF TypeOK, Ids
  <2> QED
    BY <1>a, <1>c, <2>1, <2>2, <2>3, <2>4 DEF TypeOK, peerVars, rxVars, tickVars
<1>2. Sent'
  <2>1. \A i \in Ids : verdict'[i] = "unsent" <=> i > n
    BY <1>a, <1>b, <1>e, <1>f DEF Sent, Ids
  <2>2. \A i \in air' : i <= n
    BY <1>a, <1>b, <1>c DEF Sent, TypeOK, Ids
  <2>3. (rx_pc' = "data" => rx_id' \in 1 .. n) /\ (rx_pc' # "data" => rx_id' = 0)
    BY <1>a, <1>b, <1>c DEF Sent, rxVars
  <2>4. \A i \in Ids : got'[i] > 0 => i <= n
    BY <1>a, <1>b, <1>c DEF Sent, Ids
  <2> QED
    BY <1>b, <2>1, <2>2, <2>3, <2>4 DEF Sent
<1>3. CopiesSent'
  <2> SUFFICES ASSUME NEW i \in Ids
               PROVE  /\ Copies(i)' <= MaxRetries + 1
                      /\ verdict'[i] = "unsent" => Copies(i)' = 0 /\ retries'[i] = 0
                      /\ verdict'[i] = "pending" => Copies(i)' <= retries'[i] + 1
    BY DEF CopiesSent
  <2>1. CASE i = n
    <3>1. Copies(i)' = 1
      BY <1>b, <1>c, <1>d, <2>1 DEF Copies, Arriving, rxVars
    <3> QED
      BY <1>c, <1>d, <1>f, <2>1, <3>1, LinkConstants
  <2>2. CASE i # n
    <3>1. Copies(i)' = Copies(i)
      BY <1>c, <2>2 DEF Copies, Arriving, rxVars
    <3> QED
      BY <1>a, <1>c, <1>e, <2>2, <3>1 DEF CopiesSent
  <2> QED
    BY <2>1, <2>2
<1>4. NewestMarked'
  BY <1>a, <1>c DEF NewestMarked, peerVars
<1> QED
  BY <1>1, <1>2, <1>3, <1>4 DEF TInv

LEMMA RetransmitType ==
  ASSUME TInv, NEW n \in Ids, Retransmit(n)
  PROVE  TInv'
<1>a. TypeOK /\ Sent /\ CopiesSent /\ NewestMarked
  BY DEF TInv
<1>b. /\ verdict[n] = "pending" /\ retries[n] < MaxRetries
      /\ retries' = [retries EXCEPT ![n] = @ + 1] /\ air' = air \cup {n}
      /\ UNCHANGED <<tx_seq, seq_of, verdict, sent, restarts, acks, peerVars, hold, rxVars,
                     tickVars, got>>
  BY DEF Retransmit
<1>c. /\ sent \in Nat /\ n \in Nat /\ got[n] \in Nat /\ retries[n] \in Nat
      /\ \A i \in Ids : got[i] \in Nat
  BY <1>a, Numbers DEF Ids
<1>d. retries'[n] = retries[n] + 1 /\ \A i \in Ids : i # n => retries'[i] = retries[i]
  BY <1>a, <1>b DEF TypeOK
<1>1. TypeOK'
  <2>1. retries' \in [Ids -> 0 .. MaxRetries]
    BY <1>a, <1>b, <1>c, LinkConstants DEF TypeOK
  <2> QED
    BY <1>a, <1>b, <2>1 DEF TypeOK, peerVars, rxVars, tickVars
<1>2. Sent'
  BY <1>a, <1>b, <1>c DEF Sent, rxVars
<1>3. CopiesSent'
  <2> SUFFICES ASSUME NEW i \in Ids
               PROVE  /\ Copies(i)' <= MaxRetries + 1
                      /\ verdict'[i] = "unsent" => Copies(i)' = 0 /\ retries'[i] = 0
                      /\ verdict'[i] = "pending" => Copies(i)' <= retries'[i] + 1
    BY DEF CopiesSent
  <2>1. CASE i = n
    <3>1. Copies(n) \in Nat /\ Copies(n)' \in Nat /\ Copies(n)' <= Copies(n) + 1
      BY <1>b, <1>c DEF Copies, Arriving, rxVars
    <3>2. Copies(n) <= retries[n] + 1
      BY <1>a, <1>b DEF CopiesSent
    <3> QED
      BY <1>b, <1>c, <1>d, <2>1, <3>1, <3>2, LinkConstants
  <2>2. CASE i # n
    <3>1. Copies(i)' = Copies(i)
      BY <1>b, <2>2 DEF Copies, Arriving, rxVars
    <3> QED
      BY <1>a, <1>b, <1>d, <2>2, <3>1 DEF CopiesSent
  <2> QED
    BY <2>1, <2>2
<1>4. NewestMarked'
  BY <1>a, <1>b DEF NewestMarked, peerVars
<1> QED
  BY <1>1, <1>2, <1>3, <1>4 DEF TInv

\* Steps that settle bundles: they are given up, or found in an ACK.
LEMMA SettleType ==
  ASSUME TInv, NEW S \in SUBSET InFlight, NEW v \in {"acked", "dropped"},
         verdict' = [i \in Ids |-> IF i \in S THEN v ELSE verdict[i]],
         retries' \in [Ids -> 0 .. MaxRetries],
         \A i \in Ids : i \notin S /\ verdict[i] \in {"unsent", "pending"} => retries'[i] = retries[i],
         acks' \subseteq acks,
         UNCHANGED <<tx_seq, seq_of, sent, restarts, air, peerVars, hold, rxVars, tickVars, got>>
  PROVE  TInv'
<1>a. TypeOK /\ Sent /\ CopiesSent /\ NewestMarked
  BY DEF TInv
<1>c. \A i \in S : i \in Ids /\ verdict[i] = "pending"
  BY DEF InFlight
<1>1. TypeOK'
  <2>1. verdict' \in [Ids -> {"unsent", "pending", "acked", "dropped"}]
    BY <1>a DEF TypeOK
  <2> QED
    BY <1>a, <2>1 DEF TypeOK, peerVars, rxVars, tickVars
<1>2. Sent'
  BY <1>a, <1>c DEF Sent, rxVars
<1>3. CopiesSent'
  <2>1. \A i \in Ids : Copies(i)' = Copies(i)
    BY DEF Copies, Arriving, rxVars
  <2>2. \A i \in Ids : i \in S => verdict'[i] \in {"acked", "dropped"}
    OBVIOUS
  <2>3. \A i \in Ids : i \notin S => verdict'[i] = verdict[i]
    OBVIOUS
  <2> QED
    BY <1>a, <2>1, <2>2, <2>3 DEF CopiesSent
<1>4. NewestMarked'
  BY <1>a DEF NewestMarked, peerVars
<1> QED
  BY <1>1, <1>2, <1>3, <1>4 DEF TInv

LEMMA DropType ==
  ASSUME TInv, NEW n \in Ids, Drop(n)
  PROVE  TInv'
<1>a. TypeOK
  BY DEF TInv
<1>1. {n} \in SUBSET InFlight
  BY DEF Drop, InFlight
<1>2. verdict' = [i \in Ids |-> IF i \in {n} THEN "dropped" ELSE verdict[i]]
  BY <1>a DEF Drop, TypeOK
<1>3. /\ retries' \in [Ids -> 0 .. MaxRetries]
      /\ \A i \in Ids : i \notin {n} => retries'[i] = retries[i]
  BY <1>a, LinkConstants DEF Drop, TypeOK
<1> DEFINE S == {n}
<1>4. S \in SUBSET InFlight /\ verdict' = [i \in Ids |-> IF i \in S THEN "dropped" ELSE verdict[i]]
      /\ \A i \in Ids : i \notin S => retries'[i] = retries[i]
  BY <1>1, <1>2, <1>3
<1>5. acks' \subseteq acks
      /\ UNCHANGED <<tx_seq, seq_of, sent, restarts, air, peerVars, hold, rxVars, tickVars, got>>
  BY DEF Drop
<1> HIDE DEF S
<1> QED
  BY <1>3, <1>4, <1>5, SettleType

LEMMA RxAckType ==
  ASSUME TInv, NEW a \in acks, rx_ack(a)
  PROVE  TInv'
<1> DEFINE S == {i \in InFlight : Names(a, i)}
<1>a. TypeOK
  BY DEF TInv
<1>1. S \in SUBSET InFlight
  OBVIOUS
<1>2. verdict' = [i \in Ids |-> IF i \in S THEN "acked" ELSE verdict[i]]
  BY DEF rx_ack
<1>3. retries' = [i \in Ids |-> IF i \in S THEN 0 ELSE retries[i]]
  BY DEF rx_ack
<1>5. /\ acks' \subseteq acks
      /\ UNCHANGED <<tx_seq, seq_of, sent, restarts, air, peerVars, hold, rxVars, tickVars, got>>
  BY DEF rx_ack
<1> HIDE DEF S
<1>6. /\ retries' \in [Ids -> 0 .. MaxRetries]
      /\ \A i \in Ids : i \notin S => retries'[i] = retries[i]
  BY <1>a, <1>3, LinkConstants DEF TypeOK
<1> QED
  BY <1>1, <1>2, <1>5, <1>6, SettleType

LEMMA LoseType ==
  ASSUME TInv, Lose
  PROVE  TInv'
<1>a. TypeOK /\ Sent /\ CopiesSent /\ NewestMarked
  BY DEF TInv
<1>b. sent \in Nat /\ \A i \in Ids : got[i] \in Nat /\ retries[i] \in Nat
  BY <1>a, Numbers
<1>c. /\ air' \subseteq air /\ acks' \subseteq acks
      /\ UNCHANGED <<sndVars, peerVars, hold, rxVars, tickVars, got>>
  BY DEF Lose
<1>1. TypeOK'
  BY <1>a, <1>c DEF TypeOK, sndVars, peerVars, rxVars, tickVars
<1>2. Sent'
  BY <1>a, <1>c DEF Sent, sndVars, rxVars
<1>3. CopiesSent'
  <2> SUFFICES ASSUME NEW i \in Ids
               PROVE  /\ Copies(i)' <= MaxRetries + 1
                      /\ verdict'[i] = "unsent" => Copies(i)' = 0 /\ retries'[i] = 0
                      /\ verdict'[i] = "pending" => Copies(i)' <= retries'[i] + 1
    BY DEF CopiesSent
  <2>1. Copies(i) \in Nat /\ Copies(i)' \in Nat /\ Copies(i)' <= Copies(i)
    BY <1>b, <1>c DEF Copies, Arriving, rxVars
  <2> QED
    BY <1>a, <1>b, <1>c, <2>1, LinkConstants DEF CopiesSent, sndVars
<1>4. NewestMarked'
  BY <1>a, <1>c DEF NewestMarked, peerVars
<1> QED
  BY <1>1, <1>2, <1>3, <1>4 DEF TInv

LEMMA RestartType ==
  ASSUME TInv, Restart
  PROVE  TInv'
<1>a. TypeOK /\ Sent /\ CopiesSent /\ NewestMarked
  BY DEF TInv
<1>b. sent \in Nat /\ \A i \in Ids : got[i] \in Nat /\ retries[i] \in Nat
  BY <1>a, Numbers
<1>c. /\ air' = {} /\ acks' = {} /\ rx_pc = "idle" /\ tx_seq' = 0
      /\ restarts < MaxRestarts /\ restarts' = restarts + 1
      /\ verdict' = [i \in Ids |-> IF i \in InFlight THEN "dropped" ELSE verdict[i]]
      /\ retries' = [i \in Ids |-> 0]
      /\ UNCHANGED <<seq_of, sent, peerVars, hold, rxVars, tickVars, got>>
  BY DEF Restart
<1>1. TypeOK'
  <2>1. verdict' \in [Ids -> {"unsent", "pending", "acked", "dropped"}]
    BY <1>a, <1>c DEF TypeOK
  <2>2. tx_seq' \in Seqs /\ restarts' \in 0 .. MaxRestarts /\ retries' \in [Ids -> 0 .. MaxRetries]
    BY <1>a, <1>c, LinkConstants DEF TypeOK, Seqs
  <2>3. air' \subseteq Ids
        /\ acks' \subseteq [env : BOOLEAN, base : Seqs, bm : SUBSET Bits, fids : SUBSET Ids]
    BY <1>c
  <2> QED
    BY <1>a, <1>c, <2>1, <2>2, <2>3 DEF TypeOK, peerVars, rxVars, tickVars
<1>d. \A i \in Ids : IF verdict[i] = "pending" THEN verdict'[i] = "dropped"
                     ELSE verdict'[i] = verdict[i]
  BY <1>c DEF InFlight
<1>2. Sent'
  BY <1>a, <1>c, <1>d DEF Sent, rxVars
<1>3. CopiesSent'
  <2> SUFFICES ASSUME NEW i \in Ids
               PROVE  /\ Copies(i)' <= MaxRetries + 1
                      /\ verdict'[i] = "unsent" => Copies(i)' = 0 /\ retries'[i] = 0
                      /\ verdict'[i] = "pending" => Copies(i)' <= retries'[i] + 1
    BY DEF CopiesSent
  <2>1. Copies(i) \in Nat /\ Copies(i)' \in Nat /\ Copies(i)' <= Copies(i)
    BY <1>b, <1>c DEF Copies, Arriving, rxVars
  <2>2. verdict'[i] # "pending" /\ (verdict'[i] = "unsent" => verdict[i] = "unsent")
    BY <1>d
  <2> QED
    BY <1>a, <1>b, <1>c, <2>1, <2>2, LinkConstants DEF CopiesSent
<1>4. NewestMarked'
  BY <1>a, <1>c DEF NewestMarked, peerVars
<1> QED
  BY <1>1, <1>2, <1>3, <1>4 DEF TInv

LEMMA RxEnvType ==
  ASSUME TInv, NEW n \in Ids, rx_env(n)
  PROVE  TInv'
<1>a. TypeOK /\ Sent /\ CopiesSent /\ NewestMarked
  BY DEF TInv
<1>b. /\ n \in air /\ rx_pc = "idle" /\ air' = air \ {n}
      /\ UNCHANGED <<sndVars, acks, known, ring, since, due, hold, rx_fids, tickVars, got>>
  BY DEF rx_env
<1>c. /\ sent \in Nat /\ seq_of[n] \in Seqs /\ rx \in Windows /\ n \in 1 .. sent
      /\ \A i \in Ids : got[i] \in Nat /\ retries[i] \in Nat
  BY <1>a, <1>b, Numbers DEF Sent, Ids
<1>d. \/ known /\ Marked(rx, seq_of[n]) /\ UNCHANGED <<rx_pc, rx_id>>
      \/ ~(known /\ Marked(rx, seq_of[n])) /\ rx_pc' = "data" /\ rx_id' = n
  BY DEF rx_env
<1>e. IF known THEN rx' \in peer_rx_seq(rx, seq_of[n]) ELSE rx' = rx
  BY DEF rx_env
<1>f. ~Arriving(n) /\ \A j \in Ids : ~Arriving(j)
  BY <1>b DEF Arriving
<1>3. rx' \in Windows /\ NewestMarked'
  <2>1. CASE known
    <3>1. rx' \in peer_rx_seq(rx, seq_of[n])
      BY <1>e, <2>1
    <3>2. rx' \in Windows /\ rx'.seen /\ 0 \in rx'.win
      BY <1>a, <1>c, <3>1, RxSeqType DEF NewestMarked
    <3> QED
      BY <3>2 DEF NewestMarked
  <2>2. CASE ~known
    <3>1. rx' = rx
      BY <1>e, <2>2
    <3> QED
      BY <1>a, <1>c, <3>1 DEF NewestMarked
  <2> QED
    BY <2>1, <2>2
<1>4. TypeOK'
  <2>1. rx_pc' \in {"idle", "data", "ack"} /\ rx_id' \in 0 .. N
    BY <1>a, <1>b, <1>c, <1>d DEF TypeOK, Ids
  <2> QED
    BY <1>a, <1>b, <1>3, <2>1 DEF TypeOK, sndVars, tickVars
<1>5. Sent'
  <2>1. (rx_pc' = "data" => rx_id' \in 1 .. sent) /\ (rx_pc' # "data" => rx_id' = 0)
    BY <1>a, <1>b, <1>c, <1>d DEF Sent
  <2> QED
    BY <1>a, <1>b, <2>1 DEF Sent, sndVars
<1>6. CopiesSent'
  <2> SUFFICES ASSUME NEW i \in Ids
               PROVE  /\ Copies(i)' <= MaxRetries + 1
                      /\ verdict'[i] = "unsent" => Copies(i)' = 0 /\ retries'[i] = 0
                      /\ verdict'[i] = "pending" => Copies(i)' <= retries'[i] + 1
    BY DEF CopiesSent
  <2>1. Copies(i) \in Nat /\ Copies(i)' \in Nat /\ Copies(i)' <= Copies(i)
    BY <1>b, <1>c, <1>d DEF Copies, Arriving
  <2> QED
    BY <1>a, <1>b, <1>c, <2>1, LinkConstants DEF CopiesSent, sndVars
<1> QED
  BY <1>3, <1>4, <1>5, <1>6 DEF TInv

LEMMA RxDataType ==
  ASSUME TInv, rx_data
  PROVE  TInv'
<1> DEFINE m == rx_id
           d == IF dedup_seen(ring, m) THEN ring ELSE dedup_remember(ring, m)
<1>a. TypeOK /\ Sent /\ CopiesSent /\ NewestMarked
  BY DEF TInv
<1>b. rx_pc = "data" /\ rx_id' = 0 /\ UNCHANGED <<sndVars, air, acks, hold, tickVars>>
  BY DEF rx_data
<1>c. /\ sent \in Nat /\ rx \in Windows /\ m \in 1 .. sent /\ m \in Ids
      /\ \A i \in Ids : got[i] \in Nat /\ retries[i] \in Nat
  BY <1>a, <1>b, Numbers, LinkConstants DEF Sent, Ids
<1>d. Arriving(m) /\ \A i \in Ids : Arriving(i) <=> i = m
  BY <1>b DEF Arriving
<1>e. \/ /\ known' = TRUE
         /\ rx' \in {rx} \cup (IF known /\ Stales THEN {NoWindow} ELSE {})
         /\ ring' = d
         /\ got' = IF dedup_seen(ring, m) THEN got ELSE [got EXCEPT ![m] = @ + 1]
         /\ ack_decide(d)
      \/ /\ ~known /\ Evicts
         /\ got' = [got EXCEPT ![m] = @ + 1]
         /\ rx_pc' = "idle"
         /\ UNCHANGED <<peerVars, rx_fids>>
  BY DEF rx_data
<1>f. d \in Seq(Ids) /\ Len(d) <= DedupWin /\ Len(d) \in Nat /\ DOMAIN d = 1 .. Len(d)
      /\ \A k \in 1 .. Len(d) : d[k] = m \/ \E q \in 1 .. Len(ring) : d[k] = ring[q]
  BY <1>a, <1>c, RingAfter
<1>h. got' = got \/ got' = [got EXCEPT ![m] = @ + 1]
  BY <1>e
<1>i. rx' = rx \/ rx' = NoWindow
  BY <1>e DEF peerVars
<1> HIDE DEF d, m
<1>j. /\ got'[m] \in Nat /\ got'[m] <= got[m] + 1
      /\ \A i \in Ids : i # m => got'[i] = got[i]
      /\ \A i \in Ids : got'[i] \in Nat
      /\ DOMAIN got' = Ids /\ got' = [i \in Ids |-> got'[i]]
  <2>0. got \in [Ids -> 0 .. MaxRetries + 1]
    BY <1>a DEF TypeOK
  <2>1. CASE got' = got
    BY <1>c, <2>0, <2>1
  <2>2. CASE got' = [got EXCEPT ![m] = @ + 1]
    <3>1. /\ got'[m] = got[m] + 1 /\ DOMAIN got' = Ids /\ got' = [i \in Ids |-> got'[i]]
          /\ \A i \in Ids : i # m => got'[i] = got[i]
      BY <1>c, <2>0, <2>2
    <3>2. got'[m] \in Nat /\ got'[m] <= got[m] + 1
      BY <1>c, <3>1
    <3> QED
      BY <1>c, <3>1, <3>2
  <2> QED
    BY <1>h, <2>1, <2>2
<1>k. rx_pc' \in {"idle", "ack"} /\ \A i \in Ids : ~Arriving(i)'
  <2>1. rx_pc' \in {"idle", "ack"}
    BY <1>e DEF ack_decide
  <2> QED
    BY <2>1 DEF Arriving
<1>1. CopiesSent'
  <2> SUFFICES ASSUME NEW i \in Ids
               PROVE  /\ Copies(i)' <= MaxRetries + 1
                      /\ verdict'[i] = "unsent" => Copies(i)' = 0 /\ retries'[i] = 0
                      /\ verdict'[i] = "pending" => Copies(i)' <= retries'[i] + 1
    BY DEF CopiesSent
  <2>1. Copies(i) \in Nat /\ Copies(i)' \in Nat /\ Copies(i)' <= Copies(i)
    BY <1>b, <1>c, <1>d, <1>j, <1>k DEF Copies
  <2> QED
    BY <1>a, <1>b, <1>c, <2>1, LinkConstants DEF CopiesSent, sndVars
<1>2. TypeOK'
  <2>1. got' \in [Ids -> 0 .. MaxRetries + 1]
    <3>1. \A i \in Ids : got'[i] <= MaxRetries + 1
      <4> SUFFICES ASSUME NEW i \in Ids PROVE got'[i] <= MaxRetries + 1
        OBVIOUS
      <4>1. Copies(i)' <= MaxRetries + 1 /\ got'[i] <= Copies(i)' /\ Copies(i)' \in Nat
        BY <1>1, <1>j DEF CopiesSent, Copies
      <4> QED
        BY <1>j, <4>1, LinkConstants
    <3>2. \A i \in Ids : got'[i] \in 0 .. MaxRetries + 1
      BY <1>j, <3>1, LinkConstants
    <3> QED
      BY <1>j, <3>2
  <2>2. rx' \in Windows
    BY <1>c, <1>i, NoWindowType
  <2>3. /\ ring' \in Seq(Ids) /\ Len(ring') <= DedupWin
    BY <1>a, <1>e, <1>f DEF TypeOK, peerVars
  <2>4. since' \in 0 .. AckFids - 1
    BY <1>a, <1>e, LinkConstants DEF TypeOK, peerVars, ack_decide
  <2>5. due' \in BOOLEAN /\ known' \in BOOLEAN
    BY <1>a, <1>e, Zenon DEF TypeOK, peerVars, ack_decide
  <2>6. rx_fids' \subseteq Ids
    <3>1. rx_fids' = rx_fids \/ rx_fids' = {} \/ rx_fids' = build_fids(d)
      BY <1>e DEF ack_decide
    <3> QED
      BY <1>a, <1>f, <3>1, FidsFromRing DEF TypeOK
  <2>7. rx_id' \in 0 .. N /\ rx_pc' \in {"idle", "data", "ack"}
    BY <1>b, <1>k, LinkConstants
  <2> QED
    BY <1>a, <1>b, <2>1, <2>2, <2>3, <2>4, <2>5, <2>6, <2>7 DEF TypeOK, sndVars, tickVars
<1>3. Sent'
  <2>1. \A i \in Ids : got'[i] > 0 => i <= sent
    BY <1>a, <1>c, <1>j DEF Sent
  <2> QED
    BY <1>a, <1>b, <1>k, <2>1 DEF Sent, sndVars
<1>4. NewestMarked'
  BY <1>a, <1>i DEF NewestMarked, NoWindow
<1> QED
  BY <1>1, <1>2, <1>3, <1>4 DEF TInv

\* Steps of the receiver that hand up nothing.
LEMMA QuietType ==
  ASSUME TInv, UNCHANGED <<sndVars, air, hold, got, rx_id>>,
         rx_pc' = rx_pc \/ (rx_pc = "ack" /\ rx_pc' = "idle"),
         rx' = rx \/ rx' = NoWindow, ring' = ring \/ ring' = <<>>,
         known' \in BOOLEAN, due' \in BOOLEAN, since' = since \/ since' = 0,
         tick_pc' \in {"idle", "ack"},
         acks' \subseteq [env : BOOLEAN, base : Seqs, bm : SUBSET Bits, fids : SUBSET Ids],
         rx_fids' \subseteq Ids, tick_fids' \subseteq Ids
  PROVE  TInv'
<1>a. TypeOK /\ Sent /\ CopiesSent /\ NewestMarked
  BY DEF TInv
<1>b. \A i : Arriving(i)' <=> Arriving(i)
  BY DEF Arriving
<1>c. UNCHANGED <<tx_seq, seq_of, verdict, retries, sent, restarts>>
  BY DEF sndVars
<1>2. TypeOK'
  <2>1. ring' \in Seq(Ids) /\ Len(ring') <= DedupWin
    <3>1. CASE ring' = ring
      BY <1>a, <3>1 DEF TypeOK
    <3>2. CASE ring' = <<>>
      <4>1. ring' \in Seq(Ids) /\ Len(ring') = 0
        BY <3>2
      <4> QED
        BY <4>1, LinkConstants
    <3> QED
      BY <3>1, <3>2
  <2>2. since' \in 0 .. AckFids - 1
    BY <1>a, LinkConstants DEF TypeOK
  <2>3. rx' \in Windows
    BY <1>a, NoWindowType DEF TypeOK
  <2>4. rx_pc' \in {"idle", "data", "ack"}
    BY <1>a DEF TypeOK
  <2> QED
    BY <1>a, <1>c, <2>1, <2>2, <2>3, <2>4 DEF TypeOK
<1>3. Sent'
  BY <1>a, <1>c DEF Sent
<1>4. CopiesSent'
  <2>1. \A i \in Ids : Copies(i)' = Copies(i)
    BY <1>b DEF Copies
  <2> QED
    BY <1>a, <1>c, <2>1 DEF CopiesSent
<1>5. NewestMarked'
  BY <1>a DEF NewestMarked, NoWindow
<1> QED
  BY <1>2, <1>3, <1>4, <1>5 DEF TInv

LEMMA SendAckType ==
  ASSUME TypeOK, NEW fids \in SUBSET Ids, SendAck(fids)
  PROVE  acks' \subseteq [env : BOOLEAN, base : Seqs, bm : SUBSET Bits, fids : SUBSET Ids]
<1> DEFINE T == [env : BOOLEAN, base : Seqs, bm : SUBSET Bits, fids : SUBSET Ids]
           c == [env |-> TRUE, base |-> Capture(rx).base, bm |-> Capture(rx).bm, fids |-> {}]
           f == [env |-> FALSE, base |-> 0, bm |-> {}, fids |-> fids]
           a0 == IF known /\ rx.seen THEN c ELSE f
<1>b. acks \subseteq T /\ rx \in Windows
  BY DEF TypeOK
<1>c. acks' \subseteq acks \cup {a0}
  BY DEF SendAck
<1>1. c \in T
  <2>1. rx.last \in Seqs /\ Win - 1 \in Seqs
    BY <1>b, LinkConstants DEF Windows, Seqs
  <2>2. Capture(rx).base \in Seqs /\ Capture(rx).bm \in SUBSET Bits
    BY <2>1, SubType DEF Capture
  <2>3. TRUE \in BOOLEAN /\ {} \in SUBSET Ids
    OBVIOUS
  <2> QED
    BY <2>2, <2>3
<1>2. f \in T
  <2>1. 0 \in Seqs /\ {} \in SUBSET Bits
    BY LinkConstants DEF Seqs
  <2>2. FALSE \in BOOLEAN
    OBVIOUS
  <2> QED
    BY <2>1, <2>2
<1> HIDE DEF c, f
<1>5. a0 \in T
  BY <1>1, <1>2
<1> HIDE DEF a0, T
<1>8. acks' \subseteq T
  BY <1>b, <1>c, <1>5
<1> QED
  BY <1>8 DEF T

LEMMA ReceiverType ==
  ASSUME TInv, rx_send_ack \/ TickCollect \/ TickSendAck \/ peer_get_stale \/ peer_create_evicts
  PROVE  TInv'
<1>a. TypeOK
  BY DEF TInv
<1>b. /\ known \in BOOLEAN /\ due \in BOOLEAN /\ tick_pc \in {"idle", "ack"}
      /\ rx_fids \subseteq Ids /\ tick_fids \subseteq Ids
      /\ acks \subseteq [env : BOOLEAN, base : Seqs, bm : SUBSET Bits, fids : SUBSET Ids]
  BY <1>a DEF TypeOK
<1>1. CASE rx_send_ack
  <2>1. /\ rx_pc = "ack" /\ rx_pc' = "idle" /\ rx_fids' = {} /\ SendAck(rx_fids)
        /\ UNCHANGED <<sndVars, air, known, rx, ring, since, due, hold, rx_id, tick_pc, tick_fids, got>>
    BY <1>1 DEF rx_send_ack, peerVars, tickVars
  <2> QED
    BY <1>a, <1>b, <2>1, SendAckType, QuietType
<1>2. CASE TickSendAck
  <2>1. /\ tick_pc' = "idle" /\ tick_fids' = {} /\ SendAck(tick_fids)
        /\ UNCHANGED <<sndVars, air, known, rx, ring, since, due, hold, rx_pc, rx_id, rx_fids, got>>
    BY <1>2 DEF TickSendAck, peerVars, rxVars
  <2> QED
    BY <1>a, <1>b, <2>1, SendAckType, QuietType
<1>3. CASE TickCollect
  <2>1. /\ due' = FALSE /\ since' = 0 /\ tick_pc' = "ack" /\ tick_fids' = build_fids(ring)
        /\ UNCHANGED <<sndVars, air, acks, known, rx, ring, hold, rx_pc, rx_id, rx_fids, got>>
    BY <1>3 DEF TickCollect, rxVars
  <2>2. ring \in Seq(Ids)
    BY <1>a DEF TypeOK
  <2>3. build_fids(ring) \subseteq Ids
    BY <2>2, FidsFromRing
  <2>4. due' \in BOOLEAN
    BY <2>1
  <2> QED
    BY <1>b, <2>1, <2>3, <2>4, QuietType
<1>4. CASE peer_get_stale
  <2>1. /\ rx' = NoWindow
        /\ UNCHANGED <<sndVars, air, acks, known, ring, since, due, hold, rx_pc, rx_id, rx_fids,
                       tick_pc, tick_fids, got>>
    BY <1>4 DEF peer_get_stale, rxVars, tickVars
  <2> QED
    BY <1>b, <2>1, QuietType
<1>5. CASE peer_create_evicts
  <2>1. /\ rx' = NoWindow /\ ring' = <<>> /\ since' = 0 /\ due' = FALSE /\ known' = FALSE
        /\ UNCHANGED <<sndVars, air, acks, hold, rx_pc, rx_id, rx_fids, tick_pc, tick_fids, got>>
    BY <1>5 DEF peer_create_evicts, rxVars, tickVars
  <2>2. due' \in BOOLEAN /\ known' \in BOOLEAN
    BY <2>1
  <2> QED
    BY <1>b, <2>1, <2>2, QuietType
<1> QED
  BY <1>1, <1>2, <1>3, <1>4, <1>5

LEMMA InitType ==
  ASSUME Init
  PROVE  TInv
<1>1. TypeOK
  <2>1. ring \in Seq(Ids) /\ Len(ring) <= DedupWin
    <3>1. ring \in Seq(Ids) /\ Len(ring) = 0
      BY DEF Init
    <3> QED
      BY <3>1, LinkConstants
  <2>2. /\ seq_of \in [Ids -> 0 .. Mod - 2] /\ retries \in [Ids -> 0 .. MaxRetries]
        /\ got \in [Ids -> 0 .. MaxRetries + 1]
        /\ verdict \in [Ids -> {"unsent", "pending", "acked", "dropped"}]
    BY LinkConstants DEF Init
  <2>3. /\ tx_seq \in Seqs /\ sent \in 0 .. N /\ restarts \in 0 .. MaxRestarts
        /\ since \in 0 .. AckFids - 1 /\ rx_id \in 0 .. N
    BY LinkConstants, LinkAssumption DEF Init
  <2>4. known \in BOOLEAN /\ due \in BOOLEAN /\ hold \in BOOLEAN
    BY LinkAssumption DEF Init
  <2>5. rx \in Windows
    BY NoWindowType DEF Init
  <2> QED
    BY <2>1, <2>2, <2>3, <2>4, <2>5 DEF TypeOK, Init
<1>2. Sent
  BY LinkConstants DEF Sent, Init, Ids
<1>3. CopiesSent
  BY LinkConstants DEF CopiesSent, Copies, Arriving, Init
<1>4. NewestMarked
  BY DEF NewestMarked, NoWindow, Init
<1> QED
  BY <1>1, <1>2, <1>3, <1>4 DEF TInv

LEMMA StepType ==
  ASSUME TInv, [Next]_vars
  PROVE  TInv'
<1>1. CASE UNCHANGED vars
  <2>1. UNCHANGED <<tx_seq, seq_of, verdict, retries, sent, restarts, air, acks, known, rx, ring,
                    since, due, hold, rx_pc, rx_id, rx_fids, tick_pc, tick_fids, got>>
    BY <1>1 DEF vars, sndVars, peerVars, rxVars, tickVars
  <2>2. \A i : (Arriving(i)' <=> Arriving(i))
    BY <2>1 DEF Arriving
  <2>3. TypeOK' /\ Sent' /\ NewestMarked'
    BY <2>1 DEF TInv, TypeOK, Sent, NewestMarked
  <2>4. CopiesSent'
    BY <2>1, <2>2 DEF TInv, CopiesSent, Copies
  <2> QED
    BY <2>3, <2>4 DEF TInv
<1>2. CASE agg_flush
  BY <1>2, FlushType
<1>3. ASSUME NEW i \in Ids, Retransmit(i) \/ Drop(i) \/ rx_env(i) PROVE TInv'
  BY <1>3, RetransmitType, DropType, RxEnvType
<1>4. ASSUME NEW a \in acks, rx_ack(a) PROVE TInv'
  BY <1>4, RxAckType
<1>5. CASE Restart \/ Lose
  BY <1>5, RestartType, LoseType
<1>6. CASE rx_data
  BY <1>6, RxDataType
<1>7. CASE rx_send_ack \/ TickCollect \/ TickSendAck \/ peer_get_stale \/ peer_create_evicts
  BY <1>7, ReceiverType
<1> QED
  BY <1>1, <1>2, <1>3, <1>4, <1>5, <1>6, <1>7 DEF Next

\* Under no condition at all does the link leave its types: the counters of both
\* nodes keep to their widths, and no bundle is handed up more often than
\* MaxRetries + 1 times, once for each time it was sent.
THEOREM TypesCorrect == Spec => []TypeOK
<1>1. Init => TInv
  BY InitType
<1>2. TInv /\ [Next]_vars => TInv'
  BY StepType
<1>3. TInv => TypeOK
  BY DEF TInv
<1> QED
  BY <1>1, <1>2, <1>3, PTL DEF Spec

-----------------------------------------------------------------------------
(* The sender and the radio. *)

LEMMA TypePart == IInv => TInv
BY DEF IInv, TInv, MarksTrue, NewestMarked

LEMMA FlushInv ==
  ASSUME IInv, agg_flush
  PROVE  IInv'
<1> DEFINE n == sent + 1
<1>a. TypeOK /\ Sent /\ CopiesSent /\ MarksTrue /\ FidsTrue /\ AcksTrue /\ AckedTrue
  BY DEF IInv
<1>b. n \in Ids /\ sent \in Nat /\ n \in Nat /\ sent' = n
  BY <1>a, Numbers, LinkConstants DEF agg_flush, Ids
<1>c. /\ seq_of' = [seq_of EXCEPT ![n] = SeqTaken(tx_seq)] /\ tx_seq' = TxSeqAfter(tx_seq)
      /\ verdict' = [verdict EXCEPT ![n] = "pending"]
      /\ air' = air \cup {n}
      /\ UNCHANGED <<retries, restarts, acks, peerVars, hold, rxVars, tickVars, got>>
  BY DEF agg_flush
<1>1. TypeOK' /\ Sent' /\ CopiesSent'
  BY TypePart, FlushType DEF TInv
<1>e. \A i \in Ids : i # n => verdict'[i] = verdict[i] /\ seq_of'[i] = seq_of[i]
  BY <1>a, <1>c DEF TypeOK
<1>f. verdict'[n] = "pending"
  BY <1>a, <1>b, <1>c DEF TypeOK
<1>4. /\ MarksTrue' /\ FidsTrue' /\ AcksTrue' /\ \A s : NumberArrived(s) => NumberArrived(s)'
  <2>1. \A j \in 1 .. sent : j \in Ids /\ j # n
    BY <1>a, <1>b, LinkConstants, Numbers DEF Ids
  <2>2. \A j \in Ids : got'[j] \in Nat /\ got[j] <= got'[j]
    BY <1>a, <1>c, Numbers
  <2> QED
    BY <1>b, <1>c, <1>e, <2>1, <2>2, TruthKept DEF peerVars, rxVars, tickVars
<1>5. AckedTrue'
  BY <1>a, <1>e, <1>f, <1>4, AckedKept
<1> QED
  BY <1>1, <1>4, <1>5 DEF IInv

LEMMA RetransmitInv ==
  ASSUME IInv, NEW n \in Ids, Retransmit(n)
  PROVE  IInv'
<1>a. TypeOK /\ Sent /\ CopiesSent /\ MarksTrue /\ FidsTrue /\ AcksTrue /\ AckedTrue
  BY DEF IInv
<1>b. /\ verdict[n] = "pending" /\ retries[n] < MaxRetries
      /\ retries' = [retries EXCEPT ![n] = @ + 1] /\ air' = air \cup {n}
      /\ UNCHANGED <<tx_seq, seq_of, verdict, sent, restarts, acks, peerVars, hold, rxVars,
                     tickVars, got>>
  BY DEF Retransmit
<1>c. /\ sent \in Nat /\ n \in Nat /\ got[n] \in Nat /\ retries[n] \in Nat
      /\ \A i \in Ids : got[i] \in Nat
  BY <1>a, Numbers DEF Ids
<1>1. TypeOK' /\ Sent' /\ CopiesSent'
  BY TypePart, RetransmitType DEF TInv
<1>4. /\ MarksTrue' /\ FidsTrue' /\ AcksTrue' /\ \A s : NumberArrived(s) => NumberArrived(s)'
  BY <1>b, <1>c, TruthKept DEF peerVars, rxVars, tickVars
<1>5. AckedTrue'
  BY <1>a, <1>b, <1>4, AckedKept
<1> QED
  BY <1>1, <1>4, <1>5 DEF IInv

\* Steps that settle bundles: they are given up, or found in an ACK.
LEMMA SettleInv ==
  ASSUME IInv, NEW S \in SUBSET InFlight, NEW v \in {"acked", "dropped"},
         verdict' = [i \in Ids |-> IF i \in S THEN v ELSE verdict[i]],
         retries' \in [Ids -> 0 .. MaxRetries],
         \A i \in Ids : i \notin S /\ verdict[i] \in {"unsent", "pending"} => retries'[i] = retries[i],
         acks' \subseteq acks,
         v = "acked" => \A i \in S : NumberArrived(seq_of[i]),
         UNCHANGED <<tx_seq, seq_of, sent, restarts, air, peerVars, hold, rxVars, tickVars, got>>
  PROVE  IInv'
<1>a. TypeOK /\ Sent /\ CopiesSent /\ MarksTrue /\ FidsTrue /\ AcksTrue /\ AckedTrue
  BY DEF IInv
<1>b. sent \in Nat /\ \A i \in Ids : got[i] \in Nat
  BY <1>a, Numbers
<1>1. TypeOK' /\ Sent' /\ CopiesSent'
  BY TypePart, SettleType DEF TInv
<1>4. /\ MarksTrue' /\ FidsTrue' /\ AcksTrue' /\ \A s : NumberArrived(s) => NumberArrived(s)'
  BY <1>b, TruthKept DEF peerVars, rxVars, tickVars
<1>5. AckedTrue'
  <2>1. \A i \in Ids : verdict'[i] = "acked" => verdict[i] = "acked" \/ NumberArrived(seq_of[i])
    OBVIOUS
  <2> QED
    BY <1>a, <1>4, <2>1, AckedKept
<1> QED
  BY <1>1, <1>4, <1>5 DEF IInv

LEMMA DropInv ==
  ASSUME IInv, NEW n \in Ids, Drop(n)
  PROVE  IInv'
<1>a. TypeOK
  BY DEF IInv
<1>1. {n} \in SUBSET InFlight
  BY DEF Drop, InFlight
<1>2. verdict' = [i \in Ids |-> IF i \in {n} THEN "dropped" ELSE verdict[i]]
  BY <1>a DEF Drop, TypeOK
<1>3. /\ retries' \in [Ids -> 0 .. MaxRetries]
      /\ \A i \in Ids : i \notin {n} => retries'[i] = retries[i]
  BY <1>a, LinkConstants DEF Drop, TypeOK
<1> DEFINE S == {n}
<1>4. S \in SUBSET InFlight /\ verdict' = [i \in Ids |-> IF i \in S THEN "dropped" ELSE verdict[i]]
      /\ \A i \in Ids : i \notin S => retries'[i] = retries[i]
  BY <1>1, <1>2, <1>3
<1>5. acks' \subseteq acks
      /\ UNCHANGED <<tx_seq, seq_of, sent, restarts, air, peerVars, hold, rxVars, tickVars, got>>
  BY DEF Drop
<1> HIDE DEF S
<1> QED
  BY <1>3, <1>4, <1>5, SettleInv

\* An ACK clears only bundles whose numbers it is right about.
LEMMA RxAckInv ==
  ASSUME IInv, NEW a \in acks, rx_ack(a)
  PROVE  IInv'
<1> DEFINE S == {i \in InFlight : Names(a, i)}
<1>a. TypeOK /\ Sent /\ AcksTrue
  BY DEF IInv
<1>1. S \in SUBSET InFlight
  OBVIOUS
<1>2. verdict' = [i \in Ids |-> IF i \in S THEN "acked" ELSE verdict[i]]
  BY DEF rx_ack
<1>3. retries' = [i \in Ids |-> IF i \in S THEN 0 ELSE retries[i]]
  BY DEF rx_ack
<1>4. ASSUME NEW i \in S PROVE NumberArrived(seq_of[i])
  <2>1. i \in Ids /\ verdict[i] = "pending" /\ seq_of[i] \in Seqs /\ Names(a, i)
    BY <1>a, Numbers DEF InFlight
  <2>2. CASE a.env
    BY <1>a, <2>1, <2>2 DEF Names, AcksTrue
  <2>3. CASE ~a.env
    <3>1. got[i] > 0
      BY <1>a, <2>1, <2>3 DEF Names, AcksTrue
    <3>2. i \in 1 .. sent
      BY <1>a, <2>1, Numbers DEF Sent, Ids
    <3> QED
      BY <3>1, <3>2 DEF NumberArrived, Arrived
  <2> QED
    BY <2>2, <2>3
<1>5. /\ acks' \subseteq acks
      /\ UNCHANGED <<tx_seq, seq_of, sent, restarts, air, peerVars, hold, rxVars, tickVars, got>>
  BY DEF rx_ack
<1> HIDE DEF S
<1>6. /\ retries' \in [Ids -> 0 .. MaxRetries]
      /\ \A i \in Ids : i \notin S => retries'[i] = retries[i]
  BY <1>a, <1>3, LinkConstants DEF TypeOK
<1> QED
  BY <1>1, <1>2, <1>4, <1>5, <1>6, SettleInv

\* Bundles and ACKs that are lost.
LEMMA LoseInv ==
  ASSUME IInv, Lose
  PROVE  IInv'
<1>a. TypeOK /\ Sent /\ CopiesSent /\ MarksTrue /\ FidsTrue /\ AcksTrue /\ AckedTrue
  BY DEF IInv
<1>b. sent \in Nat /\ \A i \in Ids : got[i] \in Nat /\ retries[i] \in Nat
  BY <1>a, Numbers
<1>c. /\ air' \subseteq air /\ acks' \subseteq acks
      /\ UNCHANGED <<sndVars, peerVars, hold, rxVars, tickVars, got>>
  BY DEF Lose
<1>1. TypeOK' /\ Sent' /\ CopiesSent'
  BY TypePart, LoseType DEF TInv
<1>4. /\ MarksTrue' /\ FidsTrue' /\ AcksTrue' /\ \A s : NumberArrived(s) => NumberArrived(s)'
  BY <1>b, <1>c, TruthKept DEF sndVars, peerVars, rxVars, tickVars
<1>5. AckedTrue'
  BY <1>a, <1>c, <1>4, AckedKept DEF sndVars
<1> QED
  BY <1>1, <1>4, <1>5 DEF IInv

\* The sender starts over; the receiver keeps its window.
LEMMA RestartInv ==
  ASSUME IInv, Restart
  PROVE  IInv'
<1>a. TypeOK /\ Sent /\ CopiesSent /\ MarksTrue /\ FidsTrue /\ AcksTrue /\ AckedTrue
  BY DEF IInv
<1>b. sent \in Nat /\ \A i \in Ids : got[i] \in Nat /\ retries[i] \in Nat
  BY <1>a, Numbers
<1>c. /\ air' = {} /\ acks' = {} /\ rx_pc = "idle" /\ tx_seq' = 0
      /\ restarts < MaxRestarts /\ restarts' = restarts + 1
      /\ verdict' = [i \in Ids |-> IF i \in InFlight THEN "dropped" ELSE verdict[i]]
      /\ retries' = [i \in Ids |-> 0]
      /\ UNCHANGED <<seq_of, sent, peerVars, hold, rxVars, tickVars, got>>
  BY DEF Restart
<1>1. TypeOK' /\ Sent' /\ CopiesSent'
  BY TypePart, RestartType DEF TInv
<1>d. \A i \in Ids : IF verdict[i] = "pending" THEN verdict'[i] = "dropped"
                     ELSE verdict'[i] = verdict[i]
  BY <1>c DEF InFlight
<1>4. /\ MarksTrue' /\ FidsTrue' /\ AcksTrue' /\ \A s : NumberArrived(s) => NumberArrived(s)'
  BY <1>b, <1>c, TruthKept DEF peerVars, rxVars, tickVars
<1>5. AckedTrue'
  BY <1>a, <1>c, <1>d, <1>4, AckedKept
<1> QED
  BY <1>1, <1>4, <1>5 DEF IInv

-----------------------------------------------------------------------------
(* The receiver. *)

\* While no mark is shifted out of its word, peer_rx_seq marks the number that came
\* and no other.
LEMMA RxSeqMarks ==
  ASSUME NEW w \in Windows, w.seen => 0 \in w.win, NEW seq \in Seqs,
         NEW x \in peer_rx_seq(w, seq), NEW s \in Seqs, Marked(x, s),
         w.seen => \/ Sub(seq, w.last) < Win
                   \/ Sub(w.last, seq) < ShiftBits
                   \/ Sub(w.last, seq) >= Win
  PROVE  s = seq \/ Marked(w, s)
<1>a. w.last \in Seqs /\ Sub(seq, w.last) \in Nat /\ Sub(w.last, seq) \in Nat
      /\ Sub(seq, w.last) \in Seqs
  BY SubType DEF Windows, Seqs
<1>0. ASSUME x = Resync(seq) PROVE s = seq
  <2>1. Sub(seq, s) = 0
    BY <1>0 DEF Marked, Resync
  <2> QED
    BY <2>1, LinkConstants DEF Sub, Seqs
<1>1. CASE ~w.seen
  BY <1>0, <1>1 DEF peer_rx_seq
<1>2. CASE w.seen /\ (Sub(seq, w.last) < Win \/ Sub(w.last, seq) < ShiftBits)
  BY <1>2, RxSeqExact
<1>3. CASE w.seen /\ ~(Sub(seq, w.last) < Win) /\ Sub(w.last, seq) >= Win
  <2>1. Sub(seq, w.last) # 0 /\ ~(Sub(w.last, seq) < Win)
    BY <1>3, <1>a, LinkConstants
  <2>2. x = Resync(seq)
    BY <1>3, <2>1 DEF peer_rx_seq
  <2> QED
    BY <1>0, <2>2
<1> QED
  BY <1>1, <1>2, <1>3, <1>a, LinkConstants

\* A bundle comes: it is recorded if its sender is known, and goes on to rx_data
\* unless it is a copy.
LEMMA RxEnvInv ==
  ASSUME IInv, ~late', NEW n \in Ids, rx_env(n)
  PROVE  IInv'
<1>a. TypeOK /\ Sent /\ CopiesSent /\ MarksTrue /\ FidsTrue /\ AcksTrue /\ AckedTrue
  BY DEF IInv
<1>b. /\ n \in air /\ rx_pc = "idle" /\ air' = air \ {n}
      /\ UNCHANGED <<sndVars, acks, known, ring, since, due, hold, rx_fids, tickVars, got>>
  BY DEF rx_env
<1>c. /\ sent \in Nat /\ seq_of[n] \in Seqs /\ rx \in Windows /\ n \in 1 .. sent
      /\ \A i \in Ids : got[i] \in Nat /\ retries[i] \in Nat
  BY <1>a, <1>b, Numbers DEF Sent, Ids
<1>d. \/ known /\ Marked(rx, seq_of[n]) /\ UNCHANGED <<rx_pc, rx_id>>
      \/ ~(known /\ Marked(rx, seq_of[n])) /\ rx_pc' = "data" /\ rx_id' = n
  BY DEF rx_env
<1>e. IF known THEN rx' \in peer_rx_seq(rx, seq_of[n]) ELSE rx' = rx
  BY DEF rx_env
<1>f. known => ~OutOfShift(rx, seq_of[n])
  BY DEF rx_env
<1>1. \A s : NumberArrived(s) => NumberArrived(s)'
  <2>1. \A j \in 1 .. sent : Arrived(j) => Arrived(j)'
    BY <1>b DEF Arrived, Arriving
  <2> QED
    BY <1>a, <1>b, <1>c, <2>1, NumbersKept DEF sndVars
<1>2. \A s : s = seq_of[n] => NumberArrived(s)'
  <2> SUFFICES ASSUME NEW s, s = seq_of[n] PROVE NumberArrived(s)'
    OBVIOUS
  <2>1. CASE Marked(rx, seq_of[n])
    BY <1>a, <1>c, <1>1, <2>1 DEF MarksTrue
  <2>2. CASE rx_pc' = "data" /\ rx_id' = n
    <3>1. Arrived(n)' /\ n \in 1 .. sent' /\ seq_of'[n] = s
      BY <1>b, <1>c, <2>2 DEF Arrived, Arriving, sndVars
    <3> QED
      BY <3>1 DEF NumberArrived
  <2> QED
    BY <1>d, <2>1, <2>2
<1>3. MarksTrue'
  <2>1. CASE known
    <3>1. rx' \in peer_rx_seq(rx, seq_of[n])
      BY <1>e, <2>1
    <3>2. rx' \in Windows /\ rx'.seen /\ 0 \in rx'.win
      BY <1>a, <1>c, <3>1, RxSeqType DEF MarksTrue
    <3>3. ASSUME NEW s \in Seqs, Marked(rx', s) PROVE s = seq_of[n] \/ Marked(rx, s)
      <4>1. rx.seen => \/ Sub(seq_of[n], rx.last) < Win
                       \/ Sub(rx.last, seq_of[n]) < ShiftBits
                       \/ Sub(rx.last, seq_of[n]) >= Win
        <5>1. rx.last \in Seqs
          BY <1>c DEF Windows
        <5>2. Sub(seq_of[n], rx.last) \in Nat /\ Sub(rx.last, seq_of[n]) \in Nat
          BY <1>c, <5>1, SubNat
        <5> QED
          BY <1>f, <2>1, <5>2, LinkConstants DEF OutOfShift
      <4> QED
        BY <1>a, <1>c, <3>1, <3>3, <4>1, RxSeqMarks DEF MarksTrue
    <3>4. ASSUME NEW s \in Seqs, Marked(rx', s) PROVE NumberArrived(s)'
      BY <1>a, <1>1, <1>2, <3>3, <3>4 DEF MarksTrue
    <3> QED
      BY <3>2, <3>4 DEF MarksTrue, Marked
  <2>2. CASE ~known
    <3>1. rx' = rx
      BY <1>e, <2>2
    <3> QED
      BY <1>a, <1>c, <1>1, <3>1 DEF MarksTrue, Marked
  <2> QED
    BY <2>1, <2>2
<1>4. TypeOK' /\ Sent' /\ CopiesSent'
  BY TypePart, RxEnvType DEF TInv
<1>7. FidsTrue' /\ AcksTrue'
  <2>1. FidsTrue'
    BY <1>a, <1>b DEF FidsTrue, tickVars
  <2>2. AcksTrue'
    <3> SUFFICES ASSUME NEW a \in acks
                 PROVE  /\ a.env => \A s \in Seqs : Covers(a, s) => NumberArrived(s)'
                        /\ \A i \in a.fids : got'[i] > 0
      BY <1>b DEF AcksTrue
    <3> QED
      BY <1>a, <1>b, <1>1 DEF AcksTrue
  <2> QED
    BY <2>1, <2>2
<1>8. AckedTrue'
  BY <1>a, <1>b, <1>1, AckedKept DEF sndVars
<1> QED
  BY <1>3, <1>4, <1>7, <1>8 DEF IInv

\* A frame is handed up, or found in the dedup ring; an ACK is prepared.
LEMMA RxDataInv ==
  ASSUME IInv, rx_data
  PROVE  IInv'
<1> DEFINE m == rx_id
           d == IF dedup_seen(ring, m) THEN ring ELSE dedup_remember(ring, m)
<1>a. TypeOK /\ Sent /\ CopiesSent /\ MarksTrue /\ FidsTrue /\ AcksTrue /\ AckedTrue
  BY DEF IInv
<1>b. rx_pc = "data" /\ rx_id' = 0 /\ UNCHANGED <<sndVars, air, acks, hold, tickVars>>
  BY DEF rx_data
<1>c. /\ sent \in Nat /\ rx \in Windows /\ m \in 1 .. sent /\ m \in Ids
      /\ \A i \in Ids : got[i] \in Nat /\ retries[i] \in Nat
  BY <1>a, <1>b, Numbers, LinkConstants DEF Sent, Ids
<1>d. Arriving(m) /\ \A i \in Ids : Arriving(i) <=> i = m
  BY <1>b DEF Arriving
<1>e. \/ /\ known' = TRUE
         /\ rx' \in {rx} \cup (IF known /\ Stales THEN {NoWindow} ELSE {})
         /\ ring' = d
         /\ got' = IF dedup_seen(ring, m) THEN got ELSE [got EXCEPT ![m] = @ + 1]
         /\ ack_decide(d)
      \/ /\ ~known /\ Evicts
         /\ got' = [got EXCEPT ![m] = @ + 1]
         /\ rx_pc' = "idle"
         /\ UNCHANGED <<peerVars, rx_fids>>
  BY DEF rx_data
<1>f. d \in Seq(Ids) /\ Len(d) <= DedupWin /\ Len(d) \in Nat /\ DOMAIN d = 1 .. Len(d)
      /\ \A k \in 1 .. Len(d) : d[k] = m \/ \E q \in 1 .. Len(ring) : d[k] = ring[q]
  BY <1>a, <1>c, RingAfter
<1>g. dedup_seen(ring, m) => got[m] > 0
  BY <1>a, Numbers DEF dedup_seen, FidsTrue
<1>h. (got' = got /\ got[m] > 0) \/ got' = [got EXCEPT ![m] = @ + 1]
  BY <1>e, <1>g
<1>i. rx' = rx \/ rx' = NoWindow
  BY <1>e DEF peerVars
<1> HIDE DEF d, m
<1>j. /\ got'[m] > 0 /\ got'[m] \in Nat /\ got'[m] <= got[m] + 1
      /\ \A i \in Ids : i # m => got'[i] = got[i]
      /\ \A i \in Ids : got'[i] \in Nat /\ (got[i] > 0 => got'[i] > 0)
      /\ DOMAIN got' = Ids /\ got' = [i \in Ids |-> got'[i]]
  <2>0. got \in [Ids -> 0 .. MaxRetries + 1]
    BY <1>a DEF TypeOK
  <2>1. CASE got' = got /\ got[m] > 0
    BY <1>c, <2>0, <2>1
  <2>2. CASE got' = [got EXCEPT ![m] = @ + 1]
    <3>1. /\ got'[m] = got[m] + 1 /\ DOMAIN got' = Ids /\ got' = [i \in Ids |-> got'[i]]
          /\ \A i \in Ids : i # m => got'[i] = got[i]
      BY <1>c, <2>0, <2>2
    <3>2. got'[m] > 0 /\ got'[m] \in Nat /\ got'[m] <= got[m] + 1
      BY <1>c, <3>1
    <3> QED
      BY <1>c, <3>1, <3>2
  <2> QED
    BY <1>h, <2>1, <2>2
<1>1. TypeOK' /\ Sent' /\ CopiesSent'
  BY TypePart, RxDataType DEF TInv
<1>4. \A s : NumberArrived(s) => NumberArrived(s)'
  <2>1. \A j \in 1 .. sent : j \in Ids
    BY <1>c, <1>a, Numbers, LinkConstants DEF Ids
  <2>2. \A j \in 1 .. sent : Arrived(j) => Arrived(j)'
    BY <1>d, <1>j, <2>1 DEF Arrived
  <2> QED
    BY <1>a, <1>b, <1>c, <2>2, NumbersKept DEF sndVars
<1>5. MarksTrue'
  <2>1. CASE rx' = rx
    BY <1>a, <1>4, <2>1 DEF MarksTrue, Marked
  <2>2. CASE rx' = NoWindow
    BY <2>2 DEF MarksTrue, Marked, NoWindow
  <2> QED
    BY <1>i, <2>1, <2>2
<1>6. FidsTrue'
  <2>1. \A k \in 1 .. Len(ring) : ring[k] \in Ids /\ got'[ring[k]] > 0
    BY <1>a, <1>j, Numbers DEF FidsTrue
  <2>2. \A k \in 1 .. Len(d) : got'[d[k]] > 0
    BY <1>f, <1>j, <2>1
  <2>3. \A k \in 1 .. Len(ring') : got'[ring'[k]] > 0
    BY <1>e, <2>1, <2>2 DEF peerVars
  <2>4. \A i \in build_fids(d) : got'[i] > 0
    BY <1>f, <2>2, FidsFromRing
  <2>5. \A i \in rx_fids \cup tick_fids : got'[i] > 0
    BY <1>a, <1>j DEF FidsTrue, TypeOK
  <2>6. rx_fids' = rx_fids \/ rx_fids' = {} \/ rx_fids' = build_fids(d)
    BY <1>e DEF ack_decide
  <2> QED
    BY <1>b, <2>3, <2>4, <2>5, <2>6 DEF FidsTrue, tickVars
<1>7. AcksTrue'
  <2> SUFFICES ASSUME NEW a \in acks
               PROVE  /\ a.env => \A s \in Seqs : Covers(a, s) => NumberArrived(s)'
                      /\ \A i \in a.fids : got'[i] > 0
    BY <1>b DEF AcksTrue
  <2>1. a.fids \subseteq Ids
    BY <1>a DEF TypeOK
  <2> QED
    BY <1>a, <1>j, <1>4, <2>1 DEF AcksTrue
<1>8. AckedTrue'
  BY <1>a, <1>b, <1>4, AckedKept DEF sndVars
<1> QED
  BY <1>1, <1>5, <1>6, <1>7, <1>8 DEF IInv

\* Steps of the receiver that hand up nothing: they send an ACK, collect one, or
\* forget what the receiver knows.
LEMMA QuietInv ==
  ASSUME IInv, UNCHANGED <<sndVars, air, hold, got, rx_id>>,
         rx_pc' = rx_pc \/ (rx_pc = "ack" /\ rx_pc' = "idle"),
         rx' = rx \/ rx' = NoWindow, ring' = ring \/ ring' = <<>>,
         known' \in BOOLEAN, due' \in BOOLEAN, since' = since \/ since' = 0,
         tick_pc' \in {"idle", "ack"},
         acks' \subseteq [env : BOOLEAN, base : Seqs, bm : SUBSET Bits, fids : SUBSET Ids],
         \A a \in acks' : /\ a.env => \A s \in Seqs : Covers(a, s) => NumberArrived(s)
                          /\ \A i \in a.fids : got[i] > 0,
         rx_fids' \subseteq Ids, tick_fids' \subseteq Ids,
         \A i \in rx_fids' \cup tick_fids' : got[i] > 0
  PROVE  IInv'
<1>a. TypeOK /\ Sent /\ CopiesSent /\ MarksTrue /\ FidsTrue /\ AcksTrue /\ AckedTrue
  BY DEF IInv
<1>b. \A i : Arriving(i)' <=> Arriving(i)
  BY DEF Arriving
<1>c. UNCHANGED <<tx_seq, seq_of, verdict, retries, sent, restarts>>
  BY DEF sndVars
<1>1. \A s : NumberArrived(s) <=> NumberArrived(s)'
  BY <1>b, <1>c DEF NumberArrived, Arrived
<1>2. TypeOK' /\ Sent' /\ CopiesSent'
  BY TypePart, QuietType DEF TInv
<1>5. MarksTrue'
  <2>1. CASE rx' = rx
    BY <1>a, <1>1, <2>1 DEF MarksTrue, Marked
  <2>2. CASE rx' = NoWindow
    BY <2>2 DEF MarksTrue, Marked, NoWindow
  <2> QED
    BY <2>1, <2>2
<1>6. FidsTrue'
  <2>1. \A k \in 1 .. Len(ring') : got'[ring'[k]] > 0
    <3>1. CASE ring' = ring
      BY <1>a, <3>1 DEF FidsTrue
    <3>2. CASE ring' = <<>>
      <4>1. Len(ring') = 0
        BY <3>2
      <4> QED
        BY <4>1
    <3> QED
      BY <3>1, <3>2
  <2> QED
    BY <2>1 DEF FidsTrue
<1>7. AcksTrue'
  BY <1>1 DEF AcksTrue
<1>8. AckedTrue'
  BY <1>a, <1>1, <1>c, AckedKept
<1> QED
  BY <1>2, <1>5, <1>6, <1>7, <1>8 DEF IInv

\* An ACK says of the window, or of the list collected before, what is true.
LEMMA SendAckTrue ==
  ASSUME IInv, NEW fids \in SUBSET Ids, \A i \in fids : got[i] > 0, SendAck(fids)
  PROVE  /\ acks' \subseteq [env : BOOLEAN, base : Seqs, bm : SUBSET Bits, fids : SUBSET Ids]
         /\ \A a \in acks' : /\ a.env => \A s \in Seqs : Covers(a, s) => NumberArrived(s)
                             /\ \A i \in a.fids : got[i] > 0
<1> DEFINE T == [env : BOOLEAN, base : Seqs, bm : SUBSET Bits, fids : SUBSET Ids]
           c == [env |-> TRUE, base |-> Capture(rx).base, bm |-> Capture(rx).bm, fids |-> {}]
           f == [env |-> FALSE, base |-> 0, bm |-> {}, fids |-> fids]
           a0 == IF known /\ rx.seen THEN c ELSE f
<1>a. TypeOK /\ MarksTrue /\ AcksTrue
  BY DEF IInv
<1>b. rx \in Windows
  BY <1>a DEF TypeOK
<1>c. acks' \subseteq acks \cup {a0}
  BY DEF SendAck
<1>3. rx.seen => \A s \in Seqs : Covers(c, s) => NumberArrived(s)
  <2> SUFFICES ASSUME rx.seen, NEW s \in Seqs, Covers(c, s) PROVE NumberArrived(s)
    OBVIOUS
  <2>1. Covers(Capture(rx), s)
    BY DEF Covers
  <2> QED
    BY <1>a, <1>b, <2>1, CaptureExact DEF MarksTrue
<1>4. c.fids = {} /\ f.fids = fids /\ f.env = FALSE
  OBVIOUS
<1> HIDE DEF c, f
<1>6. /\ a0.env => \A s \in Seqs : Covers(a0, s) => NumberArrived(s)
      /\ \A i \in a0.fids : got[i] > 0
  <2>1. CASE known /\ rx.seen
    BY <1>3, <1>4, <2>1
  <2>2. CASE ~(known /\ rx.seen)
    BY <1>4, <2>2
  <2> QED
    BY <2>1, <2>2
<1> HIDE DEF a0, T
<1>7. \A a \in acks : /\ a.env => \A s \in Seqs : Covers(a, s) => NumberArrived(s)
                      /\ \A i \in a.fids : got[i] > 0
  BY <1>a DEF AcksTrue
<1>8. acks' \subseteq T
  BY <1>a, SendAckType DEF T
<1>9. \A a \in acks' : /\ a.env => \A s \in Seqs : Covers(a, s) => NumberArrived(s)
                       /\ \A i \in a.fids : got[i] > 0
  BY <1>c, <1>6, <1>7
<1> QED
  BY <1>8, <1>9 DEF T

\* The receiver's other steps.
LEMMA ReceiverInv ==
  ASSUME IInv, rx_send_ack \/ TickCollect \/ TickSendAck \/ peer_get_stale \/ peer_create_evicts
  PROVE  IInv'
<1>a. TypeOK /\ FidsTrue /\ AcksTrue
  BY DEF IInv
<1>b. /\ known \in BOOLEAN /\ due \in BOOLEAN /\ tick_pc \in {"idle", "ack"}
      /\ rx_fids \subseteq Ids /\ tick_fids \subseteq Ids
      /\ acks \subseteq [env : BOOLEAN, base : Seqs, bm : SUBSET Bits, fids : SUBSET Ids]
  BY <1>a DEF TypeOK
<1>c. \A i \in rx_fids \cup tick_fids : got[i] > 0
  BY <1>a DEF FidsTrue
<1>d. \A a \in acks : /\ a.env => \A s \in Seqs : Covers(a, s) => NumberArrived(s)
                      /\ \A i \in a.fids : got[i] > 0
  BY <1>a DEF AcksTrue
<1>1. CASE rx_send_ack
  <2>1. /\ rx_pc = "ack" /\ rx_pc' = "idle" /\ rx_fids' = {} /\ SendAck(rx_fids)
        /\ UNCHANGED <<sndVars, air, known, rx, ring, since, due, hold, rx_id, tick_pc, tick_fids, got>>
    BY <1>1 DEF rx_send_ack, peerVars, tickVars
  <2> QED
    BY <1>b, <1>c, <2>1, SendAckTrue, QuietInv
<1>2. CASE TickSendAck
  <2>1. /\ tick_pc' = "idle" /\ tick_fids' = {} /\ SendAck(tick_fids)
        /\ UNCHANGED <<sndVars, air, known, rx, ring, since, due, hold, rx_pc, rx_id, rx_fids, got>>
    BY <1>2 DEF TickSendAck, peerVars, rxVars
  <2> QED
    BY <1>b, <1>c, <2>1, SendAckTrue, QuietInv
<1>3. CASE TickCollect
  <2>1. /\ due' = FALSE /\ since' = 0 /\ tick_pc' = "ack" /\ tick_fids' = build_fids(ring)
        /\ UNCHANGED <<sndVars, air, acks, known, rx, ring, hold, rx_pc, rx_id, rx_fids, got>>
    BY <1>3 DEF TickCollect, rxVars
  <2>2. ring \in Seq(Ids)
    BY <1>a DEF TypeOK
  <2>3. build_fids(ring) \subseteq Ids /\ \A i \in build_fids(ring) : got[i] > 0
    BY <1>a, <2>2, FidsFromRing DEF FidsTrue
  <2>4. due' \in BOOLEAN
    BY <2>1
  <2> QED
    BY <1>b, <1>c, <1>d, <2>1, <2>3, <2>4, QuietInv
<1>4. CASE peer_get_stale
  <2>1. /\ rx' = NoWindow
        /\ UNCHANGED <<sndVars, air, acks, known, ring, since, due, hold, rx_pc, rx_id, rx_fids,
                       tick_pc, tick_fids, got>>
    BY <1>4 DEF peer_get_stale, rxVars, tickVars
  <2> QED
    BY <1>b, <1>c, <1>d, <2>1, QuietInv
<1>5. CASE peer_create_evicts
  <2>1. /\ rx' = NoWindow /\ ring' = <<>> /\ since' = 0 /\ due' = FALSE /\ known' = FALSE
        /\ UNCHANGED <<sndVars, air, acks, hold, rx_pc, rx_id, rx_fids, tick_pc, tick_fids, got>>
    BY <1>5 DEF peer_create_evicts, rxVars, tickVars
  <2>2. due' \in BOOLEAN /\ known' \in BOOLEAN
    BY <2>1
  <2> QED
    BY <1>b, <1>c, <1>d, <2>1, <2>2, QuietInv
<1> QED
  BY <1>1, <1>2, <1>3, <1>4, <1>5

-----------------------------------------------------------------------------
(* The invariant. *)

LEMMA InitInv ==
  ASSUME Init
  PROVE  IInv
<1>1. TypeOK /\ Sent /\ CopiesSent
  BY InitType DEF TInv
<1>4. MarksTrue
  BY DEF MarksTrue, Marked, NoWindow, Init
<1>5. FidsTrue
  <2>1. Len(ring) = 0
    BY DEF Init
  <2> QED
    BY <2>1 DEF FidsTrue, Init
<1>6. AcksTrue /\ AckedTrue
  BY DEF AcksTrue, AckedTrue, Init
<1> QED
  BY <1>1, <1>4, <1>5, <1>6 DEF IInv

LEMMA StepInv ==
  ASSUME IInv, ~late', [Next]_vars
  PROVE  IInv'
<1>1. CASE UNCHANGED vars
  <2>1. UNCHANGED <<tx_seq, seq_of, verdict, retries, sent, restarts, air, acks, known, rx, ring,
                    since, due, hold, rx_pc, rx_id, rx_fids, tick_pc, tick_fids, got>>
    BY <1>1 DEF vars, sndVars, peerVars, rxVars, tickVars
  <2>2. \A i : (Arriving(i)' <=> Arriving(i))
    BY <2>1 DEF Arriving
  <2>3. TypeOK' /\ Sent'
    BY <2>1 DEF IInv, TypeOK, Sent
  <2>4. CopiesSent'
    BY <2>1, <2>2 DEF IInv, CopiesSent, Copies
  <2>5. \A s : NumberArrived(s) <=> NumberArrived(s)'
    BY <2>1, <2>2 DEF NumberArrived, Arrived
  <2>6. MarksTrue' /\ FidsTrue' /\ AcksTrue'
    BY <2>1, <2>5 DEF IInv, MarksTrue, FidsTrue, AcksTrue, Marked
  <2>7. AckedTrue'
    BY <2>1, <2>5, AckedKept DEF IInv
  <2> QED
    BY <2>3, <2>4, <2>6, <2>7 DEF IInv
<1>2. CASE agg_flush
  BY <1>2, FlushInv
<1>3. ASSUME NEW i \in Ids, Retransmit(i) \/ Drop(i) \/ rx_env(i) PROVE IInv'
  BY <1>3, RetransmitInv, DropInv, RxEnvInv
<1>4. ASSUME NEW a \in acks, rx_ack(a) PROVE IInv'
  BY <1>4, RxAckInv
<1>5. CASE Restart \/ Lose
  BY <1>5, RestartInv, LoseInv
<1>6. CASE rx_data
  BY <1>6, RxDataInv
<1>7. CASE rx_send_ack \/ TickCollect \/ TickSendAck \/ peer_get_stale \/ peer_create_evicts
  BY <1>7, ReceiverInv
<1> QED
  BY <1>1, <1>2, <1>3, <1>4, <1>5, <1>6, <1>7 DEF Next

\* Nothing that was lost is found again.
LEMMA HistoryGrows ==
  ASSUME TypeOK, [Next]_vars
  PROVE  (late => late') /\ forgotten \subseteq forgotten' /\ (restarts > 0 => restarts' > 0)
<1>1. CASE UNCHANGED vars
  BY <1>1 DEF vars, histVars, sndVars
<1>2. ASSUME NEW n \in Ids, rx_env(n) PROVE (late => late') /\ forgotten \subseteq forgotten' /\ restarts' = restarts
  BY <1>2 DEF rx_env, sndVars
<1>3. CASE rx_data
  BY <1>3 DEF rx_data, sndVars
<1>4. CASE Restart
  <2>1. restarts \in Nat /\ restarts' = restarts + 1
    BY <1>4, LinkConstants DEF Restart, TypeOK
  <2> QED
    BY <1>4, <2>1 DEF Restart, histVars
<1>5. CASE peer_get_stale \/ peer_create_evicts
  BY <1>5 DEF peer_get_stale, peer_create_evicts, sndVars
<1>6. ASSUME NEW n \in Ids, Retransmit(n) \/ Drop(n) PROVE UNCHANGED <<late, forgotten, restarts>>
  BY <1>6 DEF Retransmit, Drop, histVars
<1>7. ASSUME NEW a \in acks, rx_ack(a) PROVE UNCHANGED <<late, forgotten, restarts>>
  BY <1>7 DEF rx_ack, histVars
<1>8. CASE agg_flush \/ Lose \/ rx_send_ack \/ TickCollect \/ TickSendAck
  BY <1>8 DEF agg_flush, Lose, rx_send_ack, TickCollect, TickSendAck, sndVars, histVars
<1> QED
  BY <1>1, <1>2, <1>3, <1>4, <1>5, <1>6, <1>7, <1>8 DEF Next

\* Marks, lists and acknowledgements are true until a bundle comes too late for the
\* receiver's shift, whatever is lost, repeated, restarted, reset or evicted.
LInv == TInv /\ (late \/ IInv)

LEMMA StepLInv ==
  ASSUME LInv, [Next]_vars
  PROVE  LInv'
<1>1. TInv /\ TInv' /\ (late => late')
  BY StepType, HistoryGrows DEF LInv, TInv
<1>2. CASE late'
  BY <1>1, <1>2 DEF LInv
<1>3. CASE ~late'
  BY <1>1, <1>3, StepInv DEF LInv
<1> QED
  BY <1>2, <1>3

THEOREM LinkInvariance == Spec => []LInv
<1>1. Init => LInv
  BY InitType, InitInv DEF LInv
<1>2. LInv /\ [Next]_vars => LInv'
  BY StepLInv
<1> QED
  BY <1>1, <1>2, PTL DEF Spec

LEMMA MarksDelivered ==
  ASSUME IInv
  PROVE  MarkedWasDelivered
<1> SUFFICES ASSUME rx.seen, NEW b \in rx.win
             PROVE  \E i \in 1 .. sent : seq_of[i] = Sub(rx.last, b) /\ Arrived(i)
  BY DEF MarkedWasDelivered
<1>1. TypeOK /\ MarksTrue
  BY DEF IInv
<1>2. rx \in Windows
  BY <1>1 DEF TypeOK
<1>3. rx.last \in Seqs /\ b \in Bits
  BY <1>2 DEF Windows
<1>4. b \in Seqs
  BY <1>3, LinkConstants DEF Bits, Seqs
<1> DEFINE s == Sub(rx.last, b)
<1>5. s \in Seqs /\ Sub(rx.last, s) = b
  BY <1>3, <1>4, SubType, SubInverse
<1>6. Marked(rx, s)
  BY <1>5 DEF Marked
<1>7. NumberArrived(s)
  BY <1>1, <1>5, <1>6 DEF MarksTrue
<1> QED
  BY <1>7 DEF NumberArrived

\* Until a bundle comes too late for the receiver's shift, every mark in the receiver's
\* window stands for a bundle that arrived, and every number the sender counts as
\* acknowledged was handed up, through restarts of the sender, stale resets and
\* evictions.
THEOREM MarksAndAcksCorrect == Spec => [](MarkedWasDelivered /\ AckedNumberDelivered)
<1>1. ASSUME LInv PROVE MarkedWasDelivered /\ AckedNumberDelivered
  <2>1. CASE late
    BY <2>1 DEF MarkedWasDelivered, AckedNumberDelivered
  <2>2. CASE IInv
    BY <2>2, MarksDelivered DEF IInv, AckedTrue, AckedNumberDelivered
  <2> QED
    BY <1>1, <2>1, <2>2 DEF LInv
<1> QED
  BY <1>1, LinkInvariance, PTL

-----------------------------------------------------------------------------
(* The numbers of the bundles that are around, and of all of them while the *)
(* sender has not started over.                                             *)

\* The numbers of two bundles are as far apart as the bundles, and one further
\* when the number that is skipped lies between them.
Apart(a, b, d) == b = a + d \/ b = a + d + 1 - Mod

\* The bundles of S, of which m were sent, and the next number t.
Spaced(S, seqs, t, m) ==
  /\ \A i, j \in S : i < j => Apart(seqs[i], seqs[j], j - i)
  /\ \A i \in S : Apart(seqs[i], t, m + 1 - i)

\* What may still come.
Around == air \cup InFlight

Numbered ==
  /\ Spaced(Around, seq_of, tx_seq, sent)
  /\ restarts = 0 => Spaced(1 .. sent, seq_of, tx_seq, sent)

LEMMA AroundSent ==
  ASSUME TypeOK, Sent
  PROVE  Around \subseteq 1 .. sent
<1> SUFFICES ASSUME NEW i \in Around PROVE i \in 1 .. sent
  OBVIOUS
<1>1. i \in Ids /\ i \in Nat /\ i >= 1 /\ sent \in Nat
  BY Numbers DEF Around, TypeOK, InFlight, Ids
<1>2. i <= sent
  <2>1. CASE i \in air
    BY <2>1 DEF Sent
  <2>2. CASE verdict[i] = "pending"
    BY <1>1, <2>2 DEF Sent
  <2> QED
    BY <2>1, <2>2 DEF Around, InFlight
<1> QED
  BY <1>1, <1>2

\* How far apart the numbers of two bundles are, either way.
LEMMA Distance ==
  ASSUME TypeOK, NEW S \in SUBSET (1 .. sent), Spaced(S, seq_of, tx_seq, sent),
         NEW i \in S, NEW j \in S, i < j
  PROVE  /\ Sub(seq_of[j], seq_of[i]) \in {j - i, j - i + 1}
         /\ Sub(seq_of[i], seq_of[j]) = Mod - Sub(seq_of[j], seq_of[i])
         /\ seq_of[i] # seq_of[j]
<1>0. i \in 1 .. sent /\ j \in 1 .. sent
  OBVIOUS
<1>1. sent \in Nat /\ sent <= N /\ i \in Ids /\ j \in Ids
  BY <1>0, Numbers, LinkConstants DEF Ids
<1>2. /\ seq_of[i] \in Nat /\ seq_of[i] <= Mod - 2
      /\ seq_of[j] \in Nat /\ seq_of[j] <= Mod - 2
  BY <1>1, Numbers
<1>3. Apart(seq_of[i], seq_of[j], j - i)
  BY DEF Spaced
<1>4. j - i \in Nat /\ j - i <= N - 1 /\ j - i > 0 /\ N \in Nat /\ N < Mod /\ Mod \in Nat
  BY <1>0, <1>1, LinkConstants
<1> DEFINE a == seq_of[i]
           b == seq_of[j]
           d == j - i
<1> HIDE DEF a, b, d
<1>5. a \in Nat /\ a <= Mod - 2 /\ b \in Nat /\ b <= Mod - 2 /\ d \in Nat /\ d <= N - 1 /\ d > 0
      /\ (b = a + d \/ b = a + d + 1 - Mod)
  BY <1>2, <1>3, <1>4 DEF a, b, d, Apart
<1>6. Sub(b, a) \in {d, d + 1} /\ Sub(a, b) = Mod - Sub(b, a) /\ a # b
  BY <1>4, <1>5 DEF Sub
<1> QED
  BY <1>6 DEF a, b, d

\* Bundles have different numbers.
LEMMA Unique ==
  ASSUME TypeOK, Spaced(1 .. sent, seq_of, tx_seq, sent),
         NEW i \in 1 .. sent, NEW j \in 1 .. sent, seq_of[i] = seq_of[j]
  PROVE  i = j
<1> DEFINE S == 1 .. sent
<1>0. S \in SUBSET (1 .. sent) /\ i \in S /\ j \in S /\ Spaced(S, seq_of, tx_seq, sent)
  OBVIOUS
<1> HIDE DEF S
<1>1. ~(i < j) /\ ~(j < i)
  BY <1>0, Distance
<1>2. sent \in Nat
  BY Numbers
<1> QED
  BY <1>1, <1>2

\* A new bundle takes the next number.
LEMMA FlushSpaced ==
  ASSUME NEW m \in Nat, m < N, NEW S \in SUBSET (1 .. m), NEW q \in [Ids -> 0 .. Mod - 2],
         NEW tx \in Seqs, Spaced(S, q, tx, m)
  PROVE  Spaced(S \cup {m + 1}, [q EXCEPT ![m + 1] = SeqTaken(tx)], TxSeqAfter(tx), m + 1)
<1> DEFINE n == m + 1
           t == SeqTaken(tx)
           r == [q EXCEPT ![n] = t]
<1>b. /\ n \in Ids /\ n \in Nat /\ n <= N
      /\ \A i \in S : i \in 1 .. m /\ i \in Ids /\ i # n /\ i < n
  BY LinkConstants DEF Ids
<1>d. r[n] = t /\ \A i \in S : r[i] = q[i]
  BY <1>b
<1>e. tx \in Nat /\ tx <= Mod - 1
  BY LinkConstants DEF Seqs
<1>f. t \in Nat /\ t = IF tx = Mod - 1 THEN 0 ELSE tx
  BY <1>e DEF SeqTaken
<1>g. TxSeqAfter(tx) = t + 1
  BY DEF TxSeqAfter
<1>1. ASSUME NEW i \in S
      PROVE  Apart(q[i], t, n - i) /\ Apart(q[i], t + 1, n + 1 - i)
  <2>1. q[i] \in Nat /\ q[i] <= Mod - 2
    BY <1>b, LinkConstants
  <2>2. Apart(q[i], tx, n - i)
    BY DEF Spaced
  <2>3. n - i \in Nat /\ n - i < N /\ n + 1 - i = n - i + 1
    BY <1>b, LinkConstants
  <2> DEFINE a == q[i]
             d == n - i
  <2> HIDE DEF a, d, t
  <2>4. a \in Nat /\ a <= Mod - 2 /\ d \in Nat /\ d < N
        /\ (tx = a + d \/ tx = a + d + 1 - Mod)
    BY <2>1, <2>2, <2>3 DEF a, d, Apart
  <2>5. t = a + d \/ t = a + d + 1 - Mod
    BY <1>e, <1>f, <2>4, LinkConstants
  <2>6. Apart(a, t, d) /\ Apart(a, t + 1, d + 1)
    <3>1. t \in Nat /\ Mod \in Nat
      BY <1>f, LinkConstants
    <3> QED
      BY <2>4, <2>5, <3>1 DEF Apart
  <2> QED
    BY <2>3, <2>6 DEF a, d
<1> HIDE DEF t, r
<1>2. ASSUME NEW i \in S \cup {n}, NEW j \in S \cup {n}, i < j
      PROVE  Apart(r[i], r[j], j - i)
  <2>1. i \in S
    BY <1>b, <1>2
  <2>2. CASE j = n
    BY <1>1, <1>d, <2>1, <2>2
  <2>3. CASE j \in S
    BY <1>d, <1>2, <2>1, <2>3 DEF Spaced
  <2> QED
    BY <2>2, <2>3
<1>3. ASSUME NEW i \in S \cup {n}
      PROVE  Apart(r[i], t + 1, n + 1 - i)
  <2>1. CASE i = n
    BY <1>b, <1>d, <1>f, <2>1, LinkConstants DEF Apart
  <2>2. CASE i \in S
    BY <1>1, <1>d, <2>2
  <2> QED
    BY <2>1, <2>2
<1>4. Spaced(S \cup {n}, r, t + 1, n)
  BY <1>2, <1>3 DEF Spaced
<1> QED
  BY <1>4, <1>g DEF r, t

LEMMA SpacedSubset ==
  ASSUME NEW S, NEW T \in SUBSET S, NEW q, NEW t, NEW m, Spaced(S, q, t, m)
  PROVE  Spaced(T, q, t, m)
BY DEF Spaced

\* Whatever happens, what is around is numbered in the order it was sent: a restart
\* leaves nothing around.
LEMMA StepNumbered ==
  ASSUME TInv, Numbered, [Next]_vars
  PROVE  Numbered'
<1>a. /\ TypeOK /\ Sent /\ sent \in Nat /\ tx_seq \in Seqs /\ restarts \in Nat
      /\ seq_of \in [Ids -> 0 .. Mod - 2]
      /\ verdict \in [Ids -> {"unsent", "pending", "acked", "dropped"}]
  BY Numbers, LinkConstants DEF TInv, TypeOK
<1>b. Around \subseteq 1 .. sent
  BY <1>a, AroundSent
<1>1. ASSUME UNCHANGED <<tx_seq, seq_of, sent, restarts>>, Around' \subseteq Around
      PROVE  Numbered'
  <2>1. Spaced(Around', seq_of, tx_seq, sent)
    BY <1>1, SpacedSubset DEF Numbered
  <2> QED
    BY <1>1, <2>1 DEF Numbered
<1>2. CASE agg_flush
  <2>1. /\ sent < N /\ sent' = sent + 1 /\ restarts' = restarts
        /\ seq_of' = [seq_of EXCEPT ![sent + 1] = SeqTaken(tx_seq)] /\ tx_seq' = TxSeqAfter(tx_seq)
        /\ verdict' = [verdict EXCEPT ![sent + 1] = "pending"] /\ air' = air \cup {sent + 1}
    BY <1>2 DEF agg_flush
  <2>2. Around' = Around \cup {sent + 1}
    <3>1. sent + 1 \in Ids
      BY <1>a, <2>1, LinkConstants DEF Ids
    <3>2. InFlight' = InFlight \cup {sent + 1}
      BY <1>a, <2>1, <3>1 DEF InFlight
    <3> QED
      BY <2>1, <3>2 DEF Around
  <2>3. Spaced(Around \cup {sent + 1}, seq_of', tx_seq', sent')
    BY <1>a, <1>b, <2>1, FlushSpaced DEF Numbered
  <2>4. restarts = 0 => Spaced((1 .. sent) \cup {sent + 1}, seq_of', tx_seq', sent')
    BY <1>a, <2>1, FlushSpaced DEF Numbered
  <2>5. (1 .. sent) \cup {sent + 1} = 1 .. sent'
    BY <1>a, <2>1
  <2> QED
    BY <2>1, <2>2, <2>3, <2>4, <2>5 DEF Numbered
<1>3. CASE Restart
  <2>1. restarts' = restarts + 1 /\ air' = {} /\ InFlight' = {}
    BY <1>3 DEF Restart, InFlight
  <2>2. restarts' # 0 /\ Around' = {}
    BY <1>a, <2>1 DEF Around
  <2> QED
    BY <2>2 DEF Numbered, Spaced
<1>4. CASE UNCHANGED vars
  <2>1. UNCHANGED <<tx_seq, seq_of, sent, restarts, verdict, air>>
    BY <1>4 DEF vars, sndVars
  <2> QED
    BY <1>1, <2>1 DEF Around, InFlight
<1>5. ASSUME NEW n \in Ids, Retransmit(n) PROVE Numbered'
  <2>1. UNCHANGED <<tx_seq, seq_of, sent, restarts, verdict>> /\ air' = air \cup {n} /\ n \in InFlight
    BY <1>5 DEF Retransmit, InFlight
  <2> QED
    BY <1>1, <2>1 DEF Around, InFlight
<1>6. ASSUME NEW n \in Ids, Drop(n) PROVE Numbered'
  <2>1. /\ UNCHANGED <<tx_seq, seq_of, sent, restarts, air>>
        /\ \A i \in Ids : verdict'[i] = "pending" => verdict[i] = "pending"
    BY <1>a, <1>6 DEF Drop
  <2> QED
    BY <1>1, <2>1 DEF Around, InFlight
<1>7. ASSUME NEW a \in acks, rx_ack(a) PROVE Numbered'
  <2>1. /\ UNCHANGED <<tx_seq, seq_of, sent, restarts, air>>
        /\ \A i \in Ids : verdict'[i] = "pending" => verdict[i] = "pending"
    BY <1>7 DEF rx_ack
  <2> QED
    BY <1>1, <2>1 DEF Around, InFlight
<1>8. ASSUME \/ \E n \in Ids : rx_env(n)
             \/ Lose \/ rx_data \/ rx_send_ack \/ TickCollect \/ TickSendAck
             \/ peer_get_stale \/ peer_create_evicts
      PROVE  Numbered'
  <2>1. UNCHANGED sndVars /\ air' \subseteq air
    BY <1>8 DEF rx_env, Lose, rx_data, rx_send_ack, TickCollect, TickSendAck, peer_get_stale,
                peer_create_evicts
  <2> QED
    BY <1>1, <2>1 DEF Around, InFlight, sndVars
<1> QED
  BY <1>2, <1>3, <1>4, <1>5, <1>6, <1>7, <1>8 DEF Next

LEMMA InitNumbered ==
  ASSUME Init
  PROVE  Numbered
<1>1. Around = {} /\ 1 .. sent = {}
  BY DEF Init, Around, InFlight
<1> QED
  BY <1>1 DEF Numbered, Spaced

\* peer_rx_seq moves the newest number of a window only to the number that came, and
\* only if that is less than a window ahead, or a whole window away.
LEMMA RxSeqMoves ==
  ASSUME NEW w \in Windows, w.seen, NEW seq \in Seqs, NEW x \in peer_rx_seq(w, seq),
         x.last # w.last
  PROVE  x.last = seq /\ (Sub(seq, w.last) < Win \/ Jumps(w, seq))
<1>1. w.last \in Seqs /\ Sub(seq, w.last) \in Nat /\ Sub(w.last, seq) \in Nat
  <2>1. w.last \in Seqs
    BY DEF Windows
  <2> QED
    BY <2>1, SubNat
<1>2. CASE Sub(seq, w.last) = 0
  BY <1>2 DEF peer_rx_seq
<1>3. CASE Sub(seq, w.last) # 0 /\ Sub(seq, w.last) < Win
  <2>1. x = Forward(w, seq)
    BY <1>3 DEF peer_rx_seq
  <2> QED
    BY <1>3, <2>1 DEF Forward, Windows
<1>4. CASE ~(Sub(seq, w.last) < Win) /\ Sub(seq, w.last) # 0 /\ Sub(w.last, seq) < Win
  <2>1. x \in LateMarks(w, Sub(w.last, seq))
    BY <1>4 DEF peer_rx_seq
  <2>2. x.last = w.last
    BY <2>1 DEF LateMarks, Windows
  <2> QED
    BY <2>2
<1>5. CASE ~(Sub(seq, w.last) < Win) /\ Sub(seq, w.last) # 0 /\ ~(Sub(w.last, seq) < Win)
  <2>1. x = Resync(seq)
    BY <1>5 DEF peer_rx_seq
  <2>2. Jumps(w, seq)
    BY <1>1, <1>5, LinkConstants DEF Jumps
  <2> QED
    BY <2>1, <2>2 DEF Resync
<1> QED
  BY <1>2, <1>3, <1>4, <1>5

\* The receiver's newest number goes back to an older bundle only for one that a whole
\* window of numbers has overtaken, in a behaviour in which numbers do not come round.
NewestStep ==
  \A i, j \in 1 .. sent :
    restarts = 0 /\ rx.seen /\ rx'.seen /\ rx.last = seq_of[i] /\ rx'.last = seq_of[j]
      => i <= j \/ Sub(seq_of[i], seq_of[j]) >= Win

LEMMA StepNewest ==
  ASSUME N + Win <= Mod, TInv, Numbered, [Next]_vars
  PROVE  NewestStep
<1> SUFFICES ASSUME NEW i \in 1 .. sent, NEW j \in 1 .. sent, restarts = 0, rx.seen, rx'.seen,
                    rx.last = seq_of[i], rx'.last = seq_of[j], ~(i <= j)
             PROVE  Sub(seq_of[i], seq_of[j]) >= Win
  BY DEF NewestStep
<1>a. /\ TypeOK /\ Sent /\ sent \in Nat /\ sent <= N /\ rx \in Windows /\ j < i
      /\ \A n \in Ids : seq_of[n] \in Seqs
      /\ Spaced(1 .. sent, seq_of, tx_seq, sent)
  BY Numbers DEF TInv, Numbered
<1>b. i \in Ids /\ j \in Ids
  BY <1>a, LinkConstants DEF Ids
<1>c. /\ Sub(seq_of[i], seq_of[j]) \in {i - j, i - j + 1}
      /\ Sub(seq_of[j], seq_of[i]) = Mod - Sub(seq_of[i], seq_of[j])
      /\ seq_of[j] # seq_of[i]
  <2> DEFINE S == 1 .. sent
  <2>1. S \in SUBSET (1 .. sent) /\ i \in S /\ j \in S /\ Spaced(S, seq_of, tx_seq, sent)
    BY <1>a
  <2> HIDE DEF S
  <2> QED
    BY <1>a, <2>1, Distance
<1>1. rx' # rx
  BY <1>c
<1>2. PICK n \in Ids : rx_env(n)
  <2>1. ~UNCHANGED rx
    BY <1>1
  <2>2. ~(rx_data \/ peer_get_stale \/ peer_create_evicts)
    <3>1. ~NoWindow.seen
      BY DEF NoWindow
    <3>2. ~peer_get_stale /\ ~peer_create_evicts
      BY <3>1 DEF peer_get_stale, peer_create_evicts
    <3>3. ~rx_data
      BY <1>1, <3>1 DEF rx_data, peerVars
    <3> QED
      BY <3>2, <3>3
  <2>3. ~UNCHANGED vars /\ ~agg_flush /\ ~Restart /\ ~Lose /\ ~rx_send_ack /\ ~TickCollect /\ ~TickSendAck
    BY <2>1 DEF vars, peerVars, agg_flush, Restart, Lose, rx_send_ack, TickCollect, TickSendAck
  <2>4. \A n \in Ids : ~Retransmit(n) /\ ~Drop(n)
    BY <2>1 DEF peerVars, Retransmit, Drop
  <2>5. \A a \in acks : ~rx_ack(a)
    BY <2>1 DEF peerVars, rx_ack
  <2> QED
    BY <2>2, <2>3, <2>4, <2>5 DEF Next
<1>3. rx' \in peer_rx_seq(rx, seq_of[n])
  BY <1>1, <1>2 DEF rx_env
<1>4. rx'.last # rx.last
  BY <1>c
<1>5. rx'.last = seq_of[n] /\ (Sub(seq_of[n], rx.last) < Win \/ Jumps(rx, seq_of[n]))
  BY <1>a, <1>3, <1>4, RxSeqMoves
<1>6. Sub(seq_of[j], seq_of[i]) < Win \/ Sub(seq_of[i], seq_of[j]) >= Win
  BY <1>5 DEF Jumps
<1> DEFINE b == Sub(seq_of[i], seq_of[j])
           f == Sub(seq_of[j], seq_of[i])
<1> HIDE DEF b, f
<1>7. b \in {i - j, i - j + 1} /\ f = Mod - b /\ (f < Win \/ b >= Win)
  BY <1>c, <1>6 DEF b, f
<1>8. b >= Win
  BY <1>a, <1>7, LinkConstants
<1> QED
  BY <1>8 DEF b

THEOREM NewestStaysCorrect ==
  ASSUME N + Win <= Mod
  PROVE  Spec => NewestStays
<1>1. Init => TInv /\ Numbered
  BY InitType, InitNumbered
<1>2. TInv /\ Numbered /\ [Next]_vars => TInv' /\ Numbered'
  BY StepType, StepNumbered
<1>3. TInv /\ Numbered /\ [Next]_vars => [NewestStep]_vars
  BY StepNewest
<1> QED
  BY <1>1, <1>2, <1>3, PTL DEF Spec, NewestStays, NewestStep

-----------------------------------------------------------------------------
(* At most once. The only condition is that the numbers of a behaviour do    *)
(* not come round: FewNumbers. Restarts, stale resets, evictions and bundles *)
(* that come however late are all there.                                     *)

FewNumbers == 2 * (N + Win) <= Mod

\* The receiver has the number of bundle i: it is marked, or has left the window at
\* its old end.
Held(i) ==
  /\ rx.seen
  /\ Marked(rx, seq_of[i]) \/ Sub(rx.last, seq_of[i]) >= Win
  /\ Sub(rx.last, seq_of[i]) <= sent - i + Win

\* It has that of every bundle it took and did not lose track of, if a copy may come.
Kept == \A i \in Around : Arrived(i) /\ i \notin forgotten => Held(i)

\* Such a bundle is handed up once.
Once == \A i \in Ids : i \notin forgotten => got[i] <= 1 /\ (Arriving(i) => got[i] = 0)

\* A node that is not a peer has nothing in its dedup ring.
NoRing == ~known => ring = <<>>

KInv == TInv /\ Numbered /\ Kept /\ Once /\ NoRing

\* A window that is kept keeps what it has: peer_rx_seq moves it forward, or adds a mark.
LEMMA RxSeqKeeps ==
  ASSUME NEW w \in Windows, w.seen, 0 \in w.win, NEW seq \in Seqs, ~Jumps(w, seq),
         NEW x \in peer_rx_seq(w, seq), NEW s \in Seqs
  PROVE  /\ x.seen
         /\ \/ x.last = w.last
            \/ x.last = seq /\ Sub(seq, w.last) < Win
         /\ Marked(w, s) => Marked(x, s) \/ Sub(x.last, s) >= Win
<1>a. x \in Windows /\ x.seen
  BY RxSeqType
<1>b. w.last \in Seqs /\ x.last \in Seqs
  BY <1>a DEF Windows
<1>c. Sub(seq, w.last) \in Nat /\ Sub(w.last, seq) \in Nat /\ Sub(x.last, s) \in Nat
  BY <1>b, SubNat
<1>1. x.last = w.last \/ (x.last = seq /\ Sub(seq, w.last) < Win)
  BY RxSeqMoves
<1>2. ASSUME Marked(w, s) PROVE Marked(x, s) \/ Sub(x.last, s) >= Win
  <2>1. CASE Sub(seq, w.last) < Win
    <3>1. Marked(x, s) \/ Sub(x.last, s) \notin Bits
      BY <1>2, <2>1, RxSeqExact
    <3> QED
      BY <1>c, <3>1, LinkConstants DEF Bits
  <2>2. CASE ~(Sub(seq, w.last) < Win)
    <3>1. Sub(w.last, seq) < Win /\ Sub(seq, w.last) # 0
      BY <1>c, <2>2, LinkConstants DEF Jumps
    <3>2. x \in LateMarks(w, Sub(w.last, seq))
      BY <2>2, <3>1 DEF peer_rx_seq
    <3>3. x.last = w.last /\ w.win \subseteq x.win
      BY <3>2 DEF LateMarks, Windows
    <3> QED
      BY <1>2, <1>a, <3>3 DEF Marked
  <2> QED
    BY <2>1, <2>2
<1> QED
  BY <1>a, <1>1, <1>2

\* A bundle that comes takes nothing from what the receiver has.
LEMMA HeldKept ==
  ASSUME FewNumbers, TInv, Numbered, NEW n \in air, NEW i \in Around, Held(i),
         rx' \in peer_rx_seq(rx, seq_of[n]), ~Jumps(rx, seq_of[n]),
         UNCHANGED <<seq_of, sent>>
  PROVE  Held(i)'
<1>a. /\ TypeOK /\ Sent /\ rx \in Windows /\ sent \in Nat /\ sent <= N
      /\ (rx.seen => 0 \in rx.win)
  BY Numbers DEF TInv, NewestMarked
<1>b. Around \subseteq 1 .. sent /\ n \in Around
  BY <1>a, AroundSent DEF Around
<1>c. i \in Nat /\ n \in Nat /\ 1 <= i /\ i <= sent /\ 1 <= n /\ n <= sent
      /\ i \in Ids /\ n \in Ids
  BY <1>a, <1>b, LinkConstants DEF Ids
<1>d. seq_of[i] \in Seqs /\ seq_of[n] \in Seqs /\ rx.last \in Seqs
  BY <1>a, <1>c, Numbers DEF Windows
<1>e. /\ rx.seen /\ (Marked(rx, seq_of[i]) \/ Sub(rx.last, seq_of[i]) >= Win)
      /\ Sub(rx.last, seq_of[i]) <= sent - i + Win
  BY DEF Held
<1>f. /\ rx'.seen
      /\ rx'.last = rx.last \/ (rx'.last = seq_of[n] /\ Sub(seq_of[n], rx.last) < Win)
      /\ Marked(rx, seq_of[i]) => Marked(rx', seq_of[i]) \/ Sub(rx'.last, seq_of[i]) >= Win
  BY <1>a, <1>d, <1>e, RxSeqKeeps
<1>1. CASE rx'.last = rx.last
  BY <1>1, <1>e, <1>f DEF Held
<1>2. CASE rx'.last = seq_of[n] /\ Sub(seq_of[n], rx.last) < Win
  <2> DEFINE f == Sub(seq_of[n], rx.last)
             d == Sub(rx.last, seq_of[i])
             e == Sub(seq_of[n], seq_of[i])
  <2>1. f \in Nat /\ d \in Nat /\ e \in Nat /\ e < Mod
    BY <1>d, SubNat
  <2>2. f < Win /\ d <= sent - i + Win
    BY <1>2, <1>e
  <2>3. 2 * (N + Win) <= Mod
    BY DEF FewNumbers
  <2>4. e = f + d
    <3>1. f + d < Mod
      <4> HIDE DEF f, d, e
      <4> QED
        BY <1>a, <1>c, <2>1, <2>2, <2>3, LinkConstants
    <3> QED
      BY <1>d, <3>1, SubAdds
  <2>5. e <= sent - i + Win
    <3>1. CASE n = i
      <4>1. e = 0
        BY <1>d, <3>1, SubNat
      <4> HIDE DEF e
      <4> QED
        BY <1>c, <1>a, <4>1, LinkConstants
    <3>2. CASE n > i
      <4>1. e \in {n - i, n - i + 1}
        BY <1>a, <1>b, <3>2, Distance DEF Numbered
      <4> HIDE DEF e
      <4> QED
        BY <1>a, <1>c, <4>1, LinkConstants
    <3>3. CASE n < i
      <4> DEFINE g == Sub(seq_of[i], seq_of[n])
      <4>1. g \in {i - n, i - n + 1} /\ e = Mod - g
        BY <1>a, <1>b, <3>3, Distance DEF Numbered
      <4> HIDE DEF e, f, d, g
      <4>2. g \in Nat /\ g <= N
        BY <1>a, <1>c, <3>3, <4>1, LinkConstants
      <4>3. e < N + Win + Win
        BY <1>a, <1>c, <2>1, <2>2, <2>4, LinkConstants
      <4> QED
        BY <2>1, <2>3, <4>1, <4>2, <4>3, LinkConstants
    <3> QED
      BY <1>c, <3>1, <3>2, <3>3
  <2>6. d >= Win => e >= Win
    <3> HIDE DEF e, f, d
    <3> QED
      BY <2>1, <2>4, LinkConstants
  <2> QED
    BY <1>2, <1>e, <1>f, <2>5, <2>6 DEF Held
<1> QED
  BY <1>f, <1>1, <1>2

\* What is kept stays so while the window does and no other bundle is taken.
LEMMA KeptQuiet ==
  ASSUME TypeOK, Kept, sent' \in Nat, sent <= sent', rx' = rx,
         \A i \in Around' : Arrived(i)' /\ i \notin forgotten' =>
           i \in Around /\ Arrived(i) /\ i \notin forgotten /\ seq_of'[i] = seq_of[i]
  PROVE  Kept'
<1> SUFFICES ASSUME NEW i \in Around', Arrived(i)', i \notin forgotten' PROVE Held(i)'
  BY DEF Kept
<1>1. i \in Around /\ Held(i) /\ seq_of'[i] = seq_of[i]
  BY DEF Kept
<1>2. sent \in Nat /\ i \in Nat /\ seq_of[i] \in Seqs /\ rx.last \in Seqs
  BY <1>1, Numbers DEF Around, InFlight, TypeOK, Ids, Windows
<1>3. Sub(rx.last, seq_of[i]) \in Nat
  BY <1>2, SubNat
<1>4. Sub(rx.last, seq_of[i]) <= sent' - i + Win
  <2>1. Sub(rx.last, seq_of[i]) <= sent - i + Win
    BY <1>1 DEF Held
  <2> QED
    BY <1>2, <1>3, <2>1, LinkConstants
<1> QED
  BY <1>1, <1>4 DEF Held

LEMMA OnceQuiet ==
  ASSUME Once, UNCHANGED got, forgotten \subseteq forgotten',
         \A i \in Ids : Arriving(i)' => Arriving(i)
  PROVE  Once'
BY DEF Once

\* A bundle comes. If its number is marked it is a copy; if not, it has not been taken,
\* or the receiver has lost track of it.
LEMMA RxEnvKept ==
  ASSUME FewNumbers, KInv, NEW n \in Ids, rx_env(n)
  PROVE  Kept' /\ Once'
<1>a. /\ TypeOK /\ Sent /\ TInv /\ Numbered /\ Kept /\ Once /\ rx \in Windows /\ sent \in Nat
      /\ (rx.seen => 0 \in rx.win) /\ seq_of[n] \in Seqs
  BY Numbers DEF KInv, TInv, NewestMarked
<1>b. /\ n \in air /\ rx_pc = "idle" /\ air' = air \ {n}
      /\ UNCHANGED <<seq_of, sent, verdict, got>>
  BY DEF rx_env, sndVars
<1>c. IF known THEN rx' \in peer_rx_seq(rx, seq_of[n]) ELSE rx' = rx
  BY DEF rx_env
<1>d. \/ known /\ Marked(rx, seq_of[n]) /\ UNCHANGED <<rx_pc, rx_id, forgotten>>
      \/ /\ ~(known /\ Marked(rx, seq_of[n])) /\ rx_pc' = "data" /\ rx_id' = n
         /\ forgotten' = forgotten \cup Unrecorded(n, seq_of[n])
  BY DEF rx_env
<1>e. Around' \subseteq Around /\ n \in Around /\ Around \subseteq 1 .. sent
  BY <1>a, <1>b, AroundSent DEF Around, InFlight
<1>f. rx.last \in Seqs /\ rx.win \subseteq Bits
  BY <1>a DEF Windows
<1>g. Sub(seq_of[n], rx.last) \in Nat /\ Sub(rx.last, seq_of[n]) \in Nat
  BY <1>a, <1>f, SubNat
<1>h. \A i \in Ids : got[i] \in Nat
  BY <1>a, Numbers
\* A bundle that was held is held.
<1>1. ASSUME NEW i \in Around, Held(i), ~known \/ ~Jumps(rx, seq_of[n]) PROVE Held(i)'
  <2>1. CASE known
    BY <1>1, <1>a, <1>b, <1>c, <2>1, HeldKept
  <2>2. CASE ~known
    <3>1. rx' = rx
      BY <1>c, <2>2
    <3> QED
      BY <1>1, <1>b, <3>1 DEF Held
  <2> QED
    BY <2>1, <2>2
<1>2. CASE known /\ Marked(rx, seq_of[n]) /\ UNCHANGED <<rx_pc, rx_id, forgotten>>
  <2>1. ~Jumps(rx, seq_of[n])
    <3>1. Sub(rx.last, seq_of[n]) \in Bits
      BY <1>2, <1>f DEF Marked
    <3> QED
      BY <1>g, <3>1, LinkConstants DEF Jumps, Bits
  <2>2. \A i : (Arrived(i)' <=> Arrived(i)) /\ (Arriving(i)' <=> Arriving(i))
    BY <1>2, <1>b DEF Arrived, Arriving
  <2>3. Kept'
    <3> SUFFICES ASSUME NEW i \in Around', Arrived(i)', i \notin forgotten' PROVE Held(i)'
      BY DEF Kept
    <3>1. i \in Around /\ Arrived(i) /\ i \notin forgotten
      BY <1>2, <1>e, <2>2
    <3>2. Held(i)
      BY <1>a, <3>1 DEF Kept
    <3> QED
      BY <1>1, <2>1, <3>1, <3>2
  <2>4. Once'
    BY <1>2, <1>a, <1>b, <2>2, OnceQuiet
  <2> QED
    BY <2>3, <2>4
<1>3. CASE /\ ~(known /\ Marked(rx, seq_of[n])) /\ rx_pc' = "data" /\ rx_id' = n
           /\ forgotten' = forgotten \cup Unrecorded(n, seq_of[n])
  <2>1. /\ \A i : Arriving(i)' <=> i = n
        /\ \A i : i # n => (Arrived(i)' => Arrived(i))
        /\ ~Arrived(n) => got[n] = 0
    <3>1. \A i : Arriving(i)' <=> i = n
      BY <1>3 DEF Arriving
    <3>2. \A i : i # n => (Arrived(i)' => Arrived(i))
      BY <1>b, <3>1 DEF Arrived
    <3>3. ~Arrived(n) => got[n] = 0
      BY <1>h DEF Arrived
    <3> QED
      BY <3>1, <3>2, <3>3
  <2>2. ASSUME n \notin forgotten' => got[n] = 0 PROVE Once'
    <3> SUFFICES ASSUME NEW i \in Ids, i \notin forgotten'
                 PROVE  got'[i] <= 1 /\ (Arriving(i)' => got'[i] = 0)
      BY DEF Once
    <3>1. i \notin forgotten
      BY <1>3
    <3>2. got'[i] <= 1
      BY <1>a, <1>b, <3>1 DEF Once
    <3>3. Arriving(i)' => got'[i] = 0
      BY <1>b, <2>1, <2>2
    <3> QED
      BY <3>2, <3>3
  <2>3. ASSUME ~known \/ ~Jumps(rx, seq_of[n]), n \notin forgotten' => Held(n)'
        PROVE  Kept'
    <3> SUFFICES ASSUME NEW i \in Around', Arrived(i)', i \notin forgotten' PROVE Held(i)'
      BY DEF Kept
    <3>1. CASE i = n
      BY <2>3, <3>1
    <3>2. CASE i # n
      <4>1. i \in Around /\ Arrived(i) /\ i \notin forgotten
        BY <1>3, <1>e, <2>1, <3>2
      <4>2. Held(i)
        BY <1>a, <4>1 DEF Kept
      <4> QED
        BY <1>1, <2>3, <4>1, <4>2
    <3> QED
      BY <3>1, <3>2
  <2>4. ASSUME Marked(rx', seq_of[n]), rx' \in Windows PROVE Held(n)'
    <3>1. rx'.seen /\ Sub(rx'.last, seq_of[n]) \in Bits
      BY <2>4 DEF Marked, Windows
    <3>2. n \in 1 .. sent
      BY <1>e
    <3>3. Sub(rx'.last, seq_of[n]) \in Nat /\ Sub(rx'.last, seq_of[n]) < Win
      BY <3>1, LinkConstants DEF Bits
    <3> DEFINE d == Sub(rx'.last, seq_of[n])
    <3>4. d <= sent - n + Win
      <4> HIDE DEF d
      <4>1. d \in Nat /\ d < Win
        BY <3>3 DEF d
      <4> QED
        BY <1>a, <3>2, <4>1, LinkConstants
    <3> QED
      BY <1>b, <2>4, <3>1, <3>4 DEF Held
  <2>5. CASE known /\ Jumps(rx, seq_of[n])
    <3>1. forgotten' = forgotten \cup Taken
      BY <1>3, <2>5 DEF Unrecorded
    <3>2. Once'
      <4>1. n \notin forgotten' => ~Arrived(n)
        BY <3>1 DEF Taken
      <4> QED
        BY <2>1, <2>2, <4>1
    <3>3. Kept'
      <4> SUFFICES ASSUME NEW i \in Around', Arrived(i)', i \notin forgotten' PROVE Held(i)'
        BY DEF Kept
      <4>1. i \in Ids
        BY <1>a, <1>e DEF Around, InFlight, TypeOK
      <4>2. i = n
        BY <2>1, <3>1, <4>1 DEF Taken
      <4>3. rx' = Resync(seq_of[n])
        <5>1. ~(Sub(seq_of[n], rx.last) < Win) /\ ~(Sub(rx.last, seq_of[n]) < Win)
              /\ Sub(seq_of[n], rx.last) # 0 /\ rx.seen
          BY <1>g, <2>5, LinkConstants DEF Jumps
        <5> QED
          BY <1>c, <2>5, <5>1 DEF peer_rx_seq
      <4>4. Marked(rx', seq_of[n]) /\ rx' \in Windows
        <5>1. Sub(seq_of[n], seq_of[n]) = 0
          BY <1>a, SubNat
        <5>2. rx' \in Windows
          BY <1>a, <1>c, <2>5, RxSeqType
        <5> QED
          BY <4>3, <5>1, <5>2 DEF Marked, Resync
      <4> QED
        BY <2>4, <4>2, <4>4
    <3> QED
      BY <3>2, <3>3
  <2>6. CASE ~(known /\ Jumps(rx, seq_of[n])) /\ (~known \/ OutOfShift(rx, seq_of[n]))
    <3>1. n \in forgotten'
      BY <1>3, <2>6 DEF Unrecorded
    <3> QED
      BY <2>2, <2>3, <2>6, <3>1
  <2>7. CASE known /\ ~Jumps(rx, seq_of[n]) /\ ~OutOfShift(rx, seq_of[n])
    <3>0. rx' \in peer_rx_seq(rx, seq_of[n]) /\ forgotten' = forgotten
      BY <1>3, <1>c, <2>7 DEF Unrecorded
    <3>1. rx' \in Windows
      BY <1>a, <3>0, RxSeqType
    <3>2. Marked(rx', seq_of[n])
      <4>1. CASE ~rx.seen
        <5>1. rx' = Resync(seq_of[n])
          BY <3>0, <4>1 DEF peer_rx_seq
        <5>2. Sub(seq_of[n], seq_of[n]) = 0
          BY <1>a, SubNat
        <5> QED
          BY <5>1, <5>2 DEF Marked, Resync
      <4>2. CASE rx.seen
        <5>1. Sub(seq_of[n], rx.last) < Win \/ Sub(rx.last, seq_of[n]) < ShiftBits
          BY <1>g, <2>7, <4>2, LinkConstants DEF Jumps, OutOfShift
        <5> QED
          BY <1>a, <3>0, <4>2, <5>1, RxSeqExact
      <4> QED
        BY <4>1, <4>2
    <3>3. n \notin forgotten => ~Arrived(n)
      <4> SUFFICES ASSUME n \notin forgotten, Arrived(n) PROVE FALSE
        OBVIOUS
      <4>1. Held(n)
        BY <1>a, <1>e DEF Kept
      <4> DEFINE d == Sub(rx.last, seq_of[n])
                 f == Sub(seq_of[n], rx.last)
      <4>2. rx.seen /\ d >= Win /\ d <= sent - n + Win
        BY <1>3, <2>7, <4>1 DEF Held
      <4>3. rx.last # seq_of[n]
        <5>1. rx.last = seq_of[n] => d = 0
          BY <1>a, SubNat
        <5> QED
          BY <4>2, <5>1, LinkConstants
      <4>4. f = Mod - d
        BY <1>a, <1>f, <4>3, SubBack
      <4>5. 2 * (N + Win) <= Mod /\ n \in 1 .. sent /\ sent <= N
        BY <1>a, <1>e, Numbers DEF FewNumbers
      <4>6. f >= Win
        <5> HIDE DEF d, f
        <5>1. d \in Nat
          BY <1>g DEF d
        <5> QED
          BY <1>a, <4>2, <4>4, <4>5, <5>1, LinkConstants
      <4> QED
        BY <2>7, <4>2, <4>6 DEF Jumps
    <3>4. Once'
      BY <2>1, <2>2, <3>0, <3>3
    <3>5. Kept'
      BY <2>3, <2>4, <2>7, <3>1, <3>2
    <3> QED
      BY <3>4, <3>5
  <2> QED
    BY <2>5, <2>6, <2>7
<1> QED
  BY <1>d, <1>2, <1>3

\* The frame goes up, or is found in the dedup ring.
LEMMA RxDataKept ==
  ASSUME KInv, rx_data
  PROVE  Kept' /\ Once' /\ NoRing'
<1>a. /\ TypeOK /\ Sent /\ Kept /\ Once /\ sent \in Nat /\ rx_id \in Ids /\ rx_pc = "data"
      /\ got \in [Ids -> 0 .. MaxRetries + 1] /\ \A i \in Ids : got[i] \in Nat
  <2>1. TypeOK /\ Sent /\ Kept /\ Once /\ rx_pc = "data"
    BY DEF KInv, TInv, rx_data
  <2>2. rx_id \in Ids /\ sent \in Nat
    BY <2>1, Numbers, LinkConstants DEF Sent, Ids
  <2>3. got \in [Ids -> 0 .. MaxRetries + 1]
    BY <2>1 DEF TypeOK
  <2> QED
    BY <2>1, <2>2, <2>3, Numbers
<1>b. UNCHANGED <<seq_of, sent, verdict, air>> /\ rx_pc' \in {"idle", "ack"}
  BY DEF rx_data, sndVars, ack_decide
<1>c. /\ got' = got \/ got' = [got EXCEPT ![rx_id] = @ + 1]
      /\ rx' = rx \/ forgotten' = forgotten \cup Taken
      /\ forgotten \subseteq forgotten'
      /\ known' \/ (~known /\ ring' = ring /\ known' = known)
  BY DEF rx_data, peerVars
<1>d. \A i \in Ids : got'[i] = got[i] \/ (i = rx_id /\ got'[i] = got[i] + 1)
  BY <1>a, <1>c
<1>e. Around' = Around /\ \A i : ~Arriving(i)'
  BY <1>b DEF Around, InFlight, Arriving
<1>f. \A i \in Ids : Arrived(i)' => Arrived(i)
  BY <1>a, <1>d, <1>e DEF Arrived, Arriving
<1>g. \A i \in Around : i \in Ids
  BY <1>a DEF Around, InFlight, TypeOK
<1>1. Kept'
  <2>1. CASE rx' = rx
    <3>1. \A i \in Around' : Arrived(i)' /\ i \notin forgotten' =>
            i \in Around /\ Arrived(i) /\ i \notin forgotten /\ seq_of'[i] = seq_of[i]
      BY <1>b, <1>c, <1>e, <1>f, <1>g
    <3>2. sent' \in Nat /\ sent <= sent'
      BY <1>a, <1>b
    <3> QED
      BY <1>a, <2>1, <3>1, <3>2, KeptQuiet
  <2>2. CASE forgotten' = forgotten \cup Taken
    <3>1. \A i \in Around' : Arrived(i)' => i \in forgotten'
      BY <1>e, <1>f, <1>g, <2>2 DEF Taken
    <3> QED
      BY <3>1 DEF Kept
  <2> QED
    BY <1>c, <2>1, <2>2
<1>2. Once'
  <2> SUFFICES ASSUME NEW i \in Ids, i \notin forgotten' PROVE got'[i] <= 1
    BY <1>e DEF Once
  <2>1. got[i] <= 1 /\ (i = rx_id => got[i] = 0) /\ got[i] \in Nat
    BY <1>a, <1>c DEF Once, Arriving
  <2> QED
    BY <1>d, <2>1
<1>3. NoRing'
  BY <1>c DEF NoRing, KInv
<1> QED
  BY <1>1, <1>2, <1>3

\* Steps at which nothing arrives and the receiver keeps what it has.
LEMMA QuietKept ==
  ASSUME KInv, UNCHANGED <<seq_of, sent, known, rx, ring, got, forgotten>>, Around' \subseteq Around,
         \A i : Arriving(i)' <=> Arriving(i)
  PROVE  Kept' /\ Once' /\ NoRing'
<1>a. TypeOK /\ Kept /\ Once /\ NoRing /\ sent \in Nat
  BY Numbers DEF KInv, TInv
<1>1. \A i : Arrived(i)' <=> Arrived(i)
  BY DEF Arrived
<1>2. Kept'
  <2>1. \A i \in Around' : Arrived(i)' /\ i \notin forgotten' =>
          i \in Around /\ Arrived(i) /\ i \notin forgotten /\ seq_of'[i] = seq_of[i]
    BY <1>1
  <2>2. sent' \in Nat /\ sent <= sent'
    BY <1>a
  <2> QED
    BY <1>a, <2>1, <2>2, KeptQuiet
<1>3. Once'
  BY <1>a, OnceQuiet
<1>4. NoRing'
  BY <1>a DEF NoRing
<1> QED
  BY <1>2, <1>3, <1>4

LEMMA FlushKept ==
  ASSUME KInv, agg_flush
  PROVE  Kept' /\ Once' /\ NoRing'
<1>a. /\ TypeOK /\ Sent /\ Kept /\ Once /\ NoRing /\ sent \in Nat /\ sent < N
      /\ seq_of \in [Ids -> 0 .. Mod - 2]
      /\ verdict \in [Ids -> {"unsent", "pending", "acked", "dropped"}]
  BY Numbers DEF KInv, TInv, TypeOK, agg_flush
<1>b. /\ sent' = sent + 1 /\ air' = air \cup {sent + 1}
      /\ seq_of' = [seq_of EXCEPT ![sent + 1] = SeqTaken(tx_seq)]
      /\ verdict' = [verdict EXCEPT ![sent + 1] = "pending"]
      /\ UNCHANGED <<known, rx, ring, got, rx_pc, rx_id, forgotten>>
  BY DEF agg_flush, peerVars, rxVars, histVars
<1>c. sent + 1 \in Ids /\ ~(sent + 1 <= sent) /\ sent + 1 \notin 1 .. sent
  BY <1>a, LinkConstants DEF Ids
<1>1. \A i : (Arrived(i)' <=> Arrived(i)) /\ (Arriving(i)' <=> Arriving(i))
  BY <1>b DEF Arrived, Arriving
<1>2. ~Arrived(sent + 1)
  BY <1>a, <1>c DEF Sent, Arrived, Arriving
<1>3. \A i \in Around' : i \in Ids /\ (i = sent + 1 \/ i \in Around)
  <2>1. \A i \in Ids : i # sent + 1 => verdict'[i] = verdict[i]
    BY <1>a, <1>b
  <2> QED
    BY <1>a, <1>b, <1>c, <2>1 DEF Around, InFlight, TypeOK
<1>4. Kept'
  <2>1. \A i \in Around' : Arrived(i)' /\ i \notin forgotten' =>
          i \in Around /\ Arrived(i) /\ i \notin forgotten /\ seq_of'[i] = seq_of[i]
    <3> SUFFICES ASSUME NEW i \in Around', Arrived(i)', i \notin forgotten'
                 PROVE  i \in Around /\ Arrived(i) /\ i \notin forgotten /\ seq_of'[i] = seq_of[i]
      OBVIOUS
    <3>1. i \in Ids /\ i # sent + 1 /\ i \in Around
      BY <1>1, <1>2, <1>3
    <3>2. seq_of'[i] = seq_of[i]
      BY <1>a, <1>b, <3>1
    <3> QED
      BY <1>1, <1>b, <3>1, <3>2
  <2>2. sent' \in Nat /\ sent <= sent'
    BY <1>a, <1>b
  <2> QED
    BY <1>a, <1>b, <2>1, <2>2, KeptQuiet
<1>5. Once'
  BY <1>a, <1>b, <1>1, OnceQuiet
<1>6. NoRing'
  BY <1>a, <1>b DEF NoRing
<1> QED
  BY <1>4, <1>5, <1>6

\* A receiver that drops its window loses track of all it took.
LEMMA DropsWindowKept ==
  ASSUME KInv, peer_get_stale \/ peer_create_evicts
  PROVE  Kept' /\ Once' /\ NoRing'
<1>a. TypeOK /\ Once /\ NoRing
  BY DEF KInv, TInv
<1>b. /\ forgotten' = forgotten \cup Taken /\ UNCHANGED <<got, rx_pc, rx_id, air, verdict>>
      /\ (known' = known /\ ring' = ring) \/ ring' = <<>>
  BY DEF peer_get_stale, peer_create_evicts, sndVars, rxVars
<1>1. \A i : (Arrived(i)' <=> Arrived(i)) /\ (Arriving(i)' <=> Arriving(i))
  BY <1>b DEF Arrived, Arriving
<1>2. \A i \in Around' : i \in Ids
  BY <1>a, <1>b DEF Around, InFlight, TypeOK
<1>3. Kept'
  <2>1. \A i \in Around' : Arrived(i)' => i \in forgotten'
    BY <1>1, <1>2, <1>b DEF Taken
  <2> QED
    BY <2>1 DEF Kept
<1>4. Once'
  BY <1>a, <1>b, <1>1, OnceQuiet
<1>5. NoRing'
  BY <1>a, <1>b DEF NoRing
<1> QED
  BY <1>3, <1>4, <1>5

LEMMA StepKInv ==
  ASSUME FewNumbers, KInv, [Next]_vars
  PROVE  KInv'
<1>a. /\ TInv /\ Numbered /\ TypeOK
      /\ verdict \in [Ids -> {"unsent", "pending", "acked", "dropped"}]
  BY DEF KInv, TInv, TypeOK
<1>b. TInv' /\ Numbered'
  BY <1>a, StepType, StepNumbered
<1>c. ASSUME Kept' /\ Once' /\ NoRing' PROVE KInv'
  BY <1>b, <1>c DEF KInv
<1>1. CASE UNCHANGED vars
  <2>1. UNCHANGED <<seq_of, sent, known, rx, ring, got, forgotten, air, verdict, rx_pc, rx_id>>
    BY <1>1 DEF vars, sndVars, peerVars, rxVars, histVars
  <2> QED
    BY <1>c, <2>1, QuietKept DEF Around, InFlight, Arriving
<1>2. CASE agg_flush
  BY <1>2, <1>c, FlushKept
<1>3. ASSUME NEW n \in Ids, Retransmit(n) PROVE KInv'
  <2>1. /\ UNCHANGED <<seq_of, sent, known, rx, ring, got, forgotten, verdict, rx_pc, rx_id>>
        /\ air' = air \cup {n} /\ n \in InFlight
    BY <1>3 DEF Retransmit, peerVars, rxVars, histVars, InFlight
  <2> QED
    BY <1>c, <2>1, QuietKept DEF Around, InFlight, Arriving
<1>4. ASSUME NEW n \in Ids, Drop(n) PROVE KInv'
  <2>1. /\ UNCHANGED <<seq_of, sent, known, rx, ring, got, forgotten, air, rx_pc, rx_id>>
        /\ \A i \in Ids : verdict'[i] = "pending" => verdict[i] = "pending"
    BY <1>a, <1>4 DEF Drop, peerVars, rxVars, histVars
  <2> QED
    BY <1>c, <2>1, QuietKept DEF Around, InFlight, Arriving
<1>5. ASSUME NEW n \in Ids, rx_env(n) PROVE KInv'
  <2>1. NoRing'
    BY <1>5 DEF rx_env, NoRing, KInv
  <2> QED
    BY <1>5, <1>c, <2>1, RxEnvKept
<1>6. ASSUME NEW a \in acks, rx_ack(a) PROVE KInv'
  <2>1. /\ UNCHANGED <<seq_of, sent, known, rx, ring, got, forgotten, air, rx_pc, rx_id>>
        /\ \A i \in Ids : verdict'[i] = "pending" => verdict[i] = "pending"
    BY <1>6 DEF rx_ack, peerVars, rxVars, histVars
  <2> QED
    BY <1>c, <2>1, QuietKept DEF Around, InFlight, Arriving
<1>7. CASE Restart
  <2>1. /\ UNCHANGED <<seq_of, sent, known, rx, ring, got, forgotten, rx_pc, rx_id>>
        /\ air' = {} /\ InFlight' = {}
    BY <1>7 DEF Restart, peerVars, rxVars, histVars, InFlight
  <2> QED
    BY <1>c, <2>1, QuietKept DEF Around, Arriving
<1>8. CASE Lose
  <2>1. /\ UNCHANGED <<seq_of, sent, known, rx, ring, got, forgotten, verdict, rx_pc, rx_id>>
        /\ air' \subseteq air
    BY <1>8 DEF Lose, sndVars, peerVars, rxVars, histVars
  <2> QED
    BY <1>c, <2>1, QuietKept DEF Around, InFlight, Arriving
<1>9. CASE rx_data
  BY <1>9, <1>c, RxDataKept
<1>10. CASE rx_send_ack \/ TickCollect \/ TickSendAck
  <2>1. /\ UNCHANGED <<seq_of, sent, known, rx, ring, got, forgotten, verdict, air, rx_id>>
        /\ rx_pc' = rx_pc \/ (rx_pc = "ack" /\ rx_pc' = "idle")
    BY <1>10 DEF rx_send_ack, TickCollect, TickSendAck, sndVars, peerVars, rxVars, histVars
  <2> QED
    BY <1>c, <2>1, QuietKept DEF Around, InFlight, Arriving
<1>11. CASE peer_get_stale \/ peer_create_evicts
  BY <1>11, <1>c, DropsWindowKept
<1> QED
  BY <1>1, <1>2, <1>3, <1>4, <1>5, <1>6, <1>7, <1>8, <1>9, <1>10, <1>11 DEF Next

LEMMA InitKInv ==
  ASSUME Init
  PROVE  KInv
<1>1. TInv /\ Numbered
  BY InitType, InitNumbered
<1>2. Kept /\ Once /\ NoRing
  <2>1. Around = {}
    BY DEF Init, Around, InFlight
  <2>2. Once
    BY DEF Init, Once, Arriving
  <2> QED
    BY <2>1, <2>2 DEF Kept, NoRing, Init
<1> QED
  BY <1>1, <1>2 DEF KInv

\* Whatever is lost, repeated, reordered, however late it comes, and whatever is
\* restarted, reset or evicted: the link keeps KInv.
THEOREM KeptInvariance ==
  ASSUME FewNumbers
  PROVE  Spec => []KInv
<1>1. Init => KInv
  BY InitKInv
<1>2. KInv /\ [Next]_vars => KInv'
  BY StepKInv
<1> QED
  BY <1>1, <1>2, PTL DEF Spec

\* A bundle is handed up twice only if the receiver had lost track of its number: it was
\* not recorded when the bundle came, or was dropped with the window after that.
THEOREM AtMostOnceCorrect ==
  ASSUME FewNumbers
  PROVE  Spec => []AtMostOnce
<1>1. KInv => AtMostOnce
  BY DEF KInv, Once, AtMostOnce
<1> QED
  BY <1>1, KeptInvariance, PTL

-----------------------------------------------------------------------------
(* The link implements Delivery. *)

Doubt == late \/ restarts > 0

Trusted == Doubt \/ AckedWasDelivered

\* What is acknowledged is a bundle, while numbers are not shared and no mark is wrong.
LEMMA AckedByBundle ==
  ASSUME LInv, Numbered
  PROVE  Trusted
<1> SUFFICES ASSUME ~late, ~(restarts > 0), NEW i \in Ids, verdict[i] = "acked" PROVE Arrived(i)
  BY DEF Trusted, Doubt, AckedWasDelivered
<1>b. IInv /\ restarts = 0
  <2>1. IInv /\ TypeOK
    BY DEF LInv, TInv
  <2> QED
    BY <2>1, LinkConstants DEF TypeOK
<1>a. TypeOK /\ Sent /\ AckedTrue /\ Spaced(1 .. sent, seq_of, tx_seq, sent)
  BY <1>b DEF IInv, Numbered
<1>1. PICK j \in 1 .. sent : seq_of[j] = seq_of[i] /\ Arrived(j)
  BY <1>a DEF AckedTrue
<1>2. i \in 1 .. sent
  BY <1>a, Numbers DEF Sent, Ids
<1> QED
  BY <1>a, <1>1, <1>2, Unique

\* The refinement mapping of D.
HandedUp == [i \in Ids |-> IF Arriving(i) /\ ~dedup_seen(ring, i) THEN got[i] + 1 ELSE got[i]]

\* The history's part of a step of Delivery, and the four kinds of step.
Grows == forgotten \subseteq forgotten' /\ (Doubt => Doubt')

LEMMA Stays ==
  ASSUME Grows, HandedUp' = HandedUp, verdict' = verdict
  PROVE  [D!Next]_(D!vars)
BY DEF Grows, Doubt, D!Next, HandedUp

LEMMA QuietStays ==
  ASSUME Grows, UNCHANGED <<got, ring, verdict>>, \A i \in Ids : Arriving(i)' <=> Arriving(i)
  PROVE  [D!Next]_(D!vars)
<1>1. HandedUp' = HandedUp
  BY DEF HandedUp
<1> QED
  BY <1>1, Stays

LEMMA Receives ==
  ASSUME Grows, NEW n \in Ids, verdict[n] # "unsent", HandedUp[n] = 0 \/ n \in forgotten',
         HandedUp' = [HandedUp EXCEPT ![n] = @ + 1], verdict' = verdict
  PROVE  [D!Next]_(D!vars)
<1>1. D!Receive(n)
  BY DEF D!Receive, HandedUp
<1> QED
  BY <1>1 DEF Grows, Doubt, D!Next

LEMMA GivesUp ==
  ASSUME Grows, NEW S \in SUBSET Ids, \A i \in S : verdict[i] = "pending", HandedUp' = HandedUp,
         verdict' = [i \in Ids |-> IF i \in S THEN "dropped" ELSE verdict[i]]
  PROVE  [D!Next]_(D!vars)
<1>1. D!GiveUp(S)
  BY DEF D!GiveUp, HandedUp
<1> QED
  BY <1>1 DEF Grows, Doubt, D!Next

\* A bundle past rx_env is handed up, unless the dedup ring stops it.
LEMMA RxEnvDelivers ==
  ASSUME KInv, Once', Grows, NEW n \in Ids, rx_env(n)
  PROVE  [D!Next]_(D!vars)
<1>a. TypeOK /\ Sent
  BY DEF KInv, TInv
<1>b. n \in air /\ rx_pc = "idle" /\ UNCHANGED <<got, ring, verdict>>
  BY DEF rx_env, sndVars
<1>1. CASE UNCHANGED <<rx_pc, rx_id>>
  BY <1>1, <1>b, QuietStays DEF Arriving
<1>2. CASE rx_pc' = "data" /\ rx_id' = n
  <2>1. \A i : ~Arriving(i) /\ (Arriving(i)' <=> i = n)
    BY <1>2, <1>b DEF Arriving
  <2>2. HandedUp = got
    <3>1. got = [i \in Ids |-> got[i]]
      BY <1>a DEF TypeOK
    <3> QED
      BY <2>1, <3>1 DEF HandedUp
  <2>3. HandedUp' = [i \in Ids |-> IF i = n /\ ~dedup_seen(ring, n) THEN got[i] + 1 ELSE got[i]]
    BY <1>b, <2>1 DEF HandedUp
  <2>4. CASE dedup_seen(ring, n)
    <3>1. HandedUp' = HandedUp
      BY <1>a, <2>2, <2>3, <2>4 DEF TypeOK
    <3> QED
      BY <1>b, <3>1, Stays
  <2>5. CASE ~dedup_seen(ring, n)
    <3>1. HandedUp' = [HandedUp EXCEPT ![n] = @ + 1]
      BY <1>a, <2>2, <2>3, <2>5 DEF TypeOK
    <3>2. HandedUp[n] = 0 \/ n \in forgotten'
      BY <1>b, <2>1, <2>2 DEF Once
    <3>3. verdict[n] # "unsent"
      <4>1. n <= sent /\ sent \in Nat /\ n \in Nat
        BY <1>a, <1>b, Numbers DEF Sent, Ids
      <4>2. ~(n > sent)
        BY <4>1
      <4> QED
        BY <1>a, <4>2 DEF Sent
    <3> QED
      BY <1>b, <3>1, <3>2, <3>3, Receives
  <2> QED
    BY <2>4, <2>5
<1> QED
  BY <1>1, <1>2 DEF rx_env

\* What rx_data does was decided by the time the bundle was past rx_env.
LEMMA RxDataDelivers ==
  ASSUME KInv, Grows, rx_data
  PROVE  [D!Next]_(D!vars)
<1>a. TypeOK /\ Sent /\ NoRing /\ got \in [Ids -> 0 .. MaxRetries + 1]
  BY DEF KInv, TInv, TypeOK
<1>b. rx_pc = "data" /\ verdict' = verdict /\ rx_pc' \in {"idle", "ack"}
  BY DEF rx_data, sndVars, ack_decide
<1>c. got' = IF dedup_seen(ring, rx_id) THEN got ELSE [got EXCEPT ![rx_id] = @ + 1]
  <2>1. CASE got' = IF dedup_seen(ring, rx_id) THEN got ELSE [got EXCEPT ![rx_id] = @ + 1]
    BY <2>1
  <2>2. CASE ~known /\ got' = [got EXCEPT ![rx_id] = @ + 1]
    <3>1. ring = <<>>
      BY <1>a, <2>2 DEF NoRing
    <3>2. ~dedup_seen(ring, rx_id)
      BY <3>1 DEF dedup_seen
    <3> QED
      BY <2>2, <3>2
  <2> QED
    BY <2>1, <2>2 DEF rx_data
<1>d. \A i : ~Arriving(i)' /\ (Arriving(i) <=> i = rx_id)
  BY <1>b DEF Arriving
<1>1. HandedUp' = [i \in Ids |-> got'[i]]
  BY <1>d DEF HandedUp
<1>2. HandedUp = [i \in Ids |-> IF i = rx_id /\ ~dedup_seen(ring, rx_id) THEN got[i] + 1 ELSE got[i]]
  BY <1>d DEF HandedUp
<1>3. ASSUME NEW i \in Ids
      PROVE  got'[i] = IF i = rx_id /\ ~dedup_seen(ring, rx_id) THEN got[i] + 1 ELSE got[i]
  BY <1>a, <1>c
<1>4. HandedUp' = HandedUp
  BY <1>1, <1>2, <1>3
<1> QED
  BY <1>b, <1>4, Stays

\* With the entry goes the dedup ring, and what it would have stopped goes up.
LEMMA EvictDelivers ==
  ASSUME KInv, Grows, peer_create_evicts
  PROVE  [D!Next]_(D!vars)
<1>a. TypeOK /\ Sent /\ got \in [Ids -> 0 .. MaxRetries + 1]
  BY DEF KInv, TInv, TypeOK
<1>b. ring' = <<>> /\ forgotten' = forgotten \cup Taken /\ UNCHANGED <<got, rx_pc, rx_id, verdict>>
  BY DEF peer_create_evicts, rxVars, sndVars
<1>c. \A i : (Arriving(i)' <=> Arriving(i)) /\ ~dedup_seen(ring', i)
  BY <1>b DEF Arriving, dedup_seen
<1>1. CASE \E n \in Ids : Arriving(n) /\ dedup_seen(ring, n)
  <2>1. PICK n \in Ids : Arriving(n) /\ dedup_seen(ring, n)
    BY <1>1
  <2>2. \A i : Arriving(i) <=> i = n
    BY <2>1 DEF Arriving
  <2>3. HandedUp' = [i \in Ids |-> IF i = n THEN got[i] + 1 ELSE got[i]]
    BY <1>b, <1>c, <2>2 DEF HandedUp
  <2>4. HandedUp = [i \in Ids |-> got[i]]
    BY <2>1, <2>2 DEF HandedUp
  <2>5. HandedUp' = [HandedUp EXCEPT ![n] = @ + 1]
    BY <2>3, <2>4
  <2>6. n \in forgotten'
    BY <1>b, <2>1 DEF Taken, Arrived
  <2>7. verdict[n] # "unsent"
    <3>1. n \in 1 .. sent /\ sent \in Nat
      BY <1>a, <2>1, Numbers DEF Sent, Arriving
    <3>2. ~(n > sent)
      BY <3>1
    <3> QED
      BY <1>a, <3>2 DEF Sent
  <2> QED
    BY <1>b, <2>5, <2>6, <2>7, Receives
<1>2. CASE ~\E n \in Ids : Arriving(n) /\ dedup_seen(ring, n)
  <2>1. HandedUp' = HandedUp
    BY <1>2, <1>b, <1>c DEF HandedUp
  <2> QED
    BY <1>b, <2>1, Stays
<1> QED
  BY <1>1, <1>2

\* An ACK settles bundles that were handed up, unless acknowledgements are in doubt.
LEMMA RxAckDelivers ==
  ASSUME LInv, Trusted', Grows, NEW a \in acks, rx_ack(a)
  PROVE  [D!Next]_(D!vars)
<1> DEFINE S == {i \in InFlight : Names(a, i)}
<1>1. /\ UNCHANGED <<got, ring, rx_pc, rx_id, late, restarts>>
      /\ verdict' = [i \in Ids |-> IF i \in S THEN "acked" ELSE verdict[i]]
  BY DEF rx_ack, rxVars, peerVars, histVars
<1>2. S \in SUBSET Ids /\ \A i \in S : verdict[i] = "pending"
  BY DEF InFlight
<1> HIDE DEF S
<1>3. \A i : (Arrived(i)' <=> Arrived(i)) /\ (Arriving(i)' <=> Arriving(i))
  BY <1>1 DEF Arrived, Arriving
<1>4. HandedUp' = HandedUp
  BY <1>1, <1>3 DEF HandedUp
<1>5. \A i \in S : HandedUp[i] > 0 \/ Doubt
  <2> SUFFICES ASSUME NEW i \in S, ~Doubt PROVE HandedUp[i] > 0
    OBVIOUS
  <2>1. IInv /\ TypeOK /\ ~Doubt'
    BY <1>1 DEF Doubt, LInv, TInv
  <2>2. AckedWasDelivered'
    BY <2>1 DEF Trusted
  <2>3. i \in Ids /\ Arrived(i)
    BY <1>1, <1>2, <1>3, <2>2 DEF AckedWasDelivered
  <2>4. dedup_seen(ring, i) => got[i] > 0
    <3>1. DOMAIN ring = 1 .. Len(ring) /\ \A k \in 1 .. Len(ring) : got[ring[k]] > 0
      BY <2>1, Numbers DEF FidsTrue, IInv
    <3> QED
      BY <3>1 DEF dedup_seen
  <2>5. got[i] \in Nat
    BY <2>1, <2>3, Numbers
  <2>6. HandedUp[i] = IF Arriving(i) /\ ~dedup_seen(ring, i) THEN got[i] + 1 ELSE got[i]
    BY <2>3 DEF HandedUp
  <2> QED
    BY <2>3, <2>4, <2>5, <2>6 DEF Arrived
<1>6. D!Acknowledge(S)
  BY <1>1, <1>2, <1>4, <1>5 DEF D!Acknowledge, HandedUp, Doubt
<1> QED
  BY <1>2, <1>6 DEF Grows, Doubt, D!Next

LEMMA StepDelivers ==
  ASSUME FewNumbers, KInv, KInv', LInv, LInv', Trusted', [Next]_vars
  PROVE  [D!Next]_(D!vars)
<1>a. /\ TypeOK /\ Sent /\ sent \in Nat /\ Once' /\ Numbered'
      /\ verdict \in [Ids -> {"unsent", "pending", "acked", "dropped"}]
  BY Numbers DEF KInv, TInv, TypeOK
<1>b. Grows
  BY <1>a, HistoryGrows DEF Grows, Doubt
<1>1. CASE UNCHANGED vars
  <2>1. UNCHANGED <<got, ring, verdict, rx_pc, rx_id>>
    BY <1>1 DEF vars, sndVars, peerVars, rxVars
  <2> QED
    BY <1>b, <2>1, QuietStays DEF Arriving
<1>2. CASE agg_flush
  <2>1. /\ UNCHANGED <<got, ring, rx_pc, rx_id>>
        /\ sent < N /\ verdict' = [verdict EXCEPT ![sent + 1] = "pending"]
    BY <1>2 DEF agg_flush, rxVars, peerVars
  <2>2. sent + 1 \in Ids /\ sent + 1 > sent
    BY <1>a, <2>1, LinkConstants DEF Ids
  <2>3. verdict[sent + 1] = "unsent"
    BY <1>a, <2>2 DEF Sent
  <2>4. HandedUp' = HandedUp
    BY <2>1 DEF HandedUp, Arriving
  <2>5. D!Send(sent + 1)
    BY <2>1, <2>3, <2>4 DEF D!Send, HandedUp
  <2> QED
    BY <1>b, <2>2, <2>5 DEF D!Next, Grows, Doubt
<1>3. ASSUME NEW n \in Ids, Retransmit(n) PROVE [D!Next]_(D!vars)
  <2>1. UNCHANGED <<got, ring, verdict, rx_pc, rx_id>>
    BY <1>3 DEF Retransmit, peerVars, rxVars
  <2> QED
    BY <1>b, <2>1, QuietStays DEF Arriving
<1>4. ASSUME NEW n \in Ids, Drop(n) PROVE [D!Next]_(D!vars)
  <2> DEFINE S == {n}
  <2>1. /\ UNCHANGED <<got, ring, rx_pc, rx_id>> /\ S \in SUBSET Ids
        /\ \A i \in S : verdict[i] = "pending"
    BY <1>4 DEF Drop, rxVars, peerVars
  <2>2. verdict' = [i \in Ids |-> IF i \in S THEN "dropped" ELSE verdict[i]]
    BY <1>4, <1>a DEF Drop
  <2>3. HandedUp' = HandedUp
    BY <2>1 DEF HandedUp, Arriving
  <2> HIDE DEF S
  <2> QED
    BY <1>b, <2>1, <2>2, <2>3, GivesUp
<1>5. ASSUME NEW n \in Ids, rx_env(n) PROVE [D!Next]_(D!vars)
  BY <1>5, <1>a, <1>b, RxEnvDelivers
<1>6. ASSUME NEW a \in acks, rx_ack(a) PROVE [D!Next]_(D!vars)
  BY <1>6, <1>a, <1>b, RxAckDelivers
<1>7. CASE Restart
  <2> DEFINE S == InFlight
  <2>1. /\ UNCHANGED <<got, ring, rx_pc, rx_id>>
        /\ verdict' = [i \in Ids |-> IF i \in S THEN "dropped" ELSE verdict[i]]
    BY <1>7 DEF Restart, rxVars, peerVars
  <2>2. S \in SUBSET Ids /\ \A i \in S : verdict[i] = "pending"
    BY DEF InFlight
  <2>3. HandedUp' = HandedUp
    BY <2>1 DEF HandedUp, Arriving
  <2> HIDE DEF S
  <2> QED
    BY <1>b, <2>1, <2>2, <2>3, GivesUp
<1>8. CASE Lose \/ TickCollect \/ TickSendAck \/ peer_get_stale
  <2>1. UNCHANGED <<got, ring, verdict, rx_pc, rx_id>>
    BY <1>8 DEF Lose, TickCollect, TickSendAck, peer_get_stale, sndVars, peerVars, rxVars
  <2> QED
    BY <1>b, <2>1, QuietStays DEF Arriving
<1>9. CASE rx_send_ack
  <2>1. UNCHANGED <<got, ring, rx_id, verdict>> /\ rx_pc = "ack" /\ rx_pc' = "idle"
    BY <1>9 DEF rx_send_ack, sndVars, peerVars
  <2> QED
    BY <1>b, <2>1, QuietStays DEF Arriving
<1>10. CASE rx_data
  BY <1>10, <1>b, RxDataDelivers
<1>11. CASE peer_create_evicts
  BY <1>11, <1>b, EvictDelivers
<1> QED
  BY <1>1, <1>2, <1>3, <1>4, <1>5, <1>6, <1>7, <1>8, <1>9, <1>10, <1>11 DEF Next

\* The link implements Delivery, whatever happens to either node and however late a
\* bundle comes: every step of the link is a step of the promise or changes nothing of
\* it.
THEOREM DeliveryCorrect ==
  ASSUME FewNumbers
  PROVE  Spec => DeliveryHolds
<1>1. Init => D!Init
  <2> SUFFICES ASSUME Init PROVE D!Init
    OBVIOUS
  <2>1. HandedUp = [i \in Ids |-> 0]
    BY DEF Init, HandedUp, Arriving
  <2>2. ~Doubt /\ forgotten = {} /\ verdict = [i \in Ids |-> "unsent"]
    BY DEF Init, Doubt
  <2> QED
    BY <2>1, <2>2 DEF D!Init, HandedUp, Doubt
<1>2. KInv /\ LInv => Trusted
  BY AckedByBundle DEF KInv
<1>3. KInv /\ KInv' /\ LInv /\ LInv' /\ Trusted' /\ [Next]_vars => [D!Next]_(D!vars)
  BY StepDelivers
<1> QED
  BY <1>1, <1>2, <1>3, KeptInvariance, LinkInvariance, PTL DEF Spec, DeliveryHolds, D!Spec
=============================================================================
