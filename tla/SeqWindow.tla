----------------------------- MODULE SeqWindow -----------------------------
(***************************************************************************)
(* The receiver's record of bundle sequence numbers in halow_ack.c and the *)
(* ACK made from it. A peer's rx_seq_win is a HALOW_ACK_SEQ_WINDOW-bit     *)
(* word whose bit i says that sequence number rx_seq_last - i has arrived; *)
(* it is modelled as the set of its one-bits. An ACK carries the same bits *)
(* counted from the oldest number, base.                                   *)
(*                                                                         *)
(* The late mark of peer_rx_seq shifts the 32-bit constant 1u by up to 63: *)
(* from 32 on the result is undefined. The builds produce either no bit    *)
(* (the shift saturates) or the bit of the count modulo 32.                *)
(***************************************************************************)
EXTENDS Integers

CONSTANTS
  Mod,        \* 2^16, the range of a sequence number
  Win,        \* HALOW_ACK_SEQ_WINDOW (64)
  ShiftBits   \* the width of the constant 1u (32)

ASSUME SeqAssumption ==
  /\ Mod \in Nat /\ Win \in Nat /\ ShiftBits \in Nat
  /\ 0 < ShiftBits /\ ShiftBits <= Win
  /\ 2 * Win <= Mod

Seqs == 0 .. Mod - 1
Bits == 0 .. Win - 1

\* (uint16_t)(a - b).
Sub(a, b) == IF a >= b THEN a - b ELSE a - b + Mod

\* rx_seq_seen, rx_seq_last and rx_seq_win.
Windows == [seen : BOOLEAN, last : Seqs, win : SUBSET Bits]
NoWindow == [seen |-> FALSE, last |-> 0, win |-> {}]

\* Mutant: the number that means "none" is handed out.
SeqTakenAny(t) == t

\* The sequence number agg_flush_locked gives a bundle, and p->tx_seq after it:
\* the last number is skipped, it means "no sequence number".
SeqTaken(t) == IF t = Mod - 1 THEN 0 ELSE t
TxSeqAfter(t) == SeqTaken(t) + 1

\* The test of rx_env: seq was recorded and is still in the window.
Marked(w, seq) == w.seen /\ Sub(w.last, seq) \in w.win

Resync(seq) == [seen |-> TRUE, last |-> seq, win |-> {0}]

\* Mutant: the window is moved without marking its newest number.
ForwardNoMark(w, seq) ==
  [w EXCEPT !.last = seq,
            !.win = {i \in Bits : i - Sub(seq, w.last) \in w.win}]

\* Mutant: the window is moved by one place less than the numbers are.
ForwardShort(w, seq) ==
  [w EXCEPT !.last = seq,
            !.win = {i \in Bits : i = 0 \/ i - Sub(seq, w.last) + 1 \in w.win}]

\* (win << fwd) | 1, the bits that leave the word being lost.
Forward(w, seq) ==
  [w EXCEPT !.last = seq,
            !.win = {i \in Bits : i = 0 \/ i - Sub(seq, w.last) \in w.win}]

\* win | (1u << back).
LateMarks(w, back) ==
  IF back < ShiftBits
    THEN {[w EXCEPT !.win = @ \cup {back}]}
    ELSE {w, [w EXCEPT !.win = @ \cup {back % ShiftBits}]}

\* Mutant: an old number is taken for a jump, as it once was.
peer_rx_seq_poison(w, seq) ==
  LET fwd == Sub(seq, w.last)
  IN  IF ~w.seen THEN {Resync(seq)}
      ELSE IF fwd = 0 THEN {w}
      ELSE IF fwd < Win THEN {Forward(w, seq)}
      ELSE {Resync(seq)}

\* What peer_rx_seq may leave behind.
peer_rx_seq(w, seq) ==
  LET fwd == Sub(seq, w.last)
      back == Sub(w.last, seq)
  IN  IF ~w.seen THEN {Resync(seq)}
      ELSE IF fwd = 0 THEN {w}
      ELSE IF fwd < Win THEN {Forward(w, seq)}
      ELSE IF back < Win THEN LateMarks(w, back)
      ELSE {Resync(seq)}

\* Where peer_rx_seq records no mark, or drops those it has: the number is so late
\* that its mark leaves the word, or a whole window away on either side.
OutOfShift(w, seq) ==
  w.seen /\ Sub(seq, w.last) >= Win /\ Sub(w.last, seq) \in ShiftBits .. Win - 1
Jumps(w, seq) == w.seen /\ Sub(seq, w.last) >= Win /\ Sub(w.last, seq) >= Win

\* env_ack_capture_locked: the ACK made from a window.
Capture(w) ==
  [base |-> Sub(w.last, Win - 1), bm |-> {i \in Bits : Win - 1 - i \in w.win}]

\* Mutant: the bitmap is read one place off.
CoversNext(ack, seq) == Sub(seq, ack.base) - 1 \in ack.bm

\* The test of rx_env_ack_locked: diff < HALOW_ACK_SEQ_WINDOW and its bit is set.
Covers(ack, seq) == Sub(seq, ack.base) \in ack.bm
=============================================================================
