------------------------------- MODULE TcpOut -------------------------------
(***************************************************************************)
(* The way out: frames that came over the air wait in a ring of buffers    *)
(* that the receive path fills and the tcps task empties into the host's   *)
(* connection (tcp_server.c).                                              *)
(*                                                                         *)
(* The ring owns the buffers: a frame goes in whole or is freed at once,   *)
(* the task frees it after writing it. It is written with the mutex        *)
(* released, in pieces, as lwIP finds room; the same task then reads from  *)
(* the host ("input"), and while it does, the ring only fills.             *)
(***************************************************************************)
EXTENDS Integers, Sequences, FiniteSets

CONSTANTS
  MaxFrames,   \* bound: frames received over the air in a behaviour
  MaxClients,  \* bound: connections accepted in a behaviour
  RingBytes,   \* sizeof(g_tx_rb_buff)
  PkgBytes,    \* sizeof(struct rb_tx_package)
  FrameLen,    \* bytes of a frame
  Burst,       \* packages written per iteration (4)
  StallLimit   \* TCP_SERVER_SEND_STALL_LIMIT_MS

ASSUME TcpOutAssumption ==
  /\ {MaxFrames, MaxClients, FrameLen, Burst, StallLimit, PkgBytes} \subseteq Nat \ {0}
  /\ RingBytes \in Nat /\ RingBytes > PkgBytes

Frames == 1 .. MaxFrames

VARIABLES
  ring,      \* g_tx_rb: the frames whose buffers it owns, oldest first
  arrived,   \* frames received over the air so far; they are numbered
  freed,     \* how often each frame's buffer was freed
  clients,   \* connections accepted so far
  alive,     \* whether the host's end of the connection is up
  tpc,       \* tcp_server_task: "accept", "burst", "write", "input", "close"
  burst,     \* packages taken in this iteration
  hand, offset, wb_cnt,  \* tx_package (0 for none) and how far it is written
  sent,      \* history: what this connection was given, as <<frame, bytes>>
  born       \* history: arrived when this connection was accepted

taskVars == <<clients, alive, tpc, burst, hand, offset, wb_cnt, sent, born>>
vars == <<ring, arrived, freed, taskVars>>

Init ==
  /\ ring = <<>> /\ arrived = 0 /\ freed = [f \in Frames |-> 0]
  /\ clients = 0 /\ alive = FALSE /\ tpc = "accept"
  /\ burst = 0 /\ hand = 0 /\ offset = 0 /\ wb_cnt = 0
  /\ sent = <<>> /\ born = 0

-----------------------------------------------------------------------------
(* The receive path: tcp_server_send_owned. *)

\* Mutant: the ring could be filled to the last byte.
get_free_all == RingBytes - Len(ring) * PkgBytes

\* lwrb_get_free: a ring keeps one byte unused.
get_free == RingBytes - 1 - Len(ring) * PkgBytes

Free(f) == freed' = [freed EXCEPT ![f] = @ + 1]

\* Mutant: the room is not checked, and the oldest descriptor is overwritten.
push_owned_unchecked(f) ==
  /\ ring' = IF get_free < PkgBytes THEN Append(Tail(ring), f) ELSE Append(ring, f)
  /\ UNCHANGED freed

\* tcp_server_push_owned_locked: the ring takes the buffer, or it is freed.
push_owned_locked(f) ==
  IF get_free < PkgBytes
    THEN Free(f) /\ UNCHANGED ring
    ELSE ring' = Append(ring, f) /\ UNCHANGED freed

\* The mutex is only tried: while the tcps task is taking a package or clearing
\* the ring, the frame is dropped.
send_owned(f) ==
  \/ push_owned_locked(f)
  \/ Free(f) /\ UNCHANGED ring

Deliver ==
  /\ arrived < MaxFrames
  /\ arrived' = arrived + 1
  /\ send_owned(arrived + 1)
  /\ UNCHANGED taskVars

-----------------------------------------------------------------------------
(* The tcps task. *)

\* tcp_server_tx_queue_clear.
tx_queue_clear ==
  /\ ring' = <<>>
  /\ freed' = [f \in Frames |-> freed[f] + Cardinality({i \in DOMAIN ring : ring[i] = f})]

\* Mutant: what waited for the last client is kept for the next one.
AcceptKeeps ==
  /\ tpc = "accept" /\ clients < MaxClients
  /\ clients' = clients + 1 /\ alive' = TRUE
  /\ tpc' = "burst" /\ burst' = 0
  /\ sent' = <<>> /\ born' = arrived
  /\ UNCHANGED <<ring, freed, arrived, hand, offset, wb_cnt>>

\* netconn_accept of an allowed client: the ring filled while there was none.
Accept ==
  /\ tpc = "accept" /\ clients < MaxClients
  /\ clients' = clients + 1 /\ alive' = TRUE
  /\ tx_queue_clear
  /\ tpc' = "burst" /\ burst' = 0
  /\ sent' = <<>> /\ born' = arrived
  /\ UNCHANGED <<arrived, hand, offset, wb_cnt>>

\* One package is taken under the mutex.
Pop ==
  /\ tpc = "burst" /\ burst < Burst /\ ring # <<>>
  /\ hand' = Head(ring) /\ ring' = Tail(ring)
  /\ offset' = 0 /\ wb_cnt' = 0
  /\ tpc' = "write"
  /\ UNCHANGED <<arrived, freed, clients, alive, burst, sent, born>>

BurstEnd ==
  /\ tpc = "burst" /\ (burst = Burst \/ ring = <<>>)
  /\ tpc' = "input"
  /\ UNCHANGED <<ring, arrived, freed, clients, alive, burst, hand, offset, wb_cnt, sent, born>>

\* netconn_write_partly gave lwIP n more bytes of the frame in hand.
Given(n) ==
  sent' = IF n = 0 THEN sent
          ELSE IF offset = 0 THEN Append(sent, <<hand, n>>)
          ELSE [sent EXCEPT ![Len(sent)] = <<hand, offset + n>>]

\* Mutant: a frame that did not go out is tried again instead of given up.
DropRetried(whole) ==
  /\ wb_cnt' = 0
  /\ IF whole THEN Free(hand) /\ hand' = 0 /\ offset' = 0 /\ tpc' = "burst" /\ burst' = burst + 1
     ELSE UNCHANGED <<freed, hand, offset, tpc, burst>>

\* The buffer is freed whether or not the frame went out whole; after a torn one
\* the rest of the burst is left for the next iteration.
Drop(whole) ==
  /\ Free(hand)
  /\ hand' = 0 /\ offset' = 0 /\ wb_cnt' = 0
  /\ tpc' = IF whole THEN "burst" ELSE "input"
  /\ burst' = IF whole THEN burst + 1 ELSE burst

\* Tries in a row that ended in ERR_WOULDBLOCK with no byte taken.
fruitless(n) == (IF n > 0 THEN 0 ELSE wb_cnt) + 1

\* ERR_OK: all of it, or as much as fits.
WriteOk ==
  /\ tpc = "write" /\ alive
  /\ \E n \in 1 .. FrameLen - offset :
       /\ Given(n)
       /\ IF offset + n = FrameLen THEN Drop(TRUE)
          ELSE offset' = offset + n /\ wb_cnt' = 0 /\ UNCHANGED <<freed, hand, tpc, burst>>
  /\ UNCHANGED <<ring, arrived, clients, alive, born>>

\* ERR_WOULDBLOCK: the host does not read. "send stuck -> close" only gives the
\* frame up; the connection stays.
WriteBlocked ==
  /\ tpc = "write"
  /\ \E n \in 0 .. FrameLen - offset - 1 :
       /\ Given(n)
       /\ IF fruitless(n) > StallLimit THEN Drop(FALSE)
          ELSE /\ offset' = offset + n
               /\ wb_cnt' = fruitless(n)
               /\ UNCHANGED <<freed, hand, tpc, burst>>
  /\ UNCHANGED <<ring, arrived, clients, alive, born>>

\* Any other error.
WriteFailed ==
  /\ tpc = "write" /\ ~alive
  /\ Drop(FALSE)
  /\ UNCHANGED <<ring, arrived, clients, alive, sent, born>>

\* The rest of the iteration, which may read from the host (TcpStream) and send
\* over the air, is over.
InputEnd ==
  /\ tpc = "input"
  /\ tpc' = "burst" /\ burst' = 0
  /\ UNCHANGED <<ring, arrived, freed, clients, alive, hand, offset, wb_cnt, sent, born>>

\* netconn_recv reports the end of the connection, or the server was disabled.
InputClosed ==
  /\ tpc = "input"
  /\ tpc' = "close"
  /\ UNCHANGED <<ring, arrived, freed, clients, alive, burst, hand, offset, wb_cnt, sent, born>>

\* The client is forgotten and what waited for it dropped.
Close ==
  /\ tpc = "close"
  /\ tx_queue_clear
  /\ alive' = FALSE
  /\ tpc' = "accept"
  /\ UNCHANGED <<arrived, clients, burst, hand, offset, wb_cnt, sent, born>>

HostGone ==
  /\ alive /\ alive' = FALSE
  /\ UNCHANGED <<ring, arrived, freed, clients, tpc, burst, hand, offset, wb_cnt, sent, born>>

TcpsWrite == Pop \/ BurstEnd \/ WriteOk \/ WriteBlocked \/ WriteFailed

TcpsInput == InputEnd \/ InputClosed

Next == Deliver \/ Accept \/ TcpsWrite \/ TcpsInput \/ Close \/ HostGone

Spec == Init /\ [][Next]_vars

\* The task is scheduled, and its input half ends: netconn_recv does not block, a
\* netbuf holds finitely many frames, and a wait for the radio is bounded
\* (TxBudget!WaitEnds). Neither the host nor the radio promises anything.
FairSpec == Spec /\ WF_vars(TcpsWrite) /\ WF_vars(TcpsInput) /\ WF_vars(Close)

-----------------------------------------------------------------------------
(* Properties. *)

TypeOK ==
  /\ ring \in Seq(Frames) /\ Len(ring) * PkgBytes < RingBytes
  /\ arrived \in 0 .. MaxFrames /\ freed \in [Frames -> Nat]
  /\ clients \in 0 .. MaxClients /\ alive \in BOOLEAN
  /\ tpc \in {"accept", "burst", "write", "input", "close"}
  /\ burst \in 0 .. Burst /\ hand \in 0 .. MaxFrames
  /\ offset \in 0 .. FrameLen - 1 /\ wb_cnt \in 0 .. StallLimit
  /\ sent \in Seq(Frames \X (1 .. FrameLen)) /\ born \in 0 .. MaxFrames
  /\ (tpc = "write") = (hand # 0)

\* Every buffer has one owner: the ring, the task's hand, or, freed exactly once,
\* the heap. Nothing is freed twice, written after it was freed, or leaked,
\* whatever is refused, torn or cleared.
BufferOwnedOnce ==
  \A f \in 1 .. arrived :
    Cardinality({i \in DOMAIN ring : ring[i] = f})
      + (IF hand = f THEN 1 ELSE 0) + freed[f] = 1

\* A connection is given frames that arrived after it was accepted, each at most
\* once and in the order they arrived, whatever waited for the client before it.
HostSeesOwnFrames ==
  /\ \A i \in DOMAIN sent : sent[i][1] > born
  /\ \A i, j \in DOMAIN sent : i < j => sent[i][1] < sent[j][1]

InRing(f) == \E i \in DOMAIN ring : ring[i] = f

\* A frame that waits for a connected host leaves the ring, although the host may
\* stop reading in the middle of a frame and never close.
RingDrains == \A f \in Frames : (InRing(f) /\ tpc # "accept") ~> ~InRing(f)
=============================================================================
