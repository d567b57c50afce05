----------------------------- MODULE TcpStream -----------------------------
(***************************************************************************)
(* The way in: from the host's TCP connection through the stream decoder   *)
(* (rns/stream_parser.c) to halow_ack_tx, as the tcps task runs it         *)
(* (tcp_client_loop and tcp_server_feed_netbuf in tcp_server.c).           *)
(*                                                                         *)
(* TCP cuts the host's bytes into netbufs, and those into chunks, anywhere.*)
(* When the ACK layer has no room halow_ack_tx answers THROTTLE: the frame *)
(* stays in the decoder (held), the netbuf stays with the task and feeding *)
(* goes on later at the byte after it. ACKs arrive meanwhile, in another   *)
(* task. What the ACK layer does with a frame it takes is in AckSlots.     *)
(***************************************************************************)
EXTENDS Integers, Sequences, SequencesExt

CONSTANTS
  Sessions,   \* the payloads the host sends: a sequence of them per connection
  MaxFrame,   \* RNS_STREAM_MAX_FRAME_SIZE
  MaxNetbuf,  \* bytes in a netbuf
  Window,     \* frames the ACK layer takes before it needs an ACK
  HeapFails   \* whether buf_alloc may fail although there is room

\* The bytes the framing tells apart, and byte ^ RNS_STREAM_ESC_MASK.
FLAG == "7E"
ESC  == "7D"
Masked == [b \in {"7E", "7D", "5E", "5D", "41", "61"} |->
             CASE b = "7E" -> "5E" [] b = "5E" -> "7E"
               [] b = "7D" -> "5D" [] b = "5D" -> "7D"
               [] b = "41" -> "61" [] b = "61" -> "41"]
Bytes == DOMAIN Masked

ASSUME StreamAssumption ==
  /\ Sessions \in Seq(Seq(Seq(Bytes))) /\ Len(Sessions) > 0
  /\ {MaxFrame, MaxNetbuf, Window} \subseteq Nat \ {0}
  /\ Window >= 2
  /\ HeapFails \in BOOLEAN

VARIABLES
  session,              \* the connection being served
  wire, closed,         \* bytes the host has not sent yet; whether it has closed
  rcvq,                 \* what netconn_recv will return: a netbuf, or nothing
  state, frame, held,   \* tcp_rns_decoder: state, frame_buffer and held
  nb, chunk, ofs,       \* the netbuf in hand (<<>> for none) and the cursor in it
  pc,                   \* tcp_client_loop: "top", "recv", "feed"
  room,                 \* frames the ACK layer will take now
  out                   \* frames of this connection it has taken

hostVars == <<session, wire, closed>>
decoder == <<state, frame, held>>
cursor == <<nb, chunk, ofs>>
streamVars == <<hostVars, rcvq, decoder, cursor, pc, room, out>>

-----------------------------------------------------------------------------
(* Framing. *)

\* rns_stream_escape_write: one byte, and all of a payload.
EscapeByte(b) == IF b \in {FLAG, ESC} THEN <<ESC, Masked[b]>> ELSE <<b>>
Escape(p) == FlattenSeq([i \in 1 .. Len(p) |-> EscapeByte(p[i])])

\* rns_stream_encode_frame, which the host does too.
Encode(p) == <<FLAG>> \o Escape(p) \o <<FLAG>>

HostStream(s) == FlattenSeq([k \in 1 .. Len(Sessions[s]) |-> Encode(Sessions[s][k])])

StreamInit ==
  /\ session = 1 /\ wire = HostStream(1) /\ closed = FALSE
  /\ rcvq = <<>>
  /\ state = "wait" /\ frame = <<>> /\ held = FALSE
  /\ nb = <<>> /\ chunk = 1 /\ ofs = 0
  /\ pc = "top"
  /\ room = Window
  /\ out = <<>>

-----------------------------------------------------------------------------
(* The host, the TCP stack and the ACKs. *)

\* A netbuf of k bytes, in one chunk or two.
HostSend ==
  /\ ~closed /\ rcvq = <<>>
  /\ \E k \in 1 .. MaxNetbuf : \E j \in 1 .. k :
       /\ k <= Len(wire)
       /\ rcvq' = IF j = k THEN << SubSeq(wire, 1, k) >>
                           ELSE << SubSeq(wire, 1, j), SubSeq(wire, j + 1, k) >>
       /\ wire' = SubSeq(wire, k + 1, Len(wire))
  /\ UNCHANGED <<session, closed, decoder, cursor, pc, room, out>>

\* The last connection of a behaviour stays.
HostClose ==
  /\ ~closed /\ session < Len(Sessions)
  /\ closed' = TRUE
  /\ UNCHANGED <<session, wire, rcvq, decoder, cursor, pc, room, out>>

\* An ACK, or a deadline, frees a slot.
Ack ==
  /\ room < Window
  /\ room' = room + 1
  /\ UNCHANGED <<hostVars, rcvq, decoder, cursor, pc, out>>

-----------------------------------------------------------------------------
(* The decoder and the ACK layer behind it. *)

\* rns_stream_emit_frame: the ACK layer takes the frame, or throttles.
Taken == room > 0 /\ room' = room - 1 /\ out' = Append(out, frame)
Throttled == (room = 0 \/ HeapFails) /\ UNCHANGED <<room, out>>

\* A held frame is tried again: taken, the decoder is ready for the next one.
RetryTaken == Taken /\ held' = FALSE /\ state' = "read" /\ frame' = <<>>

\* rns_stream_decoder_retry_held.
retry_held ==
  \/ held /\ RetryTaken
  \/ held /\ Throttled /\ UNCHANGED decoder
  \/ ~held /\ UNCHANGED <<decoder, room, out>>

\* A byte that is not FLAG.
TakeByte(b) ==
  /\ \/ state = "wait" /\ UNCHANGED <<state, frame>>
     \/ state = "read" /\ b = ESC /\ state' = "esc" /\ UNCHANGED frame
     \/ /\ state = "esc" \/ (state = "read" /\ b # ESC)
        /\ IF Len(frame) >= MaxFrame
             THEN state' = "wait" /\ frame' = <<>>
             ELSE /\ state' = "read"
                  /\ frame' = Append(frame, IF state = "esc" THEN Masked[b] ELSE b)
  /\ UNCHANGED <<held, room, out>>

Complete == state \in {"read", "esc"} /\ frame # <<>>

\* A FLAG: the frame before it is complete.
TakeFlag ==
  \/ ~Complete /\ state' = "read" /\ frame' = <<>> /\ UNCHANGED <<held, room, out>>
  \/ Complete /\ Taken /\ state' = "read" /\ frame' = <<>> /\ UNCHANGED held

\* Mutant: a frame that is refused is not kept.
HoldFrameLost == Complete /\ Throttled /\ state' = "read" /\ frame' = <<>> /\ UNCHANGED held

HoldFrame == Complete /\ Throttled /\ held' = TRUE /\ UNCHANGED <<state, frame>>

-----------------------------------------------------------------------------
(* The tcps task. *)

\* The cursor moves past one byte, and at the end of a chunk to the next one.
Advance ==
  /\ IF ofs + 1 >= Len(nb[chunk])
       THEN chunk' = chunk + 1 /\ ofs' = 0
       ELSE ofs' = ofs + 1 /\ UNCHANGED chunk
  /\ UNCHANGED nb

\* rns_stream_decoder_process, called by tcp_server_feed_netbuf on what is left
\* of a chunk. A held frame goes first, before any byte is consumed.
FeedHeld ==
  /\ pc = "feed" /\ chunk <= Len(nb) /\ held
  /\ \/ RetryTaken /\ UNCHANGED pc
     \/ Throttled /\ pc' = "top" /\ UNCHANGED decoder
  /\ UNCHANGED <<hostVars, rcvq, cursor>>

FeedByte ==
  /\ pc = "feed" /\ chunk <= Len(nb) /\ ~held
  /\ IF nb[chunk][ofs + 1] = FLAG THEN TakeFlag ELSE TakeByte(nb[chunk][ofs + 1])
  /\ Advance
  /\ UNCHANGED <<hostVars, rcvq, pc>>

\* A frame is refused: feeding stops right after its FLAG.
FeedThrottled ==
  /\ pc = "feed" /\ chunk <= Len(nb) /\ ~held
  /\ nb[chunk][ofs + 1] = FLAG
  /\ HoldFrame
  /\ Advance
  /\ pc' = "top"
  /\ UNCHANGED <<hostVars, rcvq>>

\* Mutant: a netbuf is kept until its last frame has gone out.
FeedEndHeld ==
  /\ pc = "feed" /\ chunk > Len(nb)
  /\ IF held THEN UNCHANGED cursor ELSE nb' = <<>> /\ chunk' = 1 /\ ofs' = 0
  /\ pc' = "top"
  /\ UNCHANGED <<hostVars, rcvq, decoder, room, out>>

\* The whole netbuf is consumed: netbuf_delete.
FeedEnd ==
  /\ pc = "feed" /\ chunk > Len(nb)
  /\ nb' = <<>> /\ chunk' = 1 /\ ofs' = 0
  /\ pc' = "top"
  /\ UNCHANGED <<hostVars, rcvq, decoder, room, out>>

\* held_nb is fed again from where it stopped.
LoopHeldNetbuf ==
  /\ pc = "top" /\ nb # <<>>
  /\ pc' = "feed"
  /\ UNCHANGED <<hostVars, rcvq, decoder, cursor, room, out>>

\* halow_ack_tx_ready with retries on: room for two, the margin it asks for. It
\* is also false while the radio's queue is short, at any time for this model.
tx_ready == room >= 2

LoopNotReady ==
  /\ pc = "top" /\ nb = <<>>
  /\ retry_held
  /\ UNCHANGED <<hostVars, rcvq, cursor, pc>>

LoopReady ==
  /\ pc = "top" /\ nb = <<>> /\ tx_ready
  /\ pc' = "recv"
  /\ UNCHANGED <<hostVars, rcvq, decoder, cursor, room, out>>

\* netconn_recv returns a netbuf.
Recv ==
  /\ pc = "recv" /\ rcvq # <<>>
  /\ nb' = rcvq /\ chunk' = 1 /\ ofs' = 0
  /\ rcvq' = <<>>
  /\ pc' = "feed"
  /\ UNCHANGED <<hostVars, decoder, room, out>>

\* ERR_WOULDBLOCK: halow_ack_flush sends what is staged; the loop starts over.
RecvNothing ==
  /\ pc = "recv" /\ rcvq = <<>> /\ ~closed
  /\ pc' = "top"
  /\ UNCHANGED <<hostVars, rcvq, decoder, cursor, room, out>>

\* Mutant: the decoder keeps what it had of the last connection.
session_reset_none == UNCHANGED decoder

\* rns_tcp_session_reset.
session_reset == state' = "wait" /\ frame' = <<>> /\ held' = FALSE

\* The connection is over and the next one is accepted: on an error of
\* netconn_recv, or when the server is disabled, whatever is in hand then.
NextClient ==
  /\ \/ pc = "recv" /\ rcvq = <<>> /\ closed
     \/ pc = "top"
  /\ session < Len(Sessions)
  /\ session' = session + 1
  /\ wire' = HostStream(session + 1) /\ closed' = FALSE
  /\ rcvq' = <<>>
  /\ session_reset
  /\ nb' = <<>> /\ chunk' = 1 /\ ofs' = 0
  /\ pc' = "top"
  /\ out' = <<>>
  /\ UNCHANGED room

Task ==
  \/ FeedHeld \/ FeedByte \/ FeedThrottled \/ FeedEnd
  \/ LoopHeldNetbuf \/ LoopNotReady \/ LoopReady \/ Recv \/ RecvNothing

StreamNext == HostSend \/ HostClose \/ Ack \/ Task \/ NextClient

StreamSpec == StreamInit /\ [][StreamNext]_streamVars

\* While it is being fed, the decoder hands a frame on.
Served == (FeedHeld \/ FeedByte) /\ out' # out

\* The task never blocks for good, and ACKs or deadlines free every slot; a frame
\* tried again and again finds memory in the end, as slots give theirs back.
StreamFairSpec == StreamSpec /\ WF_streamVars(Task) /\ WF_streamVars(Ack) /\ SF_streamVars(Served)

-----------------------------------------------------------------------------
(* Properties. *)

StreamTypeOK ==
  /\ session \in 1 .. Len(Sessions) /\ closed \in BOOLEAN
  /\ wire \in Seq(Bytes) /\ rcvq \in Seq(Seq(Bytes)) /\ nb \in Seq(Seq(Bytes))
  /\ state \in {"wait", "read", "esc"} /\ held \in BOOLEAN
  /\ frame \in Seq(Bytes) /\ Len(frame) <= MaxFrame
  /\ chunk \in 1 .. Len(nb) + 1
  /\ chunk <= Len(nb) => ofs \in 0 .. Len(nb[chunk]) - 1
  /\ pc \in {"top", "recv", "feed"}
  /\ room \in 0 .. Window
  /\ out \in Seq(Seq(Bytes))

\* The payloads of a connection that fit the frame buffer and are not empty.
Fitting(p) == IF Len(p) \in 1 .. MaxFrame THEN <<p>> ELSE <<>>
Expected == FlattenSeq([k \in 1 .. Len(Sessions[session]) |-> Fitting(Sessions[session][k])])

\* The frames with the one the decoder holds.
OutAndHeld == IF held THEN Append(out, frame) ELSE out

\* No byte is fed twice and none is lost: what reaches the ACK layer are the
\* payloads the host framed, whole, in order and once each, wherever TCP cut the
\* stream, whatever was throttled, and whatever came before on another
\* connection.
WholeInOrder == IsPrefix(OutAndHeld, Expected)

\* Once every byte is consumed every frame is through, or is the one held.
NoneLost ==
  wire = <<>> /\ rcvq = <<>> /\ nb = <<>> => OutAndHeld = Expected

\* Backpressure ends: a netbuf in hand is consumed in the end.
NetbufFinishes == (nb # <<>>) ~> (nb = <<>>)

\* A frame that was throttled goes out once the ACK layer has room again.
HeldGoesOut == held ~> ~held
=============================================================================
