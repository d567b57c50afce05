------------------------------- MODULE Dhcpd -------------------------------
(***************************************************************************)
(* The DHCP server of the wired side: leases and decisions (dhcpd_core.c)  *)
(* and their start and stop (net_dhcpd.c), all in the tcpip thread. A      *)
(* message is one action: parsed, decided and answered at once.            *)
(*                                                                         *)
(* Addresses keep the conversions they go through. They have two octets    *)
(* here, network and host, where the code has three and one. lwIP keeps    *)
(* the octets in memory order, so the little-endian word of an address has *)
(* its network octet low; dhcpd_core.c writes a word to the wire high      *)
(* octet first.                                                            *)
(*                                                                         *)
(* What the clients hold is kept beside the server's state, to say what    *)
(* its answers amount to.                                                  *)
(***************************************************************************)
EXTENDS Integers

CONSTANTS
  Clients,    \* MAC addresses
  NSlots,     \* DHCPD_POOL_SIZE, which is DHCPD_LEASES
  LeaseTime,  \* lease_ms
  Base,       \* 2^8
  Net, Host,  \* the octets of the interface's address
  Tail,       \* DHCPD_POOL_TAIL
  MaxNow,     \* bound on the clock
  MaxStarts   \* bound on the starts of the server

ASSUME DhcpdAssumption ==
  /\ {NSlots, LeaseTime, Base, MaxNow, MaxStarts} \subseteq Nat \ {0}
  /\ {Net, Host, Tail} \subseteq 0 .. Base - 1
  /\ NSlots <= Base

Slots == 0 .. NSlots - 1
WordRange == Base * Base
Words == 0 .. WordRange - 1

\* The word lwIP keeps for the octets n.h, and the octets put32 writes for a word.
\* get32 reads them back the same way, so the word is what a client asks for.
Word(n, h) == n + h * Base
put32(w) == <<w \div Base, w % Base>>

\* The netmask keeps the network octet. A slot's address is counted from
\* pool_base in the word.
server_ip == Word(Net, Host)
pool_base == Word(Net, Tail)
pool_ip(k) == IF pool_base + k < WordRange THEN pool_base + k ELSE pool_base + k - WordRange

None == "none"
NoLease == [used |-> FALSE, mac |-> None, ip |-> 0, exp |-> 0]
NoHold == [ip |-> 0, until |-> 0, start |-> 0]
NoReply == [type |-> None, mac |-> None, ip |-> 0, req |-> 0]

VARIABLES
  running,   \* whether the socket is open
  leases,    \* g_dhcpd_state.leases
  now,       \* get_time_ms
  starts,    \* how often net_dhcpd_fill_state cleared the leases
  reply,     \* the last message and the answer to it: what was done, for whom, with
             \*   which address, the one asked for
  holds      \* the lease each client got last: address, end, start it is of

vars == <<running, leases, now, starts, reply, holds>>

Init ==
  /\ running = FALSE
  /\ leases = [k \in Slots |-> NoLease]
  /\ now = 0 /\ starts = 0
  /\ reply = NoReply
  /\ holds = [c \in Clients |-> NoHold]

-----------------------------------------------------------------------------
(* net_dhcpd.c. *)

\* net_dhcpd_start_cb with a static address and the server enabled: the leases
\* are cleared even when it is serving already. The socket may not open.
net_dhcpd_start ==
  /\ starts < MaxStarts
  /\ starts' = starts + 1
  /\ leases' = [k \in Slots |-> NoLease]
  /\ running' \in {running, TRUE}
  /\ reply' = NoReply
  /\ UNCHANGED <<now, holds>>

\* net_dhcpd_stop_cb, or a start that fill_state refuses.
net_dhcpd_stop ==
  /\ running
  /\ running' = FALSE
  /\ UNCHANGED <<leases, now, starts, reply, holds>>

-----------------------------------------------------------------------------
(* dhcpd_core.c. *)

Lowest(S) == CHOOSE k \in S : \A j \in S : k <= j

\* lease_by_mac: the first of these, if there is one.
OfMac(c) == {k \in Slots : leases[k].used /\ leases[k].mac = c}

\* Mutant: a lease is over before it ends.
ExpiredEarly(k) == leases[k].exp <= now + 1

Expired(k) == leases[k].exp <= now

\* lease_free_pick: the first of these. A free slot goes before an expired one.
Free == {k \in Slots : ~leases[k].used}
FreePick == IF Free # {} THEN Free ELSE {k \in Slots : Expired(k)}

Leased(c, ip) == [used |-> TRUE, mac |-> c, ip |-> ip, exp |-> now + LeaseTime]

\* The answer to a message of c that asks for req (0 for nothing).
Answer(type, c, ip, req) == reply' = [type |-> type, mac |-> c, ip |-> ip, req |-> req]

\* What the client makes of an ACK or a NAK, if it reaches it.
Acked(c, ip) ==
  holds' \in {holds, [holds EXCEPT ![c] = [ip |-> ip, until |-> now + LeaseTime, start |-> starts]]}
Refused(c) == holds' \in {holds, [holds EXCEPT ![c] = NoHold]}

\* DHCPD_DISCOVER of a client with a lease.
DiscoverKnown(c) ==
  /\ OfMac(c) # {} /\ ~Expired(Lowest(OfMac(c)))
  /\ Answer("offer", c, leases[Lowest(OfMac(c))].ip, 0)
  /\ UNCHANGED <<leases, holds>>

\* ... of one without, or whose lease is over: a slot with its natural address.
\* With no slot to give the server stays silent.
DiscoverNew(c) ==
  /\ OfMac(c) # {} => Expired(Lowest(OfMac(c)))
  /\ FreePick # {}
  /\ LET k == Lowest(FreePick)
     IN  /\ leases' = [leases EXCEPT ![k] = Leased(c, pool_ip(k))]
         /\ Answer("offer", c, pool_ip(k), 0)
  /\ UNCHANGED holds

\* DHCPD_REQUEST of a client with a lease: the address must be the lease's.
RequestKnown(c, req) ==
  /\ OfMac(c) # {}
  /\ LET k == Lowest(OfMac(c))
     IN  IF req \in {0, leases[k].ip}
           THEN /\ leases' = [leases EXCEPT ![k].exp = now + LeaseTime]
                /\ Answer("ack", c, leases[k].ip, req)
                /\ Acked(c, leases[k].ip)
           ELSE /\ Answer("nak", c, 0, req)
                /\ Refused(c)
                /\ UNCHANGED leases

InPool(req) ==
  /\ req # 0 /\ req >= pool_base /\ req < pool_ip(NSlots)
  /\ req % Base = server_ip % Base

\* Mutant: an address is free whoever has it.
OpenSlotsAll(req) == {k \in Slots : pool_ip(k) = req}

\* Mutant: any slot will do.
OpenSlotsAny(req) == {k \in Slots : ~leases[k].used \/ Expired(k)}

\* The slot of this address, unless its lease is someone's and not over.
OpenSlots(req) == {k \in Slots : pool_ip(k) = req /\ (~leases[k].used \/ Expired(k))}

\* ... of a client without one: it may commit to a free address of the pool.
RequestNew(c, req) ==
  /\ OfMac(c) = {}
  /\ IF InPool(req) /\ OpenSlots(req) # {}
       THEN /\ leases' = [leases EXCEPT ![Lowest(OpenSlots(req))] = Leased(c, req)]
            /\ Answer("ack", c, req, req)
            /\ Acked(c, req)
       ELSE /\ Answer("nak", c, 0, req)
            /\ Refused(c)
            /\ UNCHANGED leases

\* DHCPD_RELEASE and DHCPD_DECLINE give the lease back without an answer.
DropLease(c) ==
  leases' = IF OfMac(c) = {} THEN leases
            ELSE [leases EXCEPT ![Lowest(OfMac(c))].used = FALSE]

GiveBack(type, c) ==
  /\ DropLease(c)
  /\ holds' = [holds EXCEPT ![c] = NoHold]
  /\ Answer(type, c, 0, 0)

\* The addresses clients ask for: none, the pool's, and others.
Asked == {0, server_ip} \cup {pool_ip(k) : k \in Slots}

\* net_dhcpd_recv with dhcpd_decide.
net_dhcpd_recv(c) ==
  /\ running
  /\ \/ DiscoverKnown(c) \/ DiscoverNew(c)
     \/ \E req \in Asked : RequestKnown(c, req) \/ RequestNew(c, req)
     \/ GiveBack("release", c) \/ GiveBack("decline", c)
  /\ UNCHANGED <<running, now, starts>>

Tick ==
  /\ now < MaxNow
  /\ now' = now + 1
  /\ UNCHANGED <<running, leases, starts, reply, holds>>

Next ==
  \/ net_dhcpd_start \/ net_dhcpd_stop
  \/ \E c \in Clients : net_dhcpd_recv(c)
  \/ Tick

Spec == Init /\ [][Next]_vars

-----------------------------------------------------------------------------
(* Properties. *)

Leases == [used : BOOLEAN, mac : Clients \cup {None}, ip : Words, exp : Nat]
Holds == [ip : Words, until : Nat, start : Nat]

TypeOK ==
  /\ running \in BOOLEAN
  /\ leases \in [Slots -> Leases]
  /\ now \in 0 .. MaxNow /\ starts \in 0 .. MaxStarts
  /\ holds \in [Clients -> Holds]
  /\ reply.type \in {None, "offer", "ack", "nak", "release", "decline"} /\ reply.ip \in Words
  /\ \A k \in Slots : leases[k].used => leases[k].ip = pool_ip(k)

Live(c) == holds[c].until > now

\* An address that is live-owned by someone is never handed out twice between
\* two starts of the server, whatever expires, is released or is asked for.
UniqueSinceStart ==
  \A c, d \in Clients :
    Live(c) /\ Live(d) /\ holds[c].ip = holds[d].ip /\ holds[c].start = holds[d].start
      => c = d

\* A client that holds an address of this start can neither be offered another
\* one nor be refused it.
KeepsAddress ==
  [][\A c \in Clients :
       Live(c) /\ holds[c].start = starts /\ starts' = starts
       /\ reply' # reply /\ reply'.mac = c
       /\ reply'.type \in {"offer", "ack", "nak"} /\ reply'.req \in {0, holds[c].ip}
         => reply'.type # "nak" /\ reply'.ip = holds[c].ip]_vars

\* The standard flow, discover, offer, request, ack: the address just offered is
\* granted to the client that asks for it next.
OfferHonoured ==
  [][reply.type = "offer" /\ reply' # reply /\ reply'.mac = reply.mac /\ reply'.req = reply.ip
       => reply'.type = "ack"]_vars

\* The addresses handed out are Tail and the ones after it on the subnet of the
\* interface.
OffersOnSubnet ==
  reply.type \in {"offer", "ack"} =>
    put32(reply.ip) \in {<<Net, Tail + k>> : k \in Slots}
=============================================================================
