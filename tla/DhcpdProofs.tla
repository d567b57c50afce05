---------------------------- MODULE DhcpdProofs ----------------------------
(***************************************************************************)
(* Proofs about the DHCP server, for any number of slots and clients and   *)
(* any lease time. The inductive invariant adds to the types that every    *)
(* live hold of this start is backed by the first slot of its client.      *)
(***************************************************************************)
EXTENDS Dhcpd, TLAPS, WellFoundedInduction

\* The first slot of a set is one of it.
LEMMA LowestIsFirst ==
  ASSUME NEW S \in SUBSET Slots, S # {}
  PROVE  Lowest(S) \in S /\ \A j \in S : Lowest(S) <= j
<1>1. S \subseteq Nat
  BY DhcpdAssumption DEF Slots
<1>2. PICK k \in S : \A j \in S : ~ (<<j, k>> \in OpToRel(<, Nat))
  BY <1>1, NatLessThanWellFounded, WFMin
<1>3. ASSUME NEW j \in S PROVE k <= j
  <2>1. j \in Nat /\ k \in Nat
    BY <1>1
  <2>2. ASSUME j < k PROVE <<j, k>> \in OpToRel(<, Nat)
    BY <2>1, <2>2, Zenon DEF OpToRel
  <2>3. ~(j < k)
    BY <1>2, <2>2
  <2> QED
    BY <2>1, <2>3
<1> QED
  BY <1>3 DEF Lowest

\* The addresses of the slots are words, and differ.
LEMMA PoolIpDistinct ==
  /\ 0 \in Words
  /\ \A k \in Slots : pool_ip(k) \in Words
  /\ \A j, k \in Slots : pool_ip(j) = pool_ip(k) => j = k
<1>1. Base \in Nat /\ 1 <= Base /\ NSlots \in Nat /\ NSlots <= Base
  BY DhcpdAssumption
<1>2. Net \in 0 .. Base - 1 /\ Tail \in 0 .. Base - 1
  BY DhcpdAssumption
<1>3. WordRange \in Nat /\ Base <= WordRange
  BY <1>1 DEF WordRange
<1>4. Tail * Base \in Nat /\ Tail * Base + Base <= WordRange
  <2>1. Tail * Base + Base = (Tail + 1) * Base
    BY <1>1, <1>2
  <2>2. Tail + 1 <= Base /\ Tail + 1 \in Nat
    BY <1>1, <1>2
  <2>3. (Tail + 1) * Base <= Base * Base
    BY <1>1, <2>2
  <2>4. Tail * Base \in Nat
    BY <1>1, <1>2
  <2> QED
    BY <2>1, <2>3, <2>4 DEF WordRange
<1>5. pool_base \in 0 .. WordRange - 1
  BY <1>1, <1>2, <1>3, <1>4 DEF pool_base, Word
<1>6. \A k \in Slots : k \in 0 .. WordRange - 1
  BY <1>1, <1>3 DEF Slots
<1> QED
  BY <1>3, <1>5, <1>6 DEF pool_ip, Words

-----------------------------------------------------------------------------
(* The inductive invariant. *)

\* k is the slot lease_by_mac finds for c.
First(c, k) ==
  /\ leases[k].used /\ leases[k].mac = c
  /\ \A j \in Slots : leases[j].used /\ leases[j].mac = c => k <= j

\* A live hold of this start is backed by the first slot of its client.
AllBacked ==
  \A c \in Clients : Live(c) /\ holds[c].start = starts =>
    \E k \in Slots :
      First(c, k) /\ holds[c].ip = leases[k].ip /\ holds[c].until <= leases[k].exp

\* Holds were granted in the past.
HoldsPast ==
  \A c \in Clients : holds[c].start <= starts /\ holds[c].until <= now + LeaseTime

IInv == TypeOK /\ HoldsPast /\ AllBacked /\ UniqueSinceStart

\* lease_by_mac finds the first slot of a client if it has one.
LEMMA LowestIsLease ==
  ASSUME NEW c \in Clients, OfMac(c) # {}
  PROVE  Lowest(OfMac(c)) \in Slots /\ First(c, Lowest(OfMac(c)))
<1>1. OfMac(c) \in SUBSET Slots
  BY DEF OfMac
<1> DEFINE l == Lowest(OfMac(c))
<1>2. l \in OfMac(c) /\ \A j \in OfMac(c) : l <= j
  BY <1>1, LowestIsFirst
<1> HIDE DEF l
<1>3. l \in Slots /\ First(c, l)
  BY <1>2 DEF OfMac, First
<1> QED
  BY <1>3 DEF l

\* There is only one first slot.
LEMMA FirstUnique ==
  ASSUME NEW c \in Clients, NEW j \in Slots, NEW k \in Slots, First(c, j), First(c, k)
  PROVE  j = k
  BY DhcpdAssumption DEF First, Slots

LEMMA FirstIsLowest ==
  ASSUME NEW c \in Clients, NEW k \in Slots, First(c, k)
  PROVE  OfMac(c) # {} /\ Lowest(OfMac(c)) = k
<1>1. OfMac(c) # {}
  BY DEF First, OfMac
<1> QED
  BY <1>1, LowestIsLease, FirstUnique

\* What a step does to the holds: each one stays, ends, or is of this start.
HoldsStep ==
  \A c \in Clients :
    holds'[c] = holds[c] \/ holds'[c].until = 0 \/ holds'[c].start = starts'

\* Uniqueness is kept by every step that keeps the holds backed: holds of this
\* start are told apart by their slots, older ones only disappear.
LEMMA UniqueStep ==
  ASSUME IInv, TypeOK', AllBacked', HoldsStep, now <= now', starts <= starts'
  PROVE  UniqueSinceStart'
<1> SUFFICES ASSUME NEW c \in Clients, NEW d \in Clients, Live(c)', Live(d)',
                    holds'[c].ip = holds'[d].ip, holds'[c].start = holds'[d].start
             PROVE  c = d
  BY DEF UniqueSinceStart
<1>1. CASE holds'[c].start = starts'
  <2>1. PICK j \in Slots : First(c, j)' /\ holds'[c].ip = leases'[j].ip
    BY <1>1 DEF AllBacked
  <2>2. PICK k \in Slots : First(d, k)' /\ holds'[d].ip = leases'[k].ip
    BY <1>1 DEF AllBacked
  <2>3. leases'[j].used /\ leases'[j].mac = c /\ leases'[k].used /\ leases'[k].mac = d
    BY <2>1, <2>2 DEF First
  <2>4. leases'[j].ip = pool_ip(j) /\ leases'[k].ip = pool_ip(k)
    BY <2>3 DEF TypeOK
  <2> QED
    BY <2>1, <2>2, <2>3, <2>4, PoolIpDistinct
<1>2. CASE holds'[c].start # starts'
  <2>1. now \in Nat /\ now' \in Nat
    BY DhcpdAssumption DEF IInv, TypeOK
  <2>2. holds'[c] = holds[c] /\ holds'[d] = holds[d]
    BY <1>2, <2>1 DEF HoldsStep, Live
  <2>3. holds[c].until \in Nat /\ holds[d].until \in Nat
    BY DEF IInv, TypeOK, Holds
  <2>4. Live(c) /\ Live(d)
    BY <2>1, <2>2, <2>3 DEF Live
  <2> QED
    BY <2>2, <2>4 DEF IInv, UniqueSinceStart
<1> QED
  BY <1>1, <1>2

-----------------------------------------------------------------------------
(* One lemma per action. *)

Kept == TypeOK' /\ HoldsPast' /\ AllBacked' /\ HoldsStep

LEMMA StartKeeps ==
  ASSUME IInv, net_dhcpd_start
  PROVE  Kept
<1> USE DEF net_dhcpd_start
<1>1. TypeOK'
  <2>1. running' \in BOOLEAN
    BY Zenon DEF IInv, TypeOK
  <2>2. leases' \in [Slots -> Leases]
    BY PoolIpDistinct DEF Leases, NoLease
  <2>3. now' \in 0 .. MaxNow /\ starts' \in 0 .. MaxStarts /\ holds' \in [Clients -> Holds]
    BY DhcpdAssumption DEF IInv, TypeOK
  <2>4. reply'.type = None /\ reply'.ip \in Words
    BY PoolIpDistinct DEF NoReply
  <2>5. \A k \in Slots : ~leases'[k].used
    BY DEF NoLease
  <2> QED
    BY <2>1, <2>2, <2>3, <2>4, <2>5 DEF TypeOK
<1>2. starts \in Nat /\ \A c \in Clients : holds[c].start \in Nat /\ holds[c].start <= starts
  BY DhcpdAssumption DEF IInv, TypeOK, HoldsPast, Holds
<1>3. HoldsPast' /\ HoldsStep
  BY <1>2 DEF IInv, HoldsPast, HoldsStep
<1>4. AllBacked'
  BY <1>2 DEF AllBacked
<1> QED
  BY <1>1, <1>3, <1>4 DEF Kept

LEMMA TickKeeps ==
  ASSUME IInv, Tick
  PROVE  Kept
<1> USE DEF Tick
<1>1. TypeOK'
  BY DhcpdAssumption DEF IInv, TypeOK
<1>2. HoldsPast' /\ HoldsStep
  BY DhcpdAssumption DEF IInv, HoldsPast, HoldsStep, TypeOK, Holds
<1>3. ASSUME NEW c \in Clients, Live(c)' PROVE Live(c)
  BY <1>3, DhcpdAssumption DEF IInv, TypeOK, Holds, Live
<1>4. AllBacked'
  BY <1>3 DEF IInv, AllBacked, First
<1> QED
  BY <1>1, <1>2, <1>4 DEF Kept

LEMMA StopKeeps ==
  ASSUME IInv, net_dhcpd_stop
  PROVE  Kept
  BY DEF IInv, net_dhcpd_stop, Kept, TypeOK, HoldsPast, AllBacked, HoldsStep, First, Live

\* A slot is given to a client that has no live hold: no other hold is backed by
\* it, since it was free or expired.
LEMMA LeaseKeeps ==
  ASSUME IInv, NEW c \in Clients, NEW k \in Slots, ~leases[k].used \/ Expired(k),
         leases' = [leases EXCEPT ![k] = Leased(c, pool_ip(k))],
         UNCHANGED <<now, starts>>,
         NEW d \in Clients, d # c, Live(d), holds[d].start = starts
  PROVE  \E j \in Slots : First(d, j)' /\ holds[d].ip = leases'[j].ip
                           /\ holds[d].until <= leases'[j].exp
<1>1. PICK j \in Slots : First(d, j) /\ holds[d].ip = leases[j].ip
                          /\ holds[d].until <= leases[j].exp
  BY DEF IInv, AllBacked
<1>2. leases[j].used /\ leases[j].exp \in Nat /\ holds[d].until \in Nat /\ now \in Nat
  BY <1>1, DhcpdAssumption DEF IInv, TypeOK, Leases, Holds, First
<1>3. j # k
  BY <1>1, <1>2 DEF Expired, Live
<1>4. leases'[j] = leases[j] /\ leases'[k].mac = c
  BY <1>3 DEF IInv, TypeOK, Leased
<1>5. First(d, j)'
  BY <1>1, <1>4 DEF First, IInv, TypeOK, Leased
<1> QED
  BY <1>1, <1>4, <1>5

\* A refusal leaves the leases, and at most ends a hold.
LEMMA RefusedKeeps ==
  ASSUME IInv, NEW c \in Clients, Refused(c), reply'.type = "nak", reply'.ip = 0,
         UNCHANGED <<leases, running, now, starts>>
  PROVE  Kept
<1>1. /\ holds' \in [Clients -> Holds]
      /\ \A d \in Clients : holds'[d] = holds[d] \/ holds'[d] = NoHold
  BY PoolIpDistinct DEF Refused, IInv, TypeOK, Holds, NoHold
<1>2. TypeOK'
  BY <1>1, PoolIpDistinct DEF IInv, TypeOK
<1>3. HoldsPast' /\ HoldsStep
  BY <1>1, DhcpdAssumption DEF IInv, HoldsPast, HoldsStep, NoHold, TypeOK
<1>4. ASSUME NEW d \in Clients, Live(d)' PROVE Live(d) /\ holds'[d] = holds[d]
  BY <1>1, <1>4, DhcpdAssumption DEF Live, NoHold, IInv, TypeOK
<1>5. AllBacked'
  BY <1>4 DEF IInv, AllBacked, First
<1> QED
  BY <1>2, <1>3, <1>5 DEF Kept

\* DISCOVER of a client without a lease, or with one that is over. It has no live
\* hold: that would be backed by its first slot.
LEMMA DiscoverNewKeeps ==
  ASSUME IInv, NEW c \in Clients, DiscoverNew(c), UNCHANGED <<running, now, starts>>
  PROVE  Kept
<1> DEFINE k == Lowest(FreePick)
<1>1. k \in Slots /\ (~leases[k].used \/ Expired(k))
  <2>1. FreePick \in SUBSET Slots /\ FreePick # {}
    BY DEF DiscoverNew, FreePick, Free
  <2>2. k \in FreePick
    BY <2>1, LowestIsFirst
  <2> QED
    BY <2>2 DEF FreePick, Free
<1>2. /\ leases' = [leases EXCEPT ![k] = Leased(c, pool_ip(k))]
      /\ reply' = [type |-> "offer", mac |-> c, ip |-> pool_ip(k), req |-> 0]
      /\ holds' = holds
  BY DEF DiscoverNew, Answer
<1> HIDE DEF k
<1>3. TypeOK'
  BY <1>1, <1>2, PoolIpDistinct, DhcpdAssumption DEF IInv, TypeOK, Leases, Leased
<1>4. HoldsPast' /\ HoldsStep
  BY <1>2 DEF IInv, HoldsPast, HoldsStep
<1>5. ~(Live(c) /\ holds[c].start = starts)
  <2> SUFFICES ASSUME Live(c), holds[c].start = starts PROVE FALSE
    OBVIOUS
  <2>1. PICK j \in Slots : First(c, j) /\ holds[c].until <= leases[j].exp
    BY DEF IInv, AllBacked
  <2>2. Expired(j)
    BY <2>1, FirstIsLowest DEF DiscoverNew
  <2> QED
    BY <2>1, <2>2, DhcpdAssumption DEF Expired, Live, IInv, TypeOK, Leases, Holds
<1>6. AllBacked'
  <2> SUFFICES ASSUME NEW d \in Clients, Live(d)', holds'[d].start = starts'
               PROVE  \E j \in Slots : First(d, j)' /\ holds'[d].ip = leases'[j].ip
                                        /\ holds'[d].until <= leases'[j].exp
    BY DEF AllBacked
  <2>1. Live(d) /\ holds[d].start = starts
    BY <1>2 DEF Live
  <2> QED
    BY <1>1, <1>2, <1>5, <2>1, LeaseKeeps
<1> QED
  BY <1>3, <1>4, <1>6 DEF Kept

\* REQUEST of a client without a lease.
LEMMA RequestNewKeeps ==
  ASSUME IInv, NEW c \in Clients, NEW req \in Words, RequestNew(c, req),
         UNCHANGED <<running, now, starts>>
  PROVE  Kept
<1>1. CASE InPool(req) /\ OpenSlots(req) # {}
  <2>1. PICK k \in Slots : /\ k = Lowest(OpenSlots(req)) /\ pool_ip(k) = req
                           /\ ~leases[k].used \/ Expired(k)
    <3>1. OpenSlots(req) \in SUBSET Slots
      BY DEF OpenSlots
    <3>2. Lowest(OpenSlots(req)) \in OpenSlots(req)
      BY <1>1, <3>1, LowestIsFirst
    <3> QED
      BY <3>2 DEF OpenSlots
  <2>2. /\ leases' = [leases EXCEPT ![k] = Leased(c, req)]
        /\ reply' = [type |-> "ack", mac |-> c, ip |-> req, req |-> req]
        /\ Acked(c, req)
    BY <1>1, <2>1 DEF RequestNew, Answer
  <2>3. /\ holds' \in [Clients -> Holds]
        /\ \A d \in Clients \ {c} : holds'[d] = holds[d]
        /\ \/ holds' = holds
           \/ holds'[c] = [ip |-> req, until |-> now + LeaseTime, start |-> starts]
    BY <2>2, DhcpdAssumption DEF Acked, IInv, TypeOK, Holds
  <2>4. TypeOK'
    BY <2>1, <2>2, <2>3, DhcpdAssumption DEF IInv, TypeOK, Leases, Leased
  <2>5. HoldsPast' /\ HoldsStep
    BY <2>3, DhcpdAssumption DEF IInv, HoldsPast, HoldsStep, TypeOK
  <2>6. AllBacked'
    <3> SUFFICES ASSUME NEW d \in Clients, Live(d)', holds'[d].start = starts'
                 PROVE  \E j \in Slots : First(d, j)' /\ holds'[d].ip = leases'[j].ip
                                          /\ holds'[d].until <= leases'[j].exp
      BY DEF AllBacked
    <3>1. CASE d # c
      <4>1. Live(d) /\ holds[d].start = starts /\ holds'[d] = holds[d]
        BY <2>3, <3>1 DEF Live
      <4> QED
        BY <2>1, <2>2, <3>1, <4>1, LeaseKeeps
    <3>2. CASE d = c
      <4>1. OfMac(c) = {}
        BY DEF RequestNew
      <4>2. holds'[c] = [ip |-> req, until |-> now + LeaseTime, start |-> starts]
        <5> SUFFICES ASSUME holds' = holds PROVE FALSE
          BY <2>3
        <5>1. Live(c) /\ holds[c].start = starts
          BY <3>2 DEF Live
        <5>2. PICK j \in Slots : First(c, j)
          BY <5>1 DEF IInv, AllBacked
        <5> QED
          BY <4>1, <5>2, FirstIsLowest
      <4>3. leases'[k] = Leased(c, req) /\ \A j \in Slots \ {k} : leases'[j] = leases[j]
        BY <2>1, <2>2 DEF IInv, TypeOK
      <4>4. First(c, k)'
        <5>1. leases'[k].used /\ leases'[k].mac = c
          BY <4>3 DEF Leased
        <5>2. ASSUME NEW j \in Slots, leases'[j].used, leases'[j].mac = c PROVE k <= j
          <6>1. j = k
            BY <4>1, <4>3, <5>2 DEF OfMac
          <6> QED
            BY <2>1, <6>1, DhcpdAssumption DEF Slots
        <5> QED
          BY <5>1, <5>2 DEF First
      <4>5. leases'[k].ip = req /\ leases'[k].exp = now + LeaseTime
        BY <4>3 DEF Leased
      <4>6. holds'[c].ip = leases'[k].ip /\ holds'[c].until <= leases'[k].exp
        BY <4>2, <4>5, DhcpdAssumption DEF IInv, TypeOK
      <4> QED
        BY <2>1, <3>2, <4>4, <4>6
    <3> QED
      BY <3>1, <3>2
  <2> QED
    BY <2>4, <2>5, <2>6 DEF Kept
<1>2. CASE ~(InPool(req) /\ OpenSlots(req) # {})
  <2>1. leases' = leases /\ reply'.type = "nak" /\ reply'.ip = 0 /\ Refused(c)
    BY <1>2 DEF RequestNew, Answer
  <2> QED
    BY <2>1, RefusedKeeps
<1> QED
  BY <1>1, <1>2

\* REQUEST of a client with a lease: the lease is renewed.
LEMMA RequestKnownKeeps ==
  ASSUME IInv, NEW c \in Clients, NEW req \in Words, RequestKnown(c, req),
         UNCHANGED <<running, now, starts>>
  PROVE  Kept
<1>1. PICK k \in Slots : k = Lowest(OfMac(c)) /\ First(c, k)
  BY LowestIsLease DEF RequestKnown
<1>2. CASE req \in {0, leases[k].ip}
  <2>1. /\ leases' = [leases EXCEPT ![k].exp = now + LeaseTime]
        /\ reply' = [type |-> "ack", mac |-> c, ip |-> leases[k].ip, req |-> req]
        /\ Acked(c, leases[k].ip)
    BY <1>1, <1>2 DEF RequestKnown, Answer
  <2>2. /\ holds' \in [Clients -> Holds]
        /\ \A d \in Clients \ {c} : holds'[d] = holds[d]
        /\ \/ holds' = holds
           \/ holds'[c] = [ip |-> leases[k].ip, until |-> now + LeaseTime, start |-> starts]
    <3>1. leases[k].ip \in Words /\ now + LeaseTime \in Nat /\ starts \in Nat
      BY DhcpdAssumption DEF IInv, TypeOK, Leases
    <3>2. [ip |-> leases[k].ip, until |-> now + LeaseTime, start |-> starts] \in Holds
      BY <3>1 DEF Holds
    <3> QED
      BY <2>1, <3>2 DEF Acked, IInv, TypeOK
  <2>3. /\ leases' \in [Slots -> Leases]
        /\ \A j \in Slots : /\ leases'[j].used = leases[j].used
                             /\ leases'[j].mac = leases[j].mac
                             /\ leases'[j].ip = leases[j].ip
        /\ leases'[k].exp = now + LeaseTime
        /\ \A j \in Slots \ {k} : leases'[j].exp = leases[j].exp
    BY <1>1, <2>1, DhcpdAssumption DEF IInv, TypeOK, Leases
  <2>4. TypeOK'
    BY <1>1, <2>1, <2>2, <2>3 DEF IInv, TypeOK, Leases
  <2>5. HoldsPast' /\ HoldsStep
    BY <2>2, DhcpdAssumption DEF IInv, HoldsPast, HoldsStep, TypeOK
  <2>6. ASSUME NEW d \in Clients, NEW j \in Slots, First(d, j) PROVE First(d, j)'
    BY <2>3, <2>6 DEF First
  <2>7. AllBacked'
    <3> SUFFICES ASSUME NEW d \in Clients, Live(d)', holds'[d].start = starts'
                 PROVE  \E j \in Slots : First(d, j)' /\ holds'[d].ip = leases'[j].ip
                                          /\ holds'[d].until <= leases'[j].exp
      BY DEF AllBacked
    <3>1. CASE holds'[d] = holds[d]
      <4>1. Live(d) /\ holds[d].start = starts
        BY <3>1 DEF Live
      <4>2. PICK j \in Slots : First(d, j) /\ holds[d].ip = leases[j].ip
                               /\ holds[d].until <= leases[j].exp
        BY <4>1 DEF IInv, AllBacked
      <4>3. CASE j # k
        BY <2>3, <2>6, <3>1, <4>2, <4>3
      <4>4. CASE j = k
        <5>1. d = c
          BY <1>1, <4>2, <4>4 DEF First
        <5>2. holds[d].until <= now + LeaseTime
          BY DEF IInv, HoldsPast
        <5> QED
          BY <2>3, <2>6, <3>1, <4>2, <4>4, <5>2
      <4> QED
        BY <4>3, <4>4
    <3>2. CASE holds'[d] # holds[d]
      <4>1. d = c /\ holds'[c] = [ip |-> leases[k].ip, until |-> now + LeaseTime, start |-> starts]
        BY <2>2, <3>2
      <4>2. holds'[c].ip = leases'[k].ip /\ holds'[c].until <= leases'[k].exp
        BY <1>1, <2>3, <4>1, DhcpdAssumption DEF IInv, TypeOK
      <4> QED
        BY <1>1, <2>6, <4>1, <4>2
    <3> QED
      BY <3>1, <3>2
  <2> QED
    BY <2>4, <2>5, <2>7 DEF Kept
<1>3. CASE req \notin {0, leases[k].ip}
  <2>1. leases' = leases /\ reply'.type = "nak" /\ reply'.ip = 0 /\ Refused(c)
    BY <1>1, <1>3 DEF RequestKnown, Answer
  <2> QED
    BY <2>1, RefusedKeeps
<1> QED
  BY <1>2, <1>3

LEMMA DiscoverKnownKeeps ==
  ASSUME IInv, NEW c \in Clients, DiscoverKnown(c), UNCHANGED <<running, now, starts>>
  PROVE  Kept
<1> DEFINE k == Lowest(OfMac(c))
<1>1. k \in Slots
  BY LowestIsLease DEF DiscoverKnown
<1>2. /\ reply'.type = "offer" /\ reply'.ip = leases[k].ip
      /\ leases' = leases /\ holds' = holds
  BY DEF DiscoverKnown, Answer
<1> HIDE DEF k
<1>3. TypeOK'
  BY <1>1, <1>2 DEF IInv, TypeOK, Leases
<1>4. HoldsPast' /\ HoldsStep /\ AllBacked'
  BY <1>2 DEF IInv, HoldsPast, HoldsStep, AllBacked, First, Live
<1> QED
  BY <1>3, <1>4 DEF Kept

\* A lease given back is the first one of a client that holds nothing any more.
LEMMA GiveBackKeeps ==
  ASSUME IInv, NEW c \in Clients, NEW type \in {"release", "decline"}, GiveBack(type, c),
         UNCHANGED <<running, now, starts>>
  PROVE  Kept
<1>1. /\ holds' = [holds EXCEPT ![c] = NoHold]
      /\ reply'.type = type
      /\ reply'.ip = 0
  BY DEF GiveBack, Answer
<1>2. /\ leases' \in [Slots -> Leases]
      /\ reply'.ip \in Words
      /\ \A j \in Slots : leases'[j] = leases[j] \/ ~leases'[j].used
      /\ \A j \in Slots : leases'[j] = leases[j] \/ leases[j].mac = c
  <2>0. 0 \in Words
    BY PoolIpDistinct
  <2>1. CASE OfMac(c) = {}
    BY <1>1, <2>0, <2>1 DEF GiveBack, DropLease, IInv, TypeOK
  <2>2. CASE OfMac(c) # {}
    <3>1. PICK k \in Slots : k = Lowest(OfMac(c)) /\ leases[k].mac = c
      BY <2>2, LowestIsLease DEF First
    <3>2. leases' = [leases EXCEPT ![k].used = FALSE]
      BY <2>2, <3>1 DEF GiveBack, DropLease
    <3>3. leases' \in [Slots -> Leases] /\ reply'.ip \in Words
      BY <1>1, <2>0, <3>2 DEF IInv, TypeOK, Leases
    <3>4. ~leases'[k].used /\ \A j \in Slots \ {k} : leases'[j] = leases[j]
      BY <3>2 DEF IInv, TypeOK
    <3> QED
      BY <3>1, <3>3, <3>4
  <2> QED
    BY <2>1, <2>2
<1>3. TypeOK'
  <2>1. holds' \in [Clients -> Holds]
    BY <1>1, PoolIpDistinct DEF IInv, TypeOK, Holds, NoHold
  <2>2. ASSUME NEW j \in Slots, leases'[j].used PROVE leases'[j].ip = pool_ip(j)
    <3>1. leases'[j] = leases[j]
      BY <1>2, <2>2
    <3> QED
      BY <2>2, <3>1 DEF IInv, TypeOK
  <2>3. running' \in BOOLEAN /\ now' \in 0 .. MaxNow /\ starts' \in 0 .. MaxStarts
    BY DEF IInv, TypeOK
  <2> QED
    BY <1>1, <1>2, <2>1, <2>2, <2>3 DEF TypeOK
<1>4. HoldsPast' /\ HoldsStep
  BY <1>1, DhcpdAssumption DEF IInv, HoldsPast, HoldsStep, NoHold, TypeOK
<1>5. AllBacked'
  <2> SUFFICES ASSUME NEW d \in Clients, Live(d)', holds'[d].start = starts'
               PROVE  \E j \in Slots : First(d, j)' /\ holds'[d].ip = leases'[j].ip
                                        /\ holds'[d].until <= leases'[j].exp
    BY DEF AllBacked
  <2>1. d # c
    BY <1>1, DhcpdAssumption DEF Live, NoHold, IInv, TypeOK
  <2>2. Live(d) /\ holds[d].start = starts /\ holds'[d] = holds[d]
    BY <1>1, <2>1 DEF Live, IInv, TypeOK
  <2>3. PICK j \in Slots : First(d, j) /\ holds[d].ip = leases[j].ip
                           /\ holds[d].until <= leases[j].exp
    BY <2>2 DEF IInv, AllBacked
  <2>4. leases'[j] = leases[j]
    BY <1>2, <2>1, <2>3 DEF First
  <2>5. First(d, j)'
    <3>1. leases'[j].used /\ leases'[j].mac = d
      BY <2>3, <2>4 DEF First
    <3>2. ASSUME NEW i \in Slots, leases'[i].used, leases'[i].mac = d PROVE j <= i
      <4>1. leases'[i] = leases[i]
        BY <1>2, <3>2
      <4> QED
        BY <2>3, <3>2, <4>1 DEF First
    <3> QED
      BY <3>1, <3>2 DEF First
  <2> QED
    BY <2>2, <2>3, <2>4, <2>5
<1> QED
  BY <1>3, <1>4, <1>5 DEF Kept

-----------------------------------------------------------------------------
(* The theorems. *)

LEMMA InitIInv == Init => IInv
<1> SUFFICES ASSUME Init PROVE IInv
  OBVIOUS
<1>1. TypeOK
  <2>1. leases \in [Slots -> Leases] /\ \A k \in Slots : ~leases[k].used
    BY PoolIpDistinct DEF Init, Leases, NoLease
  <2>2. holds \in [Clients -> Holds] /\ reply.type = None /\ reply.ip \in Words
    BY PoolIpDistinct DEF Init, Holds, NoHold, NoReply
  <2>3. now \in 0 .. MaxNow /\ starts \in 0 .. MaxStarts
    BY DhcpdAssumption DEF Init
  <2> QED
    BY <2>1, <2>2, <2>3 DEF Init, TypeOK
<1>2. \A c \in Clients : holds[c] = NoHold /\ now = 0 /\ starts = 0
  BY DEF Init
<1>3. HoldsPast /\ AllBacked /\ UniqueSinceStart
  BY <1>2, DhcpdAssumption DEF HoldsPast, AllBacked, UniqueSinceStart, Live, NoHold
<1> QED
  BY <1>1, <1>3 DEF IInv

\* The addresses clients ask for are words.
LEMMA AskedWords == Asked \subseteq Words
<1>1. server_ip \in Words
  <2>1. Base \in Nat /\ 1 <= Base /\ Net \in 0 .. Base - 1 /\ Host \in 0 .. Base - 1
    BY DhcpdAssumption
  <2>2. Host * Base + Base = (Host + 1) * Base /\ Host * Base \in Nat
    BY <2>1
  <2>3. (Host + 1) * Base <= Base * Base
    BY <2>1
  <2> QED
    BY <2>1, <2>2, <2>3 DEF server_ip, Word, Words, WordRange
<1> QED
  BY <1>1, PoolIpDistinct DEF Asked

LEMMA NextIInv == IInv /\ [Next]_vars => IInv'
<1> SUFFICES ASSUME IInv, [Next]_vars PROVE IInv'
  OBVIOUS
<1>1. now \in Nat /\ starts \in Nat
  BY DhcpdAssumption DEF IInv, TypeOK
<1>2. ASSUME Kept, now <= now', starts <= starts' PROVE IInv'
  BY <1>2, UniqueStep DEF Kept, IInv
<1>3. CASE net_dhcpd_start
  <2>1. now' = now /\ starts' = starts + 1
    BY <1>3 DEF net_dhcpd_start
  <2> QED
    BY <1>1, <1>2, <1>3, <2>1, StartKeeps
<1>4. CASE net_dhcpd_stop
  <2>1. now' = now /\ starts' = starts
    BY <1>4 DEF net_dhcpd_stop
  <2> QED
    BY <1>1, <1>2, <1>4, <2>1, StopKeeps
<1>5. CASE Tick
  <2>1. now' = now + 1 /\ starts' = starts
    BY <1>5 DEF Tick
  <2> QED
    BY <1>1, <1>2, <1>5, <2>1, TickKeeps
<1>6. ASSUME NEW c \in Clients, net_dhcpd_recv(c) PROVE IInv'
  <2>1. UNCHANGED <<running, now, starts>>
    BY <1>6 DEF net_dhcpd_recv
  <2>2. Kept
    <3>1. CASE DiscoverKnown(c)
      BY <2>1, <3>1, DiscoverKnownKeeps
    <3>2. CASE DiscoverNew(c)
      BY <2>1, <3>2, DiscoverNewKeeps
    <3>3. ASSUME NEW req \in Asked, RequestKnown(c, req) PROVE Kept
      BY <2>1, <3>3, AskedWords, RequestKnownKeeps
    <3>4. ASSUME NEW req \in Asked, RequestNew(c, req) PROVE Kept
      BY <2>1, <3>4, AskedWords, RequestNewKeeps
    <3>5. ASSUME NEW type \in {"release", "decline"}, GiveBack(type, c) PROVE Kept
      BY <2>1, <3>5, GiveBackKeeps
    <3> QED
      BY <1>6, <3>1, <3>2, <3>3, <3>4, <3>5 DEF net_dhcpd_recv
  <2> QED
    BY <1>1, <1>2, <2>1, <2>2
<1>7. CASE UNCHANGED vars
  BY <1>7 DEF vars, IInv, TypeOK, HoldsPast, AllBacked, UniqueSinceStart, First, Live
<1> QED
  BY <1>3, <1>4, <1>5, <1>6, <1>7 DEF Next

\* The inductive invariant holds in every reachable state of the DHCP server.
THEOREM DhcpdInvariance == Spec => []IInv
<1> QED
  BY InitIInv, NextIInv, PTL DEF Spec

\* Leases, clocks, answers and what clients believe keep their types.
THEOREM DhcpdTypeCorrect == Spec => []TypeOK
<1>1. IInv => TypeOK
  BY DEF IInv
<1> QED
  BY <1>1, DhcpdInvariance, PTL

\* Between two starts of the server no two clients hold the same address at the
\* same time, for any pool, any clients and any order of their messages.
THEOREM UniqueSinceStartCorrect == Spec => []UniqueSinceStart
<1>1. IInv => UniqueSinceStart
  BY DEF IInv
<1> QED
  BY <1>1, DhcpdInvariance, PTL

\* A client keeps its address: dhcpd_decide offers and grants it no other while
\* it holds it.
THEOREM KeepsAddressCorrect == Spec => KeepsAddress
<1> DEFINE Keep ==
      \A c \in Clients :
        Live(c) /\ holds[c].start = starts /\ starts' = starts
        /\ reply' # reply /\ reply'.mac = c
        /\ reply'.type \in {"offer", "ack", "nak"} /\ reply'.req \in {0, holds[c].ip}
          => reply'.type # "nak" /\ reply'.ip = holds[c].ip
<1>1. IInv /\ [Next]_vars => [Keep]_vars
  <2> SUFFICES ASSUME IInv, Next, NEW c \in Clients,
                      Live(c), holds[c].start = starts, starts' = starts,
                      reply' # reply, reply'.mac = c,
                      reply'.type \in {"offer", "ack", "nak"},
                      reply'.req \in {0, holds[c].ip}
               PROVE  reply'.type # "nak" /\ reply'.ip = holds[c].ip
    BY DEF vars
  <2>1. PICK k \in Slots : /\ First(c, k) /\ holds[c].ip = leases[k].ip
                           /\ holds[c].until <= leases[k].exp
    BY DEF IInv, AllBacked
  <2>2. OfMac(c) # {} /\ Lowest(OfMac(c)) = k
    BY <2>1, FirstIsLowest
  <2>3. ~Expired(k)
    BY <2>1, DhcpdAssumption DEF Expired, Live, IInv, TypeOK, Leases, Holds
  <2>4. PICK d \in Clients : net_dhcpd_recv(d)
    <3>1. starts \in Nat
      BY DhcpdAssumption DEF IInv, TypeOK
    <3>2. ASSUME net_dhcpd_start PROVE FALSE
      <4>1. starts' = starts + 1
        BY <3>2, Zenon DEF net_dhcpd_start
      <4> QED
        BY <3>1, <4>1
    <3>3. ~net_dhcpd_stop /\ ~Tick
      BY DEF net_dhcpd_stop, Tick
    <3> QED
      BY <3>2, <3>3 DEF Next
  <2>5. CASE DiscoverKnown(d)
    <3>1. d = c /\ reply'.type = "offer" /\ reply'.ip = leases[Lowest(OfMac(d))].ip
      BY <2>5 DEF DiscoverKnown, Answer
    <3> QED
      BY <2>1, <2>2, <3>1
  <2>6. CASE DiscoverNew(d)
    <3>1. d = c
      BY <2>6 DEF DiscoverNew, Answer
    <3> QED
      BY <2>2, <2>3, <2>6, <3>1 DEF DiscoverNew
  <2>7. ASSUME NEW req \in Asked, RequestKnown(d, req)
        PROVE  reply'.type # "nak" /\ reply'.ip = holds[c].ip
    <3>1. d = c /\ reply'.req = req
      BY <2>7 DEF RequestKnown, Answer
    <3>2. req \in {0, leases[k].ip}
      BY <2>1, <3>1
    <3>3. reply'.type = "ack" /\ reply'.ip = leases[k].ip
      BY <2>2, <2>7, <3>1, <3>2 DEF RequestKnown, Answer
    <3> QED
      BY <2>1, <3>3
  <2>8. ASSUME NEW req \in Asked, RequestNew(d, req) PROVE FALSE
    <3>1. d = c
      BY <2>8 DEF RequestNew, Answer
    <3> QED
      BY <2>2, <2>8, <3>1 DEF RequestNew
  <2>9. ASSUME NEW type \in {"release", "decline"}, GiveBack(type, d) PROVE FALSE
    BY <2>9 DEF GiveBack, Answer
  <2> QED
    BY <2>4, <2>5, <2>6, <2>7, <2>8, <2>9 DEF net_dhcpd_recv
<1>2. KeepsAddress <=> [][Keep]_vars
  BY DEF KeepsAddress
<1> HIDE DEF Keep
<1> QED
  BY <1>1, <1>2, DhcpdInvariance, PTL DEF Spec
=============================================================================
