---------------------------- MODULE LinkDbProofs ----------------------------
(***************************************************************************)
(* Proofs about LinkDb, for every number of slots and buckets, every hash  *)
(* function and every set of links.                                        *)
(*                                                                         *)
(* The chains are recursive definitions (Walk) and the sweep is a loop     *)
(* (Swept); what they compute is proved by a least counterexample on the   *)
(* naturals (LeastOf), which needs no induction scheme.                    *)
(***************************************************************************)
EXTENDS LinkDb, FiniteSetTheorems, TLAPS

-----------------------------------------------------------------------------
(* The naturals and the slots. *)

\* A set of naturals that is not empty has a least element.
LEMMA LeastOf ==
  ASSUME NEW T \in SUBSET Nat, T # {}
  PROVE  \E x \in T : \A y \in T : x <= y
<1> DEFINE R == OpToRel(<, Nat)
<1>1. \A x, y \in Nat : y < x => <<y, x>> \in R
  BY DEF OpToRel
<1>2. IsWellFoundedOn(R, Nat)
  BY NatLessThanWellFounded
<1> HIDE DEF R
<1>3. PICK x \in T : \A y \in T : ~ (<<y, x>> \in R)
  BY <1>2, WFMin
<1>4. \A y \in T : x \in Nat /\ y \in Nat /\ ~ (y < x)
  BY <1>1, <1>3
<1> QED
  BY <1>4

\* NSlots and the indices are naturals.
LEMMA SlotFacts ==
  /\ NSlots \in Nat /\ NSlots > 0 /\ MaxNow \in Nat /\ Timeout \in Nat
  /\ NoIndex = NSlots /\ NoIndex \notin Slots
  /\ \A k \in Slots : k \in Nat /\ k < NSlots
  /\ \A k \in Nat : k < NSlots => k \in Slots
BY LinkDbAssumption DEF NoIndex, Slots

Index == Slots \cup {NoIndex}

Positions == 0 .. NSlots

\* The tables the operations work on.
Tables == [links : [Slots -> Link \cup {NoLink}], buckets : [Buckets -> Index], count : Nat]

\* A free slot is no link.
LEMMA NoLinkFacts == \A l \in Link : l # NoLink
<1> SUFFICES ASSUME NEW l \in Link PROVE l # NoLink
  OBVIOUS
<1>1. "seen" \in DOMAIN l
  BY DEF Link
<1>2. "seen" \notin DOMAIN NoLink
  BY DEF NoLink
<1> QED
  BY <1>1, <1>2

\* What a used slot holds.
LEMMA UsedFacts ==
  ASSUME NEW d \in Tables
  PROVE  /\ Used(d) \subseteq Slots
         /\ \A k \in Used(d) : d.links[k] \in Link
         /\ \A k \in Slots : d.links[k] \in Link => k \in Used(d)
         /\ NoIndex \notin Used(d)
<1>1. d.links \in [Slots -> Link \cup {NoLink}]
  BY DEF Tables
<1> QED
  BY <1>1, NoLinkFacts, SlotFacts DEF Used

-----------------------------------------------------------------------------
(* Chains. *)

\* The links that hash to bucket b.
InBucket(d, b) == {k \in Used(d) : Hash[d.links[k].id] = b}

\* What a walk meets after index i.
After(d, i) == IF i \in Used(d) THEN d.links[i].next ELSE NoIndex

\* w is the walk along bucket b.
IsWalk(d, b, w) ==
  /\ w \in [Positions -> Index]
  /\ w[0] = d.buckets[b]
  /\ \A n \in 1 .. NSlots : w[n] = After(d, w[n - 1])

\* w meets the links of bucket b, once each, and ends.
IsChain(d, b, w) ==
  /\ IsWalk(d, b, w)
  /\ w[NSlots] = NoIndex
  /\ \A n \in Positions : w[n] = NoIndex \/ w[n] \in InBucket(d, b)
  /\ \A k \in InBucket(d, b) : \E n \in Positions : w[n] = k
  /\ \A m, n \in Positions : w[m] = w[n] /\ w[m] # NoIndex => m = n

\* Two functions that satisfy the recurrence of Walk are the same.
LEMMA WalkUnique ==
  ASSUME NEW d, NEW b, NEW v, NEW w,
         v = [n \in Positions |-> IF n = 0 THEN d.buckets[b] ELSE After(d, v[n - 1])],
         w = [n \in Positions |-> IF n = 0 THEN d.buckets[b] ELSE After(d, w[n - 1])]
  PROVE  v = w
<1> DEFINE T == {n \in Positions : v[n] # w[n]}
<1>1. SUFFICES T = {}
  <2>1. \A n \in Positions : v[n] = w[n]
    BY <1>1
  <2>2. DOMAIN v = Positions /\ DOMAIN w = Positions
    OBVIOUS
  <2>3. v = [n \in Positions |-> v[n]] /\ w = [n \in Positions |-> w[n]]
    BY <2>2
  <2> QED
    BY <2>1, <2>3
<1>2. SUFFICES ASSUME T # {} PROVE FALSE
  OBVIOUS
<1>3. T \in SUBSET Nat
  BY SlotFacts DEF Positions
<1>4. PICK x \in T : \A y \in T : x <= y
  BY <1>2, <1>3, LeastOf
<1>5. x \in Positions /\ v[x] # w[x]
  OBVIOUS
<1>6. x # 0
  <2>1. 0 \in Positions
    BY SlotFacts DEF Positions
  <2>2. v[0] = d.buckets[b] /\ w[0] = d.buckets[b]
    BY <2>1
  <2> QED
    BY <1>5, <2>2
<1>7. x - 1 \in Positions /\ x - 1 \notin T
  BY <1>3, <1>4, <1>5, <1>6, SlotFacts DEF Positions
<1>8. v[x - 1] = w[x - 1]
  BY <1>7
<1>9. v[x] = After(d, v[x - 1]) /\ w[x] = After(d, w[x - 1])
  BY <1>5, <1>6
<1> QED
  BY <1>5, <1>8, <1>9

\* Walk computes the walk: a walk is what the recursive definition denotes.
LEMMA WalkIs ==
  ASSUME NEW d, NEW b, NEW w, IsWalk(d, b, w)
  PROVE  Walk(d, b) = w
<1> DEFINE Rec(u) == u = [n \in Positions |-> IF n = 0 THEN d.buckets[b] ELSE After(d, u[n - 1])]
<1>1. Rec(w)
  <2>1. w = [n \in Positions |-> w[n]]
    BY DEF IsWalk
  <2>2. \A n \in Positions : w[n] = IF n = 0 THEN d.buckets[b] ELSE After(d, w[n - 1])
    <3>1. ASSUME NEW n \in Positions, n # 0 PROVE n \in 1 .. NSlots
      BY <3>1, SlotFacts DEF Positions
    <3> QED
      BY <3>1 DEF IsWalk
  <2> QED
    BY <2>1, <2>2
<1>2. Walk(d, b) = CHOOSE u : Rec(u)
  BY DEF Walk, After, Positions
<1>3. Rec(Walk(d, b))
  <2> HIDE DEF Rec
  <2> QED
    BY <1>1, <1>2
<1> QED
  BY <1>1, <1>3, WalkUnique

-----------------------------------------------------------------------------
(* Lookups. *)

\* A table is sound: its chains are exact, its ids distinct and its count true.
TableOK(d) ==
  /\ d \in Tables
  /\ d.count = Cardinality(Used(d))
  /\ \A j, k \in Used(d) : d.links[j].id = d.links[k].id => j = k
  /\ \A b \in Buckets : \E w \in [Positions -> Index] : IsChain(d, b, w)

\* The first index of a walk in S is one that the walk meets, if it meets any.
LEMMA FirstOnIs ==
  ASSUME NEW w, NEW S
  PROVE  \/ FirstOn(w, S) = NoIndex /\ \A n \in Positions : w[n] \notin S
         \/ FirstOn(w, S) \in S /\ \E n \in Positions : FirstOn(w, S) = w[n]
<1> DEFINE hits == {n \in Positions : w[n] \in S}
           First(n) == n \in hits /\ \A m \in hits : n <= m
<1>1. CASE hits = {}
  BY <1>1 DEF FirstOn, Positions
<1>2. CASE hits # {}
  <2>1. hits \in SUBSET Nat
    BY SlotFacts DEF Positions
  <2>2. \E n : First(n)
    <3> HIDE DEF hits
    <3> QED
      BY <1>2, <2>1, LeastOf
  <2>3. First(CHOOSE n : First(n))
    <3> HIDE DEF First
    <3> QED
      BY <2>2
  <2>4. FirstOn(w, S) = w[CHOOSE n : First(n)]
    <3>1. (CHOOSE n \in hits : \A m \in hits : n <= m) = CHOOSE n : First(n)
      OBVIOUS
    <3> QED
      BY <1>2, <3>1 DEF FirstOn, Positions
  <2>5. (CHOOSE n : First(n)) \in hits
    BY <2>3
  <2> QED
    BY <2>4, <2>5
<1> QED
  BY <1>1, <1>2

\* A lookup finds the link with that id, and only a link that is there.
LEMMA FindIs ==
  ASSUME NEW d, TableOK(d), NEW id \in Ids
  PROVE  LET k == find_index_by_id(d, id)
         IN  \/ k = NoIndex /\ \A j \in Used(d) : d.links[j].id # id
             \/ k \in Used(d) /\ d.links[k].id = id /\ k # NoIndex
<1> DEFINE S == {k \in Used(d) : d.links[k].id = id}
<1>0. Hash[id] \in Buckets /\ d \in Tables
  BY DEF Buckets, TableOK
<1>1. PICK w \in [Positions -> Index] : IsChain(d, Hash[id], w)
  BY <1>0 DEF TableOK
<1>2. find_index_by_id(d, id) = FirstOn(w, S)
  <2>1. Walk(d, Hash[id]) = w
    BY <1>1, WalkIs DEF IsChain
  <2> QED
    BY <2>1 DEF find_index_by_id
<1>3. \A k \in S : k \in InBucket(d, Hash[id])
  BY DEF InBucket
<1>4. \A k \in S : \E n \in Positions : w[n] = k
  BY <1>1, <1>3 DEF IsChain
<1>5. NoIndex \notin Used(d)
  BY <1>0, UsedFacts
<1>6. \/ FirstOn(w, S) = NoIndex /\ \A n \in Positions : w[n] \notin S
      \/ FirstOn(w, S) \in S
  BY FirstOnIs
<1> QED
  BY <1>2, <1>4, <1>5, <1>6

\* A free slot is a slot that is not used.
LEMMA FreeIs ==
  ASSUME NEW d \in Tables
  PROVE  LET f == find_free_slot(d)
         IN  \/ f = NoIndex
             \/ f \in Slots \ Used(d) /\ d.count < NSlots
<1>0. d.count \in Nat
  BY DEF Tables
<1> DEFINE free == Slots \ Used(d)
           First(n) == n \in free /\ \A m \in free : n <= m
<1>1. CASE d.count >= NSlots \/ Used(d) = Slots
  BY <1>1 DEF find_free_slot
<1>2. CASE ~ (d.count >= NSlots \/ Used(d) = Slots)
  <2>1. free \in SUBSET Nat /\ free # {}
    BY <1>2, SlotFacts DEF Used
  <2>2. \E n : First(n)
    <3> HIDE DEF free
    <3> QED
      BY <2>1, LeastOf
  <2>3. First(CHOOSE n : First(n))
    <3> HIDE DEF First
    <3> QED
      BY <2>2
  <2>4. find_free_slot(d) = CHOOSE n : First(n)
    <3>1. (CHOOSE n \in free : \A m \in free : n <= m) = CHOOSE n : First(n)
      OBVIOUS
    <3> QED
      BY <1>2, <3>1 DEF find_free_slot
  <2>5. (CHOOSE n : First(n)) \in free
    BY <2>3
  <2> QED
    BY <1>0, <1>2, <2>4, <2>5, SlotFacts
<1> QED
  BY <1>1, <1>2

-----------------------------------------------------------------------------
(* Removing a link. *)

\* A table is made of its parts.
LEMMA TableOf ==
  ASSUME NEW L \in [Slots -> Link \cup {NoLink}], NEW B \in [Buckets -> Index], NEW c \in Nat
  PROVE  [links |-> L, buckets |-> B, count |-> c] \in Tables
BY DEF Tables

\* What a packet sees of two links is the same: they may differ in the chain.
SameLink(l, m) == l.id = m.id /\ l.seen = m.seen /\ l.mac = m.mac

\* r is d without link k, which its walk w meets at p.
IsRemoved(d, k, w, p, r) ==
  /\ r \in Tables
  /\ Used(r) = Used(d) \ {k}
  /\ r.count = IF d.count > 0 THEN d.count - 1 ELSE 0
  /\ \A j \in Used(r) :
       /\ SameLink(r.links[j], d.links[j])
       /\ r.links[j].next = IF p > 0 /\ j = w[p - 1] THEN d.links[k].next ELSE d.links[j].next
  /\ \A c \in Buckets :
       r.buckets[c] = IF p = 0 /\ c = Hash[d.links[k].id] THEN d.links[k].next ELSE d.buckets[c]

\* The link before k in its chain is the one the walk meets before k.
LEMMA PrevIs ==
  ASSUME NEW d, TableOK(d), NEW k \in Used(d), NEW b, NEW w, IsChain(d, b, w),
         NEW p \in Positions, w[p] = k
  PROVE  LET prev == FirstOn(w, {j \in Used(d) : d.links[j].next = k})
         IN  /\ p = 0 => d.buckets[b] = k
             /\ p > 0 => /\ d.buckets[b] # k
                         /\ prev = w[p - 1] /\ prev \in Used(d) /\ prev # k /\ prev # NoIndex
<1> DEFINE S == {j \in Used(d) : d.links[j].next = k}
<1>0. d \in Tables /\ NoIndex \notin Used(d) /\ w[0] = d.buckets[b]
      /\ 0 \in Positions /\ p \in Nat /\ NSlots \in Nat
  BY UsedFacts, SlotFacts DEF TableOK, IsChain, IsWalk, Positions
<1>1. SUFFICES ASSUME p > 0
               PROVE  /\ d.buckets[b] # k
                      /\ FirstOn(w, S) = w[p - 1] /\ w[p - 1] \in Used(d) /\ w[p - 1] # k
                      /\ w[p - 1] # NoIndex
  BY <1>0
<1>2. w[0] # k
  BY <1>0, <1>1 DEF IsChain
<1>3. p - 1 \in Positions /\ p \in 1 .. NSlots
  BY <1>0, <1>1 DEF Positions
<1>4. w[p - 1] \in Used(d) /\ d.links[w[p - 1]].next = k
  BY <1>0, <1>3 DEF IsChain, IsWalk, After
<1>5. w[p - 1] # k
  <2>1. p - 1 # p
    BY <1>0
  <2> QED
    BY <1>0, <1>3, <2>1 DEF IsChain
<1>6. PICK q \in Positions : FirstOn(w, S) = w[q] /\ w[q] \in S
  <2>1. w[p - 1] \in S
    BY <1>4
  <2> QED
    BY <1>3, <2>1, FirstOnIs
<1>7. q + 1 \in 1 .. NSlots /\ (q + 1) - 1 = q /\ q + 1 \in Positions
  <2>1. q # NSlots
    BY <1>0, <1>6 DEF IsChain
  <2> QED
    BY <1>0, <2>1 DEF Positions
<1>8. w[q + 1] = k
  BY <1>6, <1>7 DEF IsChain, IsWalk, After
<1>9. q + 1 = p
  BY <1>0, <1>7, <1>8 DEF IsChain
<1>10. q = p - 1
  BY <1>0, <1>9 DEF Positions
<1> QED
  BY <1>0, <1>2, <1>4, <1>5, <1>6, <1>10

\* What rns_link_db_remove_index does to the table.
LEMMA RemovedIs ==
  ASSUME NEW d, TableOK(d), NEW k \in Used(d), NEW w,
         IsChain(d, Hash[d.links[k].id], w), NEW p \in Positions, w[p] = k
  PROVE  IsRemoved(d, k, w, p, remove_index(d, k))
<1> DEFINE b == Hash[d.links[k].id]
           prev == FirstOn(w, {j \in Used(d) : d.links[j].next = k})
           nx == d.links[k].next
           u == Unchained(d, k)
           r == remove_index(d, k)
<1>0. d \in Tables /\ p \in Nat /\ k \in Slots
  BY UsedFacts, SlotFacts DEF TableOK, Positions
<1>1. d.links \in [Slots -> Link \cup {NoLink}] /\ d.buckets \in [Buckets -> Index] /\ d.count \in Nat
      /\ d = [links |-> d.links, buckets |-> d.buckets, count |-> d.count]
  BY <1>0 DEF Tables
<1>2. d.links[k] \in Link /\ nx \in Index /\ d.links[k].id \in Ids /\ b \in Buckets
  <2>1. d.links[k] \in Link
    BY <1>0, UsedFacts
  <2> QED
    BY <2>1 DEF Link, Index, Buckets
<1>3. Walk(d, b) = w
  BY WalkIs DEF IsChain
<1>4. /\ p = 0 => d.buckets[b] = k
      /\ p > 0 => /\ d.buckets[b] # k
                  /\ prev = w[p - 1] /\ prev \in Used(d) /\ prev # k /\ prev # NoIndex
  BY PrevIs
<1>5. u = IF d.buckets[b] = k THEN [d EXCEPT !.buckets[b] = nx]
          ELSE IF prev # NoIndex THEN [d EXCEPT !.links[prev].next = nx]
          ELSE d
  BY <1>3 DEF Unchained
<1>6. r = [u EXCEPT !.links[k] = NoLink, !.count = IF @ > 0 THEN @ - 1 ELSE 0]
  BY DEF remove_index
<1>7. \A l \in Link : /\ [l EXCEPT !.next = nx] \in Link
                      /\ SameLink([l EXCEPT !.next = nx], l)
                      /\ [l EXCEPT !.next = nx].next = nx
  BY <1>2 DEF Link, SameLink, Index
<1> HIDE DEF u, r, nx, prev, b
<1>8. CASE p = 0
  <2>1. r = [links |-> [d.links EXCEPT ![k] = NoLink], buckets |-> [d.buckets EXCEPT ![b] = nx],
             count |-> IF d.count > 0 THEN d.count - 1 ELSE 0]
    BY <1>1, <1>4, <1>5, <1>6, <1>8
  <2>2. r \in Tables
    <3>1. [d.links EXCEPT ![k] = NoLink] \in [Slots -> Link \cup {NoLink}]
      BY <1>1
    <3>2. [d.buckets EXCEPT ![b] = nx] \in [Buckets -> Index]
      BY <1>1, <1>2
    <3>3. (IF d.count > 0 THEN d.count - 1 ELSE 0) \in Nat
      BY <1>1
    <3> QED
      BY <2>1, <3>1, <3>2, <3>3, TableOf
  <2>3. \A j \in Slots : r.links[j] = IF j = k THEN NoLink ELSE d.links[j]
    BY <1>1, <2>1
  <2>4. \A c \in Buckets : r.buckets[c] = IF c = b THEN nx ELSE d.buckets[c]
    BY <1>1, <2>1
  <2>5. Used(r) = Used(d) \ {k}
    BY <2>3 DEF Used
  <2>6. r.count = IF d.count > 0 THEN d.count - 1 ELSE 0
    BY <2>1
  <2>7. \A j \in Used(r) : r.links[j] = d.links[j]
    BY <2>3, <2>5 DEF Used
  <2> QED
    BY <1>8, <2>2, <2>4, <2>5, <2>6, <2>7 DEF IsRemoved, SameLink, b, nx, r
<1>9. CASE p # 0
  <2>0. p > 0
    BY <1>0, <1>9
  <2>a. prev \in Slots /\ d.links[prev] \in Link
    BY <1>0, <1>4, <2>0, UsedFacts
  <2>1. r = [links |-> [d.links EXCEPT ![prev] = [d.links[prev] EXCEPT !.next = nx], ![k] = NoLink],
             buckets |-> d.buckets,
             count |-> IF d.count > 0 THEN d.count - 1 ELSE 0]
    <3>1. u = [links |-> [d.links EXCEPT ![prev] = [d.links[prev] EXCEPT !.next = nx]],
               buckets |-> d.buckets, count |-> d.count]
      BY <1>1, <1>4, <1>5, <2>0
    <3> QED
      BY <1>6, <3>1
  <2>2. r \in Tables
    <3>1. [d.links EXCEPT ![prev] = [d.links[prev] EXCEPT !.next = nx], ![k] = NoLink]
            \in [Slots -> Link \cup {NoLink}]
      BY <1>1, <1>7, <2>a
    <3>3. (IF d.count > 0 THEN d.count - 1 ELSE 0) \in Nat
      BY <1>1
    <3> QED
      BY <1>1, <2>1, <3>1, <3>3, TableOf
  <2>3. \A j \in Slots : r.links[j] = IF j = k THEN NoLink
                                      ELSE IF j = prev THEN [d.links[prev] EXCEPT !.next = nx]
                                      ELSE d.links[j]
    BY <1>1, <2>1, <1>4, <2>0
  <2>4. \A c \in Buckets : r.buckets[c] = d.buckets[c]
    BY <2>1
  <2>5. Used(r) = Used(d) \ {k}
    <3>1. [d.links[prev] EXCEPT !.next = nx] # NoLink /\ d.links[prev] # NoLink
      BY <2>a, <1>7, NoLinkFacts
    <3> QED
      BY <2>3, <3>1 DEF Used
  <2>6. r.count = IF d.count > 0 THEN d.count - 1 ELSE 0
    BY <2>1
  <2>7. \A j \in Used(r) : r.links[j] = IF j = prev THEN [d.links[prev] EXCEPT !.next = nx]
                                        ELSE d.links[j]
    BY <2>3, <2>5 DEF Used
  <2>8. \A j \in Used(r) : SameLink(r.links[j], d.links[j])
    <3>1. SameLink([d.links[prev] EXCEPT !.next = nx], d.links[prev])
      BY <1>7, <2>a
    <3>2. \A l : SameLink(l, l)
      BY DEF SameLink
    <3> QED
      BY <2>7, <3>1, <3>2
  <2>9. \A j \in Used(r) : r.links[j].next = IF j = w[p - 1] THEN nx ELSE d.links[j].next
    BY <1>4, <1>7, <2>0, <2>7, <2>a
  <2> QED
    BY <2>0, <2>2, <2>4, <2>5, <2>6, <2>8, <2>9 DEF IsRemoved, nx, r
<1> QED
  BY <1>8, <1>9 DEF r

\* The used slots are finitely many.
LEMMA UsedFinite ==
  ASSUME NEW d
  PROVE  /\ IsFiniteSet(Used(d)) /\ Cardinality(Used(d)) \in Nat
         /\ IsFiniteSet(Slots) /\ Cardinality(Slots) = NSlots
<1>1. IsFiniteSet(Slots) /\ Cardinality(Slots) = NSlots
  BY SlotFacts, FS_Interval DEF Slots
<1>2. Used(d) \in SUBSET Slots
  BY DEF Used
<1> QED
  BY <1>1, <1>2, FS_Subset, FS_CardinalityType

\* A bucket that k is not in keeps its chain.
LEMMA OtherChain ==
  ASSUME NEW d, TableOK(d), NEW k \in Used(d), NEW w, IsChain(d, Hash[d.links[k].id], w),
         NEW p \in Positions, w[p] = k, NEW r, IsRemoved(d, k, w, p, r),
         NEW c \in Buckets, c # Hash[d.links[k].id], NEW v, IsChain(d, c, v)
  PROVE  IsChain(r, c, v)
<1> DEFINE b == Hash[d.links[k].id]
<1>0. d \in Tables /\ r \in Tables /\ p \in Nat /\ NSlots \in Nat
      /\ NoIndex \notin Used(d) /\ NoIndex \notin Used(r)
  <2>1. d \in Tables /\ r \in Tables
    BY DEF TableOK, IsRemoved
  <2> QED
    BY <2>1, UsedFacts, SlotFacts DEF Positions
<1>1. InBucket(r, c) = InBucket(d, c)
  BY DEF InBucket, IsRemoved, SameLink
<1>2. r.buckets[c] = d.buckets[c]
  BY DEF IsRemoved
<1>3. \A i \in InBucket(d, c) : i \in Used(r) /\ i \in Used(d) /\ r.links[i].next = d.links[i].next
  <2>1. p > 0 => w[p - 1] = NoIndex \/ Hash[d.links[w[p - 1]].id] = b
    <3>1. p > 0 => p - 1 \in Positions
      BY <1>0 DEF Positions
    <3> QED
      BY <3>1 DEF IsChain, InBucket
  <2>2. ASSUME NEW i \in InBucket(d, c) PROVE ~ (p > 0 /\ i = w[p - 1]) /\ i \in Used(r) /\ i \in Used(d)
    BY <1>0, <1>1, <2>1 DEF InBucket
  <2> QED
    BY <2>2 DEF IsRemoved
<1>4. \A n \in Positions : After(r, v[n]) = After(d, v[n])
  <2> SUFFICES ASSUME NEW n \in Positions PROVE After(r, v[n]) = After(d, v[n])
    OBVIOUS
  <2>1. v[n] = NoIndex \/ v[n] \in InBucket(d, c)
    BY DEF IsChain
  <2> QED
    BY <1>0, <1>3, <2>1 DEF After
<1>5. \A n \in 1 .. NSlots : n - 1 \in Positions
  BY <1>0 DEF Positions
<1>6. IsWalk(r, c, v)
  BY <1>2, <1>4, <1>5 DEF IsChain, IsWalk
<1> QED
  BY <1>1, <1>6 DEF IsChain

\* The chain of k closes over it.
LEMMA ShortChain ==
  ASSUME NEW d, TableOK(d), NEW k \in Used(d), NEW w, IsChain(d, Hash[d.links[k].id], w),
         NEW p \in Positions, w[p] = k, NEW r, IsRemoved(d, k, w, p, r)
  PROVE  LET v == [n \in Positions |-> IF n < p THEN w[n] ELSE IF n < NSlots THEN w[n + 1] ELSE NoIndex]
         IN  IsChain(r, Hash[d.links[k].id], v)
<1> DEFINE b == Hash[d.links[k].id]
           v == [n \in Positions |-> IF n < p THEN w[n] ELSE IF n < NSlots THEN w[n + 1] ELSE NoIndex]
<1>0. d \in Tables /\ r \in Tables /\ p \in Nat /\ NSlots \in Nat /\ NSlots > 0
      /\ NoIndex \notin Used(d) /\ NoIndex \notin Used(r)
  <2>1. d \in Tables /\ r \in Tables
    BY DEF TableOK, IsRemoved
  <2> QED
    BY <2>1, UsedFacts, SlotFacts DEF Positions
<1>b. b \in Buckets
  <2>1. d.links[k] \in Link
    BY <1>0, UsedFacts
  <2> QED
    BY <2>1 DEF Link, Buckets
<1>1. w \in [Positions -> Index] /\ w[NSlots] = NoIndex /\ w[0] = d.buckets[b]
  BY DEF IsChain, IsWalk
<1>2. \A m, n \in Positions : w[m] = w[n] /\ w[m] # NoIndex => m = n
  BY DEF IsChain
<1>3. \A n \in 1 .. NSlots : w[n] = After(d, w[n - 1])
  BY DEF IsChain, IsWalk
<1>4. k # NoIndex /\ p < NSlots
  BY <1>0, <1>1 DEF Positions
<1>5. \A n \in Positions : n \in Nat /\ n <= NSlots
  BY <1>0 DEF Positions
<1>6. InBucket(r, b) = InBucket(d, b) \ {k}
  BY DEF InBucket, IsRemoved, SameLink
\* Away from k and the link before it, nothing changes.
<1>7. \A n \in Positions : n # p /\ n + 1 # p => After(r, w[n]) = After(d, w[n])
  <2> SUFFICES ASSUME NEW n \in Positions, n # p, n + 1 # p, w[n] # NoIndex
               PROVE  After(r, w[n]) = After(d, w[n])
    BY <1>0 DEF After
  <2>1. w[n] \in Used(d)
    BY DEF IsChain, InBucket
  <2>2. w[n] # k
    BY <1>2
  <2>3. w[n] \in Used(r)
    BY <2>1, <2>2 DEF IsRemoved
  <2>4. p > 0 => w[n] # w[p - 1]
    <3>1. p > 0 => p - 1 \in Positions /\ p - 1 # n
      BY <1>0, <1>5 DEF Positions
    <3> QED
      BY <1>2, <3>1
  <2> QED
    BY <2>1, <2>3, <2>4 DEF IsRemoved, After
<1>8. p > 0 => After(r, w[p - 1]) = d.links[k].next
  <2> SUFFICES ASSUME p > 0 PROVE After(r, w[p - 1]) = d.links[k].next
    OBVIOUS
  <2>1. p - 1 \in Positions /\ p \in 1 .. NSlots /\ p - 1 # p
    BY <1>0, <1>4 DEF Positions
  <2>2. w[p - 1] \in Used(d)
    BY <1>3, <1>4, <2>1 DEF After
  <2>3. w[p - 1] # k
    BY <1>2, <1>4, <2>1
  <2>4. w[p - 1] \in Used(r)
    BY <2>2, <2>3 DEF IsRemoved
  <2> QED
    BY <2>4 DEF IsRemoved, After
<1>9. w[p + 1] = d.links[k].next
  <2>1. p + 1 \in 1 .. NSlots /\ (p + 1) - 1 = p
    BY <1>0, <1>4
  <2> QED
    BY <1>3, <2>1 DEF After
<1>10. \A n \in Positions : v[n] = IF n < p THEN w[n] ELSE IF n < NSlots THEN w[n + 1] ELSE NoIndex
  OBVIOUS
<1>11. v \in [Positions -> Index]
  <2>1. \A n \in Positions : n < NSlots => n + 1 \in Positions
    BY <1>0 DEF Positions
  <2>2. \A n \in Positions : v[n] \in Index
    BY <1>1, <2>1 DEF Index
  <2> QED
    BY <2>2
<1> HIDE DEF v
<1>12. v[0] = r.buckets[b]
  <2>1. 0 \in Positions /\ (p # 0 => 0 < p)
    BY <1>0 DEF Positions
  <2>2. CASE p = 0
    <3>1. v[0] = w[p + 1]
      BY <1>0, <1>10, <2>1, <2>2
    <3> QED
      BY <1>9, <1>b, <2>2, <3>1 DEF IsRemoved
  <2>3. CASE p # 0
    BY <1>1, <1>10, <1>b, <2>1, <2>3 DEF IsRemoved
  <2> QED
    BY <2>2, <2>3
<1>13. ASSUME NEW n \in 1 .. NSlots PROVE v[n] = After(r, v[n - 1])
  <2>1. n \in Positions /\ n - 1 \in Positions /\ n \in Nat /\ n > 0 /\ n <= NSlots
        /\ (n - 1) + 1 = n
    BY <1>0 DEF Positions
  <2>2. CASE n < p
    <3>1. v[n] = w[n] /\ v[n - 1] = w[n - 1]
      BY <1>0, <1>10, <2>1, <2>2
    <3>2. n - 1 # p /\ (n - 1) + 1 # p
      BY <1>0, <2>1, <2>2
    <3> QED
      BY <1>3, <1>7, <2>1, <3>1, <3>2
  <2>3. CASE n = p
    <3>1. v[n] = w[p + 1] /\ v[n - 1] = w[p - 1]
      BY <1>0, <1>4, <1>10, <2>1, <2>3
    <3> QED
      BY <1>8, <1>9, <2>1, <2>3, <3>1
  <2>4. CASE n > p
    <3>1. v[n - 1] = w[n]
      BY <1>0, <1>10, <2>1, <2>4
    <3>2. n # p /\ n + 1 # p
      BY <1>0, <2>1, <2>4
    <3>3. After(r, w[n]) = After(d, w[n])
      BY <1>7, <2>1, <3>2
    <3>4. CASE n < NSlots
      <4>1. v[n] = w[n + 1]
        BY <1>0, <1>10, <2>1, <2>4, <3>4
      <4>2. n + 1 \in 1 .. NSlots /\ (n + 1) - 1 = n
        BY <1>0, <2>1, <3>4
      <4> QED
        BY <1>3, <3>1, <3>3, <4>1, <4>2
    <3>5. CASE n = NSlots
      <4>1. v[n] = NoIndex
        BY <1>0, <1>10, <2>1, <2>4, <3>5
      <4> QED
        BY <1>0, <1>1, <3>1, <3>5, <4>1 DEF After
    <3> QED
      BY <1>0, <2>1, <3>4, <3>5
  <2> QED
    BY <1>0, <2>1, <2>2, <2>3, <2>4
<1>14. IsWalk(r, b, v)
  BY <1>11, <1>12, <1>13 DEF IsWalk
<1>15. v[NSlots] = NoIndex
  BY <1>0, <1>4, <1>10 DEF Positions
\* v is w, with the positions from p on shifted.
<1>16. \A n \in Positions : v[n] # NoIndex =>
         \E m \in Positions : m # p /\ v[n] = w[m] /\ m = IF n < p THEN n ELSE n + 1
  <2> SUFFICES ASSUME NEW n \in Positions, v[n] # NoIndex
               PROVE  \E m \in Positions : m # p /\ v[n] = w[m] /\ m = IF n < p THEN n ELSE n + 1
    OBVIOUS
  <2>1. CASE n < p
    BY <1>0, <1>5, <1>10, <2>1
  <2>2. CASE ~ (n < p)
    <3>1. n < NSlots /\ v[n] = w[n + 1]
      BY <1>0, <1>5, <1>10, <2>2
    <3>2. n + 1 \in Positions /\ n + 1 # p
      BY <1>0, <1>5, <2>2, <3>1 DEF Positions
    <3> QED
      BY <2>2, <3>1, <3>2
  <2> QED
    BY <2>1, <2>2
<1>17. ASSUME NEW n \in Positions PROVE v[n] = NoIndex \/ v[n] \in InBucket(r, b)
  <2> SUFFICES ASSUME v[n] # NoIndex PROVE v[n] \in InBucket(r, b)
    OBVIOUS
  <2>1. PICK m \in Positions : m # p /\ v[n] = w[m]
    BY <1>16
  <2>2. w[m] \in InBucket(d, b) /\ w[m] # k
    BY <1>2, <2>1 DEF IsChain
  <2> QED
    BY <1>6, <2>1, <2>2
<1>18. ASSUME NEW j \in InBucket(r, b) PROVE \E n \in Positions : v[n] = j
  <2>1. j \in InBucket(d, b) /\ j # k
    BY <1>6
  <2>2. PICK m \in Positions : w[m] = j
    BY <2>1 DEF IsChain
  <2>3. m # p /\ m \in Nat /\ m <= NSlots
    BY <1>5, <2>1, <2>2
  <2>4. CASE m < p
    BY <1>10, <2>2, <2>4
  <2>5. CASE m > p
    <3>1. m - 1 \in Positions /\ ~ (m - 1 < p) /\ m - 1 < NSlots /\ (m - 1) + 1 = m
      BY <1>0, <2>3, <2>5 DEF Positions
    <3> QED
      BY <1>10, <2>2, <3>1
  <2> QED
    BY <1>0, <2>3, <2>4, <2>5
<1>19. ASSUME NEW m \in Positions, NEW n \in Positions, v[m] = v[n], v[m] # NoIndex
       PROVE  m = n
  <2>1. PICK x \in Positions : x # p /\ v[m] = w[x] /\ x = IF m < p THEN m ELSE m + 1
    BY <1>16, <1>19
  <2>2. PICK y \in Positions : y # p /\ v[n] = w[y] /\ y = IF n < p THEN n ELSE n + 1
    BY <1>16, <1>19
  <2>3. x = y
    BY <1>2, <1>19, <2>1, <2>2
  <2>4. m \in Nat /\ n \in Nat
    BY <1>5
  <2> QED
    BY <1>0, <2>1, <2>2, <2>3, <2>4
<1> QED
  BY <1>14, <1>15, <1>17, <1>18, <1>19 DEF IsChain, v

\* rns_link_db_remove_index takes link k out, and keeps the table sound.
LEMMA RemoveOK ==
  ASSUME NEW d, TableOK(d), NEW k \in Used(d)
  PROVE  LET r == remove_index(d, k)
         IN  /\ TableOK(r)
             /\ Used(r) = Used(d) \ {k}
             /\ \A j \in Used(r) : SameLink(r.links[j], d.links[j])
<1>0. d \in Tables
  BY DEF TableOK
<1>1. Hash[d.links[k].id] \in Buckets
  <2>1. d.links[k] \in Link
    BY <1>0, UsedFacts
  <2> QED
    BY <2>1 DEF Link, Buckets
<1>2. PICK w \in [Positions -> Index] : IsChain(d, Hash[d.links[k].id], w)
  BY <1>1 DEF TableOK
<1>3. PICK p \in Positions : w[p] = k
  BY <1>2 DEF IsChain, InBucket
<1>4. PICK r : r = remove_index(d, k)
  OBVIOUS
<1>5. IsRemoved(d, k, w, p, r)
  BY <1>2, <1>3, <1>4, RemovedIs
<1>6. r \in Tables /\ Used(r) = Used(d) \ {k} /\ \A j \in Used(r) : SameLink(r.links[j], d.links[j])
  BY <1>5 DEF IsRemoved
<1>7. r.count = Cardinality(Used(r))
  <2>1. d.count = Cardinality(Used(d)) /\ Cardinality(Used(d)) \in Nat /\ IsFiniteSet(Used(d))
    BY UsedFinite DEF TableOK
  <2>2. Cardinality(Used(r)) = Cardinality(Used(d)) - 1 /\ Cardinality(Used(r)) \in Nat
    BY <1>6, <2>1, FS_RemoveElement, UsedFinite
  <2>3. r.count = IF d.count > 0 THEN d.count - 1 ELSE 0
    BY <1>5 DEF IsRemoved
  <2> QED
    BY <2>1, <2>2, <2>3
<1>8. \A i, j \in Used(r) : r.links[i].id = r.links[j].id => i = j
  BY <1>6 DEF TableOK, SameLink
<1>9. ASSUME NEW c \in Buckets PROVE \E v \in [Positions -> Index] : IsChain(r, c, v)
  <2>1. CASE c = Hash[d.links[k].id]
    <3>1. \E v : IsChain(r, c, v)
      BY <1>2, <1>3, <1>5, <2>1, ShortChain
    <3> QED
      BY <3>1 DEF IsChain, IsWalk
  <2>2. CASE c # Hash[d.links[k].id]
    <3>1. PICK v \in [Positions -> Index] : IsChain(d, c, v)
      BY DEF TableOK
    <3> QED
      BY <1>2, <1>3, <1>5, <2>2, <3>1, OtherChain
  <2> QED
    BY <2>1, <2>2
<1>10. TableOK(r)
  BY <1>6, <1>7, <1>8, <1>9 DEF TableOK
<1> QED
  BY <1>4, <1>6, <1>10

-----------------------------------------------------------------------------
(* Entering a link. *)

\* While a slot is free, no chain takes all the positions of a walk.
LEMMA Room ==
  ASSUME NEW d, TableOK(d), NEW k \in Slots \ Used(d), NEW b, NEW w, IsChain(d, b, w)
  PROVE  w[NSlots - 1] = NoIndex
<1> SUFFICES ASSUME w[NSlots - 1] # NoIndex PROVE FALSE
  OBVIOUS
<1>0. d \in Tables /\ NSlots \in Nat /\ NSlots > 0 /\ NoIndex \notin Used(d) /\ Used(d) \subseteq Slots
  BY UsedFacts, SlotFacts DEF TableOK
<1> DEFINE T == {i \in 0 .. NSlots - 1 : w[(NSlots - 1) - i] = NoIndex}
<1>1. T = {}
  <2> SUFFICES ASSUME T # {} PROVE FALSE
    OBVIOUS
  <2>1. T \in SUBSET Nat
    BY <1>0
  <2>2. PICK i \in T : \A j \in T : i <= j
    BY <2>1, LeastOf
  <2>3. i \in Nat /\ i <= NSlots - 1 /\ i # 0
    BY <1>0
  <2>4. (NSlots - 1) - (i - 1) \in 1 .. NSlots
        /\ ((NSlots - 1) - (i - 1)) - 1 = (NSlots - 1) - i /\ i - 1 \in 0 .. NSlots - 1
    BY <1>0, <2>3
  <2>5. w[(NSlots - 1) - (i - 1)] = After(d, w[(NSlots - 1) - i])
    BY <2>4 DEF IsChain, IsWalk
  <2>6. w[(NSlots - 1) - (i - 1)] = NoIndex
    BY <1>0, <2>5 DEF After
  <2>7. i - 1 \in T
    BY <2>4, <2>6
  <2>8. i <= i - 1
    BY <2>2, <2>7
  <2> QED
    BY <2>3, <2>8
<1>2. \A s \in Slots : s \in Positions /\ w[s] \in Used(d)
  <2> SUFFICES ASSUME NEW s \in Slots PROVE s \in Positions /\ w[s] \in Used(d)
    OBVIOUS
  <2>1. s \in Positions /\ (NSlots - 1) - s \in 0 .. NSlots - 1 /\ (NSlots - 1) - ((NSlots - 1) - s) = s
    BY <1>0 DEF Slots, Positions
  <2>2. w[s] # NoIndex
    BY <1>1, <2>1
  <2> QED
    BY <2>1, <2>2 DEF IsChain, InBucket
<1>3. [s \in Slots |-> w[s]] \in Injection(Slots, Used(d))
  <2>1. [s \in Slots |-> w[s]] \in [Slots -> Used(d)]
    BY <1>2
  <2>2. \A s, t \in Slots : w[s] = w[t] => s = t
    BY <1>0, <1>2 DEF IsChain
  <2> QED
    BY <2>1, <2>2 DEF Injection, IsInjective
<1>4. Cardinality(Slots) <= Cardinality(Used(d))
  BY <1>3, UsedFinite, FS_Injection
<1>5. Cardinality(Used(d)) <= Cardinality(Slots)
      /\ (Cardinality(Slots) = Cardinality(Used(d)) => Slots = Used(d))
  <2>1. Used(d) \in SUBSET Slots
    BY <1>0
  <2> QED
    BY <2>1, UsedFinite, FS_Subset
<1>6. Slots = Used(d)
  BY <1>0, <1>4, <1>5, UsedFinite
<1> QED
  BY <1>6

\* e is d with a new link l in slot k, at the head of its chain.
IsEntered(d, k, l, e) ==
  /\ e \in Tables
  /\ Used(e) = Used(d) \cup {k}
  /\ e.count = d.count + 1
  /\ e.links[k] = l /\ \A j \in Used(d) : e.links[j] = d.links[j]
  /\ \A c \in Buckets : e.buckets[c] = IF c = Hash[l.id] THEN k ELSE d.buckets[c]

\* The chain of the new link starts with it.
LEMMA LongChain ==
  ASSUME NEW d, TableOK(d), NEW k \in Slots \ Used(d), NEW l \in Link, NEW e, IsEntered(d, k, l, e),
         NEW w, IsChain(d, Hash[l.id], w), l.next = d.buckets[Hash[l.id]]
  PROVE  LET v == [n \in Positions |-> IF n = 0 THEN k ELSE w[n - 1]]
         IN  IsChain(e, Hash[l.id], v)
<1> DEFINE b == Hash[l.id]
           v == [n \in Positions |-> IF n = 0 THEN k ELSE w[n - 1]]
<1>0. d \in Tables /\ NSlots \in Nat /\ NSlots > 0 /\ NoIndex \notin Used(d) /\ k # NoIndex
      /\ Used(d) \subseteq Slots /\ NoIndex \notin Used(e) /\ k \notin Used(d)
  <2>1. d \in Tables /\ e \in Tables
    BY DEF TableOK, IsEntered
  <2> QED
    BY <2>1, UsedFacts, SlotFacts
<1>b. b \in Buckets
  BY DEF Link, Buckets
<1>1. w \in [Positions -> Index] /\ w[0] = d.buckets[b]
  BY DEF IsChain, IsWalk
<1>2. \A n \in Positions : n \in Nat /\ n <= NSlots /\ (n # 0 => n - 1 \in Positions)
  BY <1>0 DEF Positions
<1>3. \A n \in Positions : v[n] = IF n = 0 THEN k ELSE w[n - 1]
  OBVIOUS
<1>4. v \in [Positions -> Index]
  <2>1. \A n \in Positions : v[n] \in Index
    BY <1>1, <1>2 DEF Index
  <2> QED
    BY <2>1
<1> HIDE DEF v
<1>5. 0 \in Positions /\ NSlots \in Positions
  BY <1>0 DEF Positions
<1>6. InBucket(e, b) = InBucket(d, b) \cup {k}
  BY DEF InBucket, IsEntered
<1>7. \A n \in Positions : After(e, w[n]) = After(d, w[n])
  <2> SUFFICES ASSUME NEW n \in Positions PROVE After(e, w[n]) = After(d, w[n])
    OBVIOUS
  <2>1. w[n] = NoIndex \/ w[n] \in Used(d)
    BY DEF IsChain, InBucket
  <2> QED
    BY <1>0, <2>1 DEF After, IsEntered
<1>8. ASSUME NEW n \in 1 .. NSlots PROVE v[n] = After(e, v[n - 1])
  <2>1. n \in Positions /\ n - 1 \in Positions /\ n \in Nat /\ n > 0
    BY <1>0 DEF Positions
  <2>2. v[n] = w[n - 1]
    BY <1>3, <2>1
  <2>3. CASE n = 1
    <3>1. v[n - 1] = k /\ w[n - 1] = l.next
      BY <1>1, <1>3, <1>5, <2>3
    <3> QED
      BY <2>2, <3>1 DEF After, IsEntered
  <2>4. CASE n # 1
    <3>1. n - 1 # 0 /\ n - 1 \in 1 .. NSlots /\ (n - 1) - 1 \in Positions
      BY <1>0, <2>1, <2>4 DEF Positions
    <3>2. v[n - 1] = w[(n - 1) - 1]
      BY <1>3, <2>1, <3>1
    <3>3. w[n - 1] = After(d, w[(n - 1) - 1])
      BY <3>1 DEF IsChain, IsWalk
    <3> QED
      BY <1>7, <2>2, <3>1, <3>2, <3>3
  <2> QED
    BY <2>3, <2>4
<1>9. IsWalk(e, b, v)
  <2>1. v[0] = k /\ e.buckets[b] = k
    BY <1>3, <1>5, <1>b DEF IsEntered
  <2> QED
    BY <1>4, <1>8, <2>1 DEF IsWalk
<1>10. v[NSlots] = NoIndex
  <2>1. v[NSlots] = w[NSlots - 1]
    BY <1>0, <1>3, <1>5
  <2> QED
    BY <2>1, Room
<1>11. ASSUME NEW n \in Positions PROVE v[n] = NoIndex \/ v[n] \in InBucket(e, b)
  <2>1. n # 0 => w[n - 1] = NoIndex \/ w[n - 1] \in InBucket(d, b)
    BY <1>2 DEF IsChain
  <2> QED
    BY <1>3, <1>6, <2>1
<1>12. ASSUME NEW j \in InBucket(e, b) PROVE \E n \in Positions : v[n] = j
  <2>1. CASE j = k
    BY <1>3, <1>5, <2>1
  <2>2. CASE j # k
    <3>1. PICK m \in Positions : w[m] = j
      BY <1>6, <2>2 DEF IsChain
    <3>2. m # NSlots
      BY <1>0, <1>6, <2>2, <3>1 DEF IsChain, InBucket
    <3>3. m + 1 \in Positions /\ m + 1 # 0 /\ (m + 1) - 1 = m
      BY <1>0, <1>2, <3>2 DEF Positions
    <3>4. v[m + 1] = w[m]
      BY <1>3, <3>3
    <3> QED
      BY <3>1, <3>3, <3>4
  <2> QED
    BY <2>1, <2>2
<1>13. ASSUME NEW m \in Positions, NEW n \in Positions, v[m] = v[n], v[m] # NoIndex
       PROVE  m = n
  <2>1. \A i \in Positions : i # 0 => w[i - 1] # k
    BY <1>0, <1>2 DEF IsChain, InBucket
  <2>2. m = 0 <=> n = 0
    BY <1>3, <1>13, <2>1
  <2>3. CASE m # 0 /\ n # 0
    <3>1. w[m - 1] = w[n - 1] /\ w[m - 1] # NoIndex /\ m - 1 \in Positions /\ n - 1 \in Positions
      BY <1>2, <1>3, <1>13, <2>3
    <3>2. m - 1 = n - 1
      BY <3>1 DEF IsChain
    <3> QED
      BY <1>2, <3>2
  <2> QED
    BY <2>2, <2>3
<1> QED
  BY <1>9, <1>10, <1>11, <1>12, <1>13 DEF IsChain, v

\* The chains of the other buckets stay.
LEMMA EnteredOther ==
  ASSUME NEW d, TableOK(d), NEW k \in Slots \ Used(d), NEW l \in Link, NEW e, IsEntered(d, k, l, e),
         NEW c \in Buckets, c # Hash[l.id], NEW w, IsChain(d, c, w)
  PROVE  IsChain(e, c, w)
<1>0. NSlots \in Nat /\ NoIndex \notin Used(d) /\ NoIndex \notin Used(e)
  <2>1. d \in Tables /\ e \in Tables
    BY DEF TableOK, IsEntered
  <2> QED
    BY <2>1, UsedFacts, SlotFacts
<1>1. InBucket(e, c) = InBucket(d, c)
  BY DEF InBucket, IsEntered
<1>2. \A n \in Positions : After(e, w[n]) = After(d, w[n])
  <2> SUFFICES ASSUME NEW n \in Positions PROVE After(e, w[n]) = After(d, w[n])
    OBVIOUS
  <2>1. w[n] = NoIndex \/ w[n] \in Used(d)
    BY DEF IsChain, InBucket
  <2> QED
    BY <1>0, <2>1 DEF After, IsEntered
<1>3. \A n \in 1 .. NSlots : n - 1 \in Positions
  BY <1>0 DEF Positions
<1>4. e.buckets[c] = d.buckets[c]
  BY DEF IsEntered
<1>5. IsWalk(e, c, w)
  BY <1>2, <1>3, <1>4 DEF IsChain, IsWalk
<1> QED
  BY <1>1, <1>5 DEF IsChain

\* A new link in a free slot keeps the table sound.
LEMMA EnterOK ==
  ASSUME NEW d, TableOK(d), NEW k \in Slots \ Used(d), NEW id \in Ids, now \in 0 .. MaxNow,
         \A j \in Used(d) : d.links[j].id # id
  PROVE  LET e == Entered(d, k, id)
         IN  /\ TableOK(e)
             /\ Used(e) = Used(d) \cup {k}
             /\ \A j \in Used(d) : e.links[j] = d.links[j]
             /\ e.links[k].id = id /\ e.links[k].mac = Broadcast
<1> DEFINE b == Hash[id]
           l == [id |-> id, next |-> d.buckets[b], seen |-> now, mac |-> Broadcast]
<1>0. d \in Tables /\ k \in Slots /\ k \notin Used(d)
  BY DEF TableOK
<1>1. d.links \in [Slots -> Link \cup {NoLink}] /\ d.buckets \in [Buckets -> Index] /\ d.count \in Nat
  BY <1>0 DEF Tables
<1>2. b \in Buckets
  BY DEF Buckets
<1>3. l \in Link
  <2>1. d.buckets[b] \in Index
    BY <1>1, <1>2
  <2> QED
    BY <2>1 DEF Link, Index
<1>4. l.id = id /\ l.next = d.buckets[b] /\ l.mac = Broadcast
  OBVIOUS
<1>5. Entered(d, k, id) = [links |-> [d.links EXCEPT ![k] = l], buckets |-> [d.buckets EXCEPT ![b] = k],
                           count |-> d.count + 1]
  BY DEF Entered
<1> HIDE DEF l, b
<1>6. PICK e : e = [links |-> [d.links EXCEPT ![k] = l], buckets |-> [d.buckets EXCEPT ![b] = k],
                    count |-> d.count + 1]
  OBVIOUS
<1>7. e \in Tables
  <2>1. [d.links EXCEPT ![k] = l] \in [Slots -> Link \cup {NoLink}]
    BY <1>0, <1>1, <1>3
  <2>2. [d.buckets EXCEPT ![b] = k] \in [Buckets -> Index]
    BY <1>0, <1>1, <1>2 DEF Index
  <2>3. d.count + 1 \in Nat
    BY <1>1
  <2> QED
    BY <1>6, <2>1, <2>2, <2>3, TableOf
<1>8. \A j \in Slots : e.links[j] = IF j = k THEN l ELSE d.links[j]
  BY <1>1, <1>6
<1>9. \A c \in Buckets : e.buckets[c] = IF c = b THEN k ELSE d.buckets[c]
  BY <1>1, <1>6
<1>10. Used(e) = Used(d) \cup {k}
  BY <1>0, <1>3, <1>8, NoLinkFacts DEF Used
<1>11. IsEntered(d, k, l, e)
  <2>1. e.count = d.count + 1
    BY <1>6
  <2>2. \A j \in Used(d) : e.links[j] = d.links[j]
    BY <1>0, <1>8 DEF Used
  <2>3. e.links[k] = l
    BY <1>0, <1>8
  <2>4. b = Hash[l.id]
    BY <1>4 DEF b
  <2> QED
    BY <1>7, <1>9, <1>10, <2>1, <2>2, <2>3, <2>4 DEF IsEntered
<1>12. e.count = Cardinality(Used(e))
  <2>1. d.count = Cardinality(Used(d)) /\ IsFiniteSet(Used(d))
    BY UsedFinite DEF TableOK
  <2>2. Cardinality(Used(e)) = Cardinality(Used(d)) + 1
    BY <1>0, <1>10, <2>1, FS_AddElement
  <2> QED
    BY <1>11, <2>1, <2>2 DEF IsEntered
<1>13. \A i, j \in Used(e) : e.links[i].id = e.links[j].id => i = j
  BY <1>4, <1>10, <1>11 DEF IsEntered, TableOK
<1>14. ASSUME NEW c \in Buckets PROVE \E v \in [Positions -> Index] : IsChain(e, c, v)
  <2>0. PICK w \in [Positions -> Index] : IsChain(d, c, w)
    BY DEF TableOK
  <2>1. CASE c = Hash[l.id]
    <3>1. \E v : IsChain(e, c, v)
      BY <1>3, <1>4, <1>11, <2>0, <2>1, LongChain DEF b
    <3> QED
      BY <3>1 DEF IsChain, IsWalk
  <2>2. CASE c # Hash[l.id]
    BY <1>3, <1>11, <2>0, <2>2, EnteredOther
  <2> QED
    BY <2>1, <2>2
<1>15. TableOK(e)
  BY <1>7, <1>12, <1>13, <1>14 DEF TableOK
<1>16. e = Entered(d, k, id)
  BY <1>5, <1>6
<1> QED
  BY <1>4, <1>10, <1>11, <1>15, <1>16 DEF IsEntered

-----------------------------------------------------------------------------
(* Refreshing a link. *)

\* A refreshed link stays where it is, and the table sound.
LEMMA TouchOK ==
  ASSUME NEW d, TableOK(d), NEW k \in Used(d), NEW mac \in Nodes \cup {Broadcast}, NEW unicast \in BOOLEAN,
         now \in 0 .. MaxNow
  PROVE  LET t == Touched(d, k, mac, unicast)
         IN  /\ TableOK(t)
             /\ Used(t) = Used(d)
             /\ \A j \in Used(d) : j # k => t.links[j] = d.links[j]
             /\ t.links[k].id = d.links[k].id /\ t.links[k].seen = now
             /\ t.links[k].mac \in Nodes \cup {d.links[k].mac}
<1> DEFINE m == IF mac # Broadcast /\ (unicast \/ d.links[k].mac = Broadcast) THEN mac ELSE d.links[k].mac
           l == [[d.links[k] EXCEPT !.seen = now] EXCEPT !.mac = m]
<1>0. d \in Tables /\ k \in Slots /\ d.links[k] \in Link
  BY UsedFacts DEF TableOK
<1>1. d.links \in [Slots -> Link \cup {NoLink}] /\ d.buckets \in [Buckets -> Index] /\ d.count \in Nat
      /\ d = [links |-> d.links, buckets |-> d.buckets, count |-> d.count]
  BY <1>0 DEF Tables
<1>2. m \in Nodes \cup {d.links[k].mac} /\ m \in Nodes \cup {Broadcast}
  <2>1. d.links[k].mac \in Nodes \cup {Broadcast}
    BY <1>0 DEF Link
  <2> QED
    BY <2>1
<1>3. Touched(d, k, mac, unicast) = [links |-> [d.links EXCEPT ![k] = l], buckets |-> d.buckets, count |-> d.count]
  <2>1. PICK x : x = [d.links[k] EXCEPT !.seen = now]
    OBVIOUS
  <2>2. PICK y : y = [d EXCEPT !.links[k].seen = now]
    OBVIOUS
  <2>3. y = [links |-> [d.links EXCEPT ![k] = x], buckets |-> d.buckets, count |-> d.count]
    BY <1>1, <2>1, <2>2
  <2>4. Touched(d, k, mac, unicast) = [y EXCEPT !.links[k].mac = m]
    BY <2>2 DEF Touched
  <2>5. y.links[k] = x /\ x.mac = d.links[k].mac
    BY <1>0, <1>1, <2>1, <2>3 DEF Link
  <2>6. [y EXCEPT !.links[k].mac = m]
        = [links |-> [y.links EXCEPT ![k] = [y.links[k] EXCEPT !.mac = m]], buckets |-> y.buckets, count |-> y.count]
    BY <2>3
  <2>7. [[d.links EXCEPT ![k] = x] EXCEPT ![k] = [x EXCEPT !.mac = m]] = [d.links EXCEPT ![k] = [x EXCEPT !.mac = m]]
    BY <1>0, <1>1
  <2>8. y.links = [d.links EXCEPT ![k] = x] /\ y.buckets = d.buckets /\ y.count = d.count
    BY <2>3
  <2> QED
    BY <2>1, <2>4, <2>5, <2>6, <2>7, <2>8
<1>4. l \in Link /\ l.id = d.links[k].id /\ l.next = d.links[k].next /\ l.seen = now /\ l.mac = m
  BY <1>0, <1>2 DEF Link
<1> HIDE DEF l, m
<1>5. PICK t : t = [links |-> [d.links EXCEPT ![k] = l], buckets |-> d.buckets, count |-> d.count]
  OBVIOUS
<1>6. t \in Tables
  <2>1. [d.links EXCEPT ![k] = l] \in [Slots -> Link \cup {NoLink}]
    BY <1>0, <1>1, <1>4
  <2> QED
    BY <1>1, <1>5, <2>1, TableOf
<1>7. \A j \in Slots : t.links[j] = IF j = k THEN l ELSE d.links[j]
  BY <1>1, <1>5
<1>8. t.buckets = d.buckets /\ t.count = d.count
  BY <1>5
<1>9. Used(t) = Used(d)
  BY <1>0, <1>4, <1>7, NoLinkFacts DEF Used
<1>10. \A j \in Used(d) : t.links[j].id = d.links[j].id /\ t.links[j].next = d.links[j].next
                          /\ (j # k => t.links[j] = d.links[j])
  BY <1>4, <1>7 DEF Used
<1>11. ASSUME NEW c \in Buckets, NEW w, IsChain(d, c, w) PROVE IsChain(t, c, w)
  <2>1. InBucket(t, c) = InBucket(d, c)
    BY <1>9, <1>10 DEF InBucket
  <2>2. \A i : After(t, i) = After(d, i)
    BY <1>9, <1>10 DEF After
  <2>3. IsWalk(t, c, w)
    BY <1>8, <1>11, <2>2 DEF IsChain, IsWalk
  <2> QED
    BY <1>11, <2>1, <2>3 DEF IsChain
<1>12. TableOK(t)
  <2>1. \A c \in Buckets : \E w \in [Positions -> Index] : IsChain(t, c, w)
    BY <1>11 DEF TableOK
  <2>2. \A i, j \in Used(t) : t.links[i].id = t.links[j].id => i = j
    BY <1>9, <1>10 DEF TableOK
  <2>3. t.count = Cardinality(Used(t))
    BY <1>8, <1>9 DEF TableOK
  <2> QED
    BY <1>6, <2>1, <2>2, <2>3 DEF TableOK
<1>13. t.links[k] = l
  BY <1>0, <1>7
<1> QED
  BY <1>2, <1>3, <1>4, <1>5, <1>9, <1>10, <1>12, <1>13

-----------------------------------------------------------------------------
(* rns_link_db_package_register. *)

\* The packet's link is known, and refreshed.
IsRefresh(d, id, r) ==
  \E k \in Used(d) :
    /\ d.links[k].id = id /\ r.links[k].id = id /\ r.links[k].seen = now
    /\ r.links[k].mac \in Nodes \cup {d.links[k].mac}
    /\ Used(r) = Used(d)
    /\ \A j \in Used(d) : j # k => r.links[j] = d.links[j]

\* It is new, and enters a free slot.
IsEnter(d, id, r) ==
  \E k \in Slots \ Used(d) :
    /\ \A j \in Used(d) : d.links[j].id # id
    /\ d.count < NSlots
    /\ r.links[k].id = id /\ r.links[k].seen = now
    /\ r.links[k].mac \in Nodes \cup {Broadcast}
    /\ Used(r) = Used(d) \cup {k}
    /\ \A j \in Used(d) : r.links[j] = d.links[j]

\* It is closed.
IsClose(d, id, r) ==
  \E k \in Used(d) :
    /\ d.links[k].id = id
    /\ Used(r) = Used(d) \ {k}
    /\ \A j \in Used(r) : SameLink(r.links[j], d.links[j])

\* A packet is registered in one of four ways, and the table stays sound.
LEMMA RegisterIs ==
  ASSUME NEW d, TableOK(d), NEW p \in Packets, NEW mac \in Nodes \cup {Broadcast}, NEW unicast \in BOOLEAN,
         now \in 0 .. MaxNow, NEW r \in package_register(d, p, mac, unicast)
  PROVE  /\ TableOK(r)
         /\ r = d \/ IsRefresh(d, p.id, r) \/ IsEnter(d, p.id, r) \/ IsClose(d, p.id, r)
<1>0. p.id \in Ids /\ p.close \in BOOLEAN /\ d \in Tables
  BY DEF Packets, TableOK
<1>1. PICK k : k = find_index_by_id(d, p.id)
  OBVIOUS
<1>2. PICK f : f = find_free_slot(d)
  OBVIOUS
<1>3. r \in IF p.close THEN {IF k = NoIndex THEN d ELSE remove_index(d, k)}
            ELSE IF k # NoIndex THEN {Touched(d, k, mac, unicast)}
            ELSE {d} \cup {Touched(Entered(d, j, p.id), j, mac, unicast) : j \in {f} \ {NoIndex}}
  BY <1>1, <1>2 DEF package_register
<1>4. \/ k = NoIndex /\ \A j \in Used(d) : d.links[j].id # p.id
      \/ k \in Used(d) /\ d.links[k].id = p.id /\ k # NoIndex
  BY <1>0, <1>1, FindIs
<1>5. CASE r = d
  BY <1>5
<1>6. CASE k \in Used(d) /\ r = remove_index(d, k)
  <2>1. d.links[k].id = p.id
    BY <1>0, <1>4, <1>6, UsedFacts
  <2>2. TableOK(r) /\ Used(r) = Used(d) \ {k} /\ \A j \in Used(r) : SameLink(r.links[j], d.links[j])
    BY <1>6, RemoveOK
  <2> QED
    BY <1>6, <2>1, <2>2 DEF IsClose
<1>7. CASE k \in Used(d) /\ r = Touched(d, k, mac, unicast)
  <2>1. d.links[k].id = p.id
    BY <1>0, <1>4, <1>7, UsedFacts
  <2>2. /\ TableOK(r) /\ Used(r) = Used(d) /\ \A j \in Used(d) : j # k => r.links[j] = d.links[j]
        /\ r.links[k].id = d.links[k].id /\ r.links[k].seen = now
        /\ r.links[k].mac \in Nodes \cup {d.links[k].mac}
    BY <1>7, TouchOK
  <2> QED
    BY <1>7, <2>1, <2>2 DEF IsRefresh
<1>8. CASE k = NoIndex /\ f # NoIndex /\ r = Touched(Entered(d, f, p.id), f, mac, unicast)
  <2>1. f \in Slots \ Used(d) /\ d.count < NSlots
    BY <1>0, <1>2, <1>8, FreeIs
  <2>2. \A j \in Used(d) : d.links[j].id # p.id
    BY <1>0, <1>4, <1>8, UsedFacts
  <2>3. PICK e : e = Entered(d, f, p.id)
    OBVIOUS
  <2>4. /\ TableOK(e) /\ Used(e) = Used(d) \cup {f} /\ \A j \in Used(d) : e.links[j] = d.links[j]
        /\ e.links[f].id = p.id /\ e.links[f].mac = Broadcast
    BY <1>0, <2>1, <2>2, <2>3, EnterOK
  <2>5. f \in Used(e) /\ r = Touched(e, f, mac, unicast)
    BY <1>8, <2>3, <2>4
  <2>6. /\ TableOK(r) /\ Used(r) = Used(e) /\ \A j \in Used(e) : j # f => r.links[j] = e.links[j]
        /\ r.links[f].id = e.links[f].id /\ r.links[f].seen = now
        /\ r.links[f].mac \in Nodes \cup {e.links[f].mac}
    BY <2>4, <2>5, TouchOK
  <2>7. \A j \in Used(d) : r.links[j] = d.links[j]
    BY <2>1, <2>4, <2>6
  <2> QED
    BY <2>1, <2>2, <2>4, <2>6, <2>7 DEF IsEnter
<1> QED
  BY <1>0, <1>3, <1>4, <1>5, <1>6, <1>7, <1>8

-----------------------------------------------------------------------------
(* rns_link_db_sweep_expired. *)

\* s is the loop's run over the first N slots.
IsSweep(d, t, N, s) ==
  s = [n \in 0 .. N |-> IF n = 0 THEN d ELSE SweepSlot(s[n - 1], n - 1, t)]

\* The recursive definition of the loop has a solution.
LEMMA SweepExists ==
  ASSUME NEW d, NEW t
  PROVE  \A N \in Nat : \E s : IsSweep(d, t, N, s)
<1> DEFINE T == {N \in Nat : ~ \E s : IsSweep(d, t, N, s)}
<1> SUFFICES ASSUME T # {} PROVE FALSE
  OBVIOUS
<1>1. T \in SUBSET Nat
  OBVIOUS
<1>2. PICK N \in T : \A y \in T : N <= y
  BY <1>1, LeastOf
<1>3. N \in Nat /\ ~ \E s : IsSweep(d, t, N, s)
  OBVIOUS
<1>4. CASE N = 0
  <2> DEFINE s == [n \in 0 .. 0 |-> d]
  <2>1. IsSweep(d, t, 0, s)
    <3>1. \A n \in 0 .. 0 : n = 0
      OBVIOUS
    <3> QED
      BY <3>1 DEF IsSweep
  <2> QED
    BY <1>3, <1>4, <2>1
<1>5. CASE N # 0
  <2>1. N - 1 \in Nat /\ N - 1 \notin T
    BY <1>2, <1>3, <1>5
  <2>2. PICK s : IsSweep(d, t, N - 1, s)
    BY <2>1
  <2> DEFINE z == [n \in 0 .. N |-> IF n < N THEN s[n] ELSE SweepSlot(s[N - 1], N - 1, t)]
  <2>3. \A n \in 0 .. N : z[n] = IF n = 0 THEN d ELSE SweepSlot(z[n - 1], n - 1, t)
    <3> SUFFICES ASSUME NEW n \in 0 .. N PROVE z[n] = IF n = 0 THEN d ELSE SweepSlot(z[n - 1], n - 1, t)
      OBVIOUS
    <3>0. \A m \in 0 .. N - 1 : s[m] = IF m = 0 THEN d ELSE SweepSlot(s[m - 1], m - 1, t)
      BY <2>2 DEF IsSweep
    <3>1. \A m \in 0 .. N : z[m] = IF m < N THEN s[m] ELSE SweepSlot(s[N - 1], N - 1, t)
      OBVIOUS
    <3> HIDE DEF z
    <3>2. CASE n = 0
      <4>1. 0 \in 0 .. N - 1 /\ 0 < N /\ 0 \in 0 .. N
        BY <1>3, <1>5
      <4> QED
        BY <3>0, <3>1, <3>2, <4>1
    <3>3. CASE n # 0 /\ n < N
      <4>1. n \in 0 .. N - 1 /\ n - 1 \in 0 .. N /\ n - 1 < N
        BY <1>3, <3>3
      <4> QED
        BY <3>0, <3>1, <3>3, <4>1
    <3>4. CASE n # 0 /\ ~ (n < N)
      <4>1. n = N /\ n - 1 \in 0 .. N /\ n - 1 < N
        BY <1>3, <3>4
      <4> QED
        BY <3>1, <3>4, <4>1
    <3> QED
      BY <3>2, <3>3, <3>4
  <2>4. z = [n \in 0 .. N |-> z[n]]
    OBVIOUS
  <2> HIDE DEF z
  <2>5. IsSweep(d, t, N, z)
    BY <2>3, <2>4 DEF IsSweep
  <2> QED
    BY <1>3, <2>5
<1> QED
  BY <1>4, <1>5

\* Swept is the loop.
LEMMA SweptIs ==
  ASSUME NEW d, NEW t
  PROVE  IsSweep(d, t, NSlots, Swept(d, t))
<1> DEFINE P(s) == IsSweep(d, t, NSlots, s)
<1>1. \E s : P(s)
  BY SlotFacts, SweepExists
<1>2. Swept(d, t) = CHOOSE s : P(s)
  BY DEF Swept, IsSweep
<1> HIDE DEF P
<1>3. P(Swept(d, t))
  BY <1>1, <1>2
<1> QED
  BY <1>3 DEF P

\* A sweep removes the expired links and nothing else.
LEMMA SweepOK ==
  ASSUME NEW d, TableOK(d), NEW t
  PROVE  LET r == Swept(d, t)[NSlots]
         IN  /\ TableOK(r)
             /\ Used(r) = {k \in Used(d) : ~ Expired(d.links[k], t)}
             /\ \A j \in Used(r) : SameLink(r.links[j], d.links[j])
<1> DEFINE Left(n) == {k \in Used(d) : k >= n \/ ~ Expired(d.links[k], t)}
           OK(n, r) == /\ TableOK(r) /\ Used(r) = Left(n)
                       /\ \A j \in Used(r) : SameLink(r.links[j], d.links[j])
<1>0. NSlots \in Nat /\ d \in Tables /\ \A k \in Used(d) : k \in Nat /\ k < NSlots
  BY SlotFacts, UsedFacts DEF TableOK
<1>1. PICK s : s = Swept(d, t)
  OBVIOUS
<1>2. \A n \in 0 .. NSlots : s[n] = IF n = 0 THEN d ELSE SweepSlot(s[n - 1], n - 1, t)
  <2>1. IsSweep(d, t, NSlots, s)
    BY <1>1, SweptIs
  <2> QED
    BY <2>1 DEF IsSweep
<1>3. OK(0, d)
  <2>1. Left(0) = Used(d)
    BY <1>0
  <2>2. \A j \in Used(d) : SameLink(d.links[j], d.links[j])
    BY DEF SameLink
  <2> QED
    BY <2>1, <2>2
<1>4. ASSUME NEW n \in Nat, n < NSlots, NEW e, OK(n, e) PROVE OK(n + 1, SweepSlot(e, n, t))
  <2>1. n \in Used(e) => (Expired(e.links[n], t) <=> Expired(d.links[n], t))
    BY <1>4 DEF Expired, SameLink
  <2>2. CASE n \in Used(e) /\ Expired(e.links[n], t)
    <3>1. PICK r : r = remove_index(e, n)
      OBVIOUS
    <3>2. SweepSlot(e, n, t) = r
      BY <2>2, <3>1 DEF SweepSlot
    <3>3. TableOK(r) /\ Used(r) = Used(e) \ {n} /\ \A j \in Used(r) : SameLink(r.links[j], e.links[j])
      BY <1>4, <2>2, <3>1, RemoveOK
    <3>4. Left(n) \ {n} = Left(n + 1)
      <4>1. Expired(d.links[n], t)
        BY <2>1, <2>2
      <4>2. \A k \in Used(d) : (k >= n /\ k # n) <=> k >= n + 1
        BY <1>0
      <4> QED
        BY <1>0, <4>1, <4>2
    <3>5. \A j \in Used(r) : SameLink(r.links[j], d.links[j])
      BY <1>4, <3>3 DEF SameLink
    <3> QED
      BY <1>4, <3>2, <3>3, <3>4, <3>5
  <2>3. CASE ~ (n \in Used(e) /\ Expired(e.links[n], t))
    <3>1. SweepSlot(e, n, t) = e
      BY <2>3 DEF SweepSlot
    <3>2. Left(n) = Left(n + 1)
      <4>1. \A k \in Used(d) : k >= n /\ ~ (k >= n + 1) => k = n
        BY <1>0
      <4>2. n \in Used(d) => n \in Left(n)
        OBVIOUS
      <4>3. n \in Used(d) => ~ Expired(d.links[n], t)
        BY <1>4, <2>1, <2>3, <4>2
      <4>4. \A k \in Used(d) : k >= n + 1 => k >= n
        BY <1>0
      <4> QED
        BY <4>1, <4>3, <4>4
    <3> QED
      BY <1>4, <3>1, <3>2
  <2> QED
    BY <2>2, <2>3
<1> HIDE DEF OK
<1>5. \A n \in 0 .. NSlots : OK(n, s[n])
  <2> DEFINE T == {n \in 0 .. NSlots : ~ OK(n, s[n])}
  <2> SUFFICES ASSUME T # {} PROVE FALSE
    OBVIOUS
  <2>1. T \in SUBSET Nat
    BY <1>0
  <2>2. PICK x \in T : \A y \in T : x <= y
    BY <2>1, LeastOf
  <2>3. x \in 0 .. NSlots /\ ~ OK(x, s[x])
    OBVIOUS
  <2>4. x # 0
    BY <1>0, <1>2, <1>3, <2>3
  <2>5. x - 1 \in Nat /\ x - 1 < NSlots /\ (x - 1) + 1 = x /\ x - 1 \in 0 .. NSlots /\ ~ (x <= x - 1)
    BY <1>0, <2>3, <2>4
  <2>6. OK(x - 1, s[x - 1])
    BY <2>2, <2>5
  <2>7. OK(x, SweepSlot(s[x - 1], x - 1, t))
    BY <1>4, <2>5, <2>6
  <2>8. s[x] = SweepSlot(s[x - 1], x - 1, t)
    BY <1>2, <2>3, <2>4
  <2> QED
    BY <2>3, <2>7, <2>8
<1>6. OK(NSlots, s[NSlots])
  BY <1>0, <1>5
<1>7. Left(NSlots) = {k \in Used(d) : ~ Expired(d.links[k], t)}
  BY <1>0
<1> QED
  BY <1>1, <1>6, <1>7 DEF OK

-----------------------------------------------------------------------------
(* The invariant. *)

\* The inductive invariant: the table is sound; a sweep's clock is not ahead; the
\* packet in hand is one.
LinkInv ==
  /\ TypeOK
  /\ TableOK(db)
  /\ sweep <= now
  /\ txpc # "idle" => tx \in Packets

\* A sound table has the type that TypeOK asks for.
LEMMA TableType ==
  ASSUME NEW d, TableOK(d)
  PROVE  /\ d.links \in [Slots -> Link \cup {NoLink}]
         /\ d.buckets \in [Buckets -> Slots \cup {NoIndex}]
         /\ d.count = Cardinality(Used(d))
BY DEF TableOK, Tables, Index

\* The empty table is sound.
LEMMA InitTable == Init => TableOK(db) /\ Used(db) = {}
<1> SUFFICES ASSUME Init PROVE TableOK(db) /\ Used(db) = {}
  OBVIOUS
<1>1. db = [links |-> [k \in Slots |-> NoLink], buckets |-> [b \in Buckets |-> NoIndex], count |-> 0]
  BY DEF Init
<1>2. Used(db) = {}
  BY <1>1 DEF Used
<1>3. db \in Tables
  <2>1. [k \in Slots |-> NoLink] \in [Slots -> Link \cup {NoLink}]
    OBVIOUS
  <2>2. [b \in Buckets |-> NoIndex] \in [Buckets -> Index]
    BY DEF Index
  <2> QED
    BY <1>1, <2>1, <2>2, TableOf
<1>4. db.count = Cardinality(Used(db))
  BY <1>1, <1>2, FS_EmptySet
<1>5. ASSUME NEW b \in Buckets PROVE \E w \in [Positions -> Index] : IsChain(db, b, w)
  <2> DEFINE w == [n \in Positions |-> NoIndex]
  <2>1. w \in [Positions -> Index] /\ \A n \in Positions : w[n] = NoIndex
    BY DEF Index
  <2>2. InBucket(db, b) = {} /\ \A i : After(db, i) = NoIndex
    BY <1>2 DEF InBucket, After
  <2>3. db.buckets[b] = NoIndex
    BY <1>1
  <2>4. 0 \in Positions /\ NSlots \in Positions /\ \A n \in 1 .. NSlots : n \in Positions
    BY SlotFacts DEF Positions
  <2> HIDE DEF w
  <2>5. IsWalk(db, b, w)
    BY <2>1, <2>2, <2>3, <2>4 DEF IsWalk
  <2>6. IsChain(db, b, w)
    BY <2>1, <2>2, <2>4, <2>5 DEF IsChain
  <2> QED
    BY <2>1, <2>6
<1> QED
  BY <1>2, <1>3, <1>4, <1>5 DEF TableOK

\* The initial state satisfies the invariant.
LEMMA LinkInit == Init => LinkInv
<1> SUFFICES ASSUME Init PROVE LinkInv
  OBVIOUS
<1>1. TableOK(db)
  BY InitTable
<1>2. now \in 0 .. MaxNow /\ sweep \in -1 .. MaxNow /\ sweep <= now
  BY SlotFacts DEF Init
<1>3. tx \in Packets \cup {NoPacket} /\ txpc \in {"idle", "lookup", "send", "held"}
      /\ dest \in Nodes \cup {Broadcast} /\ txpc = "idle"
  BY DEF Init
<1>4. TypeOK
  BY <1>1, <1>2, <1>3, TableType DEF TypeOK
<1> QED
  BY <1>1, <1>2, <1>3, <1>4 DEF LinkInv

\* What the invariant gives.
LEMMA InvFacts ==
  ASSUME LinkInv
  PROVE  /\ TableOK(db) /\ now \in 0 .. MaxNow /\ sweep \in -1 .. MaxNow /\ sweep <= now
         /\ tx \in Packets \cup {NoPacket} /\ txpc \in {"idle", "lookup", "send", "held"}
         /\ dest \in Nodes \cup {Broadcast}
         /\ txpc # "idle" => tx \in Packets
BY DEF LinkInv, TypeOK

\* The parts of the invariant of the next state.
LEMMA InvOf ==
  ASSUME TableOK(db'), now' \in 0 .. MaxNow, sweep' \in -1 .. MaxNow, sweep' <= now',
         tx' \in Packets \cup {NoPacket}, txpc' \in {"idle", "lookup", "send", "held"},
         dest' \in Nodes \cup {Broadcast}, txpc' # "idle" => tx' \in Packets
  PROVE  LinkInv'
<1>1. /\ db'.links \in [Slots -> Link \cup {NoLink}]
      /\ db'.buckets \in [Buckets -> Slots \cup {NoIndex}]
      /\ db'.count = Cardinality(Used(db'))
  BY TableType
<1>2. TypeOK'
  BY <1>1 DEF TypeOK
<1>3. TableOK(db)'
  OBVIOUS
<1> QED
  BY <1>2, <1>3 DEF LinkInv

\* Every step keeps the invariant.
LEMMA LinkStep == LinkInv /\ [Next]_vars => LinkInv'
<1> SUFFICES ASSUME LinkInv, [Next]_vars PROVE LinkInv'
  OBVIOUS
<1>0. /\ TableOK(db) /\ now \in 0 .. MaxNow /\ sweep \in -1 .. MaxNow /\ sweep <= now
      /\ tx \in Packets \cup {NoPacket} /\ txpc \in {"idle", "lookup", "send", "held"}
      /\ dest \in Nodes \cup {Broadcast}
      /\ txpc # "idle" => tx \in Packets
  BY InvFacts
<1>1. ASSUME NEW p \in Packets, tcp_to_rf(p) PROVE LinkInv'
  <2>1. TableOK(db')
    BY <1>0, <1>1, RegisterIs DEF tcp_to_rf
  <2>2. now' = now /\ sweep' = sweep /\ dest' = dest /\ tx' = p /\ txpc' = "lookup"
    BY <1>1 DEF tcp_to_rf
  <2> QED
    BY <1>0, <2>1, <2>2, InvOf
<1>2. ASSUME NEW p \in Packets, NEW m \in Nodes, NEW u \in BOOLEAN, deliver_rns_frame(p, m, u) PROVE LinkInv'
  <2>1. TableOK(db')
    BY <1>0, <1>2, RegisterIs DEF deliver_rns_frame
  <2>2. now' = now /\ sweep' = sweep /\ dest' = dest /\ tx' = tx /\ txpc' = txpc
    BY <1>2 DEF deliver_rns_frame
  <2> QED
    BY <1>0, <2>1, <2>2, InvOf
<1>3. CASE tcp_to_rf_lookup
  <2>1. db' = db /\ now' = now /\ sweep' = sweep /\ tx' = tx /\ txpc' = "send" /\ tx \in Packets
    BY <1>0, <1>3 DEF tcp_to_rf_lookup
  <2>2. PICK k : k = find_index_by_id(db, tx.id)
    OBVIOUS
  <2>3. tx.id \in Ids
    BY <2>1 DEF Packets
  <2>4. k = NoIndex \/ (k \in Used(db) /\ db.links[k].id = tx.id)
    BY <1>0, <2>2, <2>3, FindIs
  <2>5. dest' = IF k = NoIndex THEN Broadcast ELSE db.links[k].mac
    BY <1>3, <2>2 DEF tcp_to_rf_lookup
  <2>6. k \in Used(db) => db.links[k] \in Link
    BY <1>0, UsedFacts DEF TableOK
  <2>7. dest' \in Nodes \cup {Broadcast}
    BY <2>4, <2>5, <2>6 DEF Link
  <2> QED
    BY <1>0, <2>1, <2>7, InvOf
<1>4. CASE tcp_to_rf_send
  <2>1. db' = db /\ now' = now /\ sweep' = sweep /\ dest' = Broadcast
    BY <1>4 DEF tcp_to_rf_send
  <2>2. (txpc' = "held" /\ tx' = tx /\ tx \in Packets) \/ (txpc' = "idle" /\ tx' = NoPacket)
    BY <1>0, <1>4 DEF tcp_to_rf_send
  <2> QED
    BY <1>0, <2>1, <2>2, InvOf
<1>5. CASE session_reset
  <2>1. db' = db /\ now' = now /\ sweep' = sweep /\ dest' = dest /\ txpc' = "idle" /\ tx' = NoPacket
    BY <1>5 DEF session_reset
  <2> QED
    BY <1>0, <2>1, InvOf
<1>6. CASE SweepStart
  <2>1. db' = db /\ now' = now /\ sweep' = now /\ dest' = dest /\ txpc' = txpc /\ tx' = tx
    BY <1>6 DEF SweepStart
  <2>2. sweep' \in -1 .. MaxNow /\ sweep' <= now'
    BY <1>0, <2>1
  <2> QED
    BY <1>0, <2>1, <2>2, InvOf
<1>7. CASE SweepRun
  <2>1. db' = Swept(db, sweep)[NSlots] /\ now' = now /\ sweep' = -1 /\ dest' = dest /\ txpc' = txpc /\ tx' = tx
    BY <1>7 DEF SweepRun
  <2>2. TableOK(db')
    BY <1>0, <2>1, SweepOK
  <2>3. sweep' \in -1 .. MaxNow /\ sweep' <= now'
    BY <1>0, <2>1, SlotFacts
  <2> QED
    BY <1>0, <2>1, <2>2, <2>3, InvOf
<1>8. CASE Tick
  <2>1. db' = db /\ now' = now + 1 /\ now < MaxNow /\ sweep' = sweep /\ dest' = dest /\ txpc' = txpc /\ tx' = tx
    BY <1>8 DEF Tick
  <2>2. now' \in 0 .. MaxNow /\ sweep' <= now'
    BY <1>0, <2>1, SlotFacts
  <2> QED
    BY <1>0, <2>1, <2>2, InvOf
<1>9. CASE UNCHANGED vars
  <2>1. db' = db /\ now' = now /\ sweep' = sweep /\ dest' = dest /\ txpc' = txpc /\ tx' = tx
    BY <1>9 DEF vars
  <2> QED
    BY <1>0, <2>1, InvOf
<1> QED
  BY <1>1, <1>2, <1>3, <1>4, <1>5, <1>6, <1>7, <1>8, <1>9 DEF Next

\* The table of rns/link_db.c stays sound in every behaviour: the three tasks may
\* register, close and sweep links in any order.
THEOREM LinkInvariance == Spec => []LinkInv
<1>1. Init => LinkInv
  BY LinkInit
<1>2. LinkInv /\ [Next]_vars => LinkInv'
  BY LinkStep
<1> QED
  BY <1>1, <1>2, PTL DEF Spec

\* Type correctness, and links_count is the number of slots in use.
THEOREM LinkTypeCorrect == Spec => []TypeOK
<1>1. LinkInv => TypeOK
  BY DEF LinkInv
<1> QED
  BY <1>1, LinkInvariance, PTL

\* The chains of a sound table are what ChainsExact says of it.
LEMMA ChainsOf == TableOK(db) => ChainsExact
<1> SUFFICES ASSUME TableOK(db), NEW b \in Buckets
             PROVE  LET w   == Walk(db, b)
                        met == {n \in 0 .. NSlots : w[n] # NoIndex}
                    IN  /\ w[NSlots] = NoIndex
                        /\ {w[n] : n \in met} = {k \in Used(db) : Hash[db.links[k].id] = b}
                        /\ \A m, n \in met : w[m] = w[n] => m = n
  BY DEF ChainsExact
<1>1. PICK w \in [Positions -> Index] : IsChain(db, b, w)
  BY DEF TableOK
<1>2. Walk(db, b) = w
  BY <1>1, WalkIs DEF IsChain
<1> DEFINE met == {n \in 0 .. NSlots : w[n] # NoIndex}
<1>3. \A n \in met : n \in Positions /\ w[n] # NoIndex
  BY DEF Positions
<1>4. w[NSlots] = NoIndex
  BY <1>1 DEF IsChain
<1>5. \A m, n \in met : w[m] = w[n] => m = n
  BY <1>1, <1>3 DEF IsChain
<1>6. {w[n] : n \in met} = InBucket(db, b)
  <2>1. \A n \in met : w[n] \in InBucket(db, b)
    BY <1>1, <1>3 DEF IsChain
  <2>2. ASSUME NEW k \in InBucket(db, b) PROVE \E n \in met : w[n] = k
    <3>1. PICK n \in Positions : w[n] = k
      BY <1>1 DEF IsChain
    <3>2. k # NoIndex
      BY UsedFacts DEF TableOK, InBucket
    <3> QED
      BY <3>1, <3>2 DEF Positions
  <2> QED
    BY <2>1, <2>2
<1> QED
  BY <1>2, <1>4, <1>5, <1>6 DEF InBucket

\* Every chain ends, and meets each link of its bucket once and no other slot.
THEOREM ChainsExactCorrect == Spec => []ChainsExact
<1>1. LinkInv => ChainsExact
  BY ChainsOf DEF LinkInv
<1> QED
  BY <1>1, LinkInvariance, PTL

-----------------------------------------------------------------------------
(* The sweep. *)

\* A step that ends a sweep removes only links that are idle by now.
LEMMA ActiveStep ==
  ASSUME LinkInv, Next, sweep # -1, sweep' = -1, NEW k \in Used(db)
  PROVE  \/ \E j \in Used(db') : db'.links[j].id = db.links[k].id
         \/ now - db.links[k].seen > Timeout
<1>0. TableOK(db) /\ now \in 0 .. MaxNow /\ sweep \in -1 .. MaxNow /\ sweep <= now
  BY InvFacts
<1>1. SweepRun
  <2>1. ~ SweepStart
    BY DEF SweepStart
  <2>2. ASSUME sweep' = sweep PROVE FALSE
    BY <2>2
  <2> QED
    BY <2>1, <2>2 DEF Next, tcp_to_rf, deliver_rns_frame, tcp_to_rf_lookup, tcp_to_rf_send, session_reset, Tick
<1>2. db' = Swept(db, sweep)[NSlots]
  BY <1>1 DEF SweepRun
<1>3. /\ Used(db') = {i \in Used(db) : ~ Expired(db.links[i], sweep)}
      /\ \A j \in Used(db') : SameLink(db'.links[j], db.links[j])
  BY <1>0, <1>2, SweepOK
<1>4. CASE ~ Expired(db.links[k], sweep)
  <2>1. k \in Used(db')
    BY <1>3, <1>4
  <2>2. db'.links[k].id = db.links[k].id
    BY <1>3, <2>1 DEF SameLink
  <2> QED
    BY <2>1, <2>2
<1>5. CASE Expired(db.links[k], sweep)
  <2>1. db.links[k].seen \in 0 .. MaxNow
    <3>1. db.links[k] \in Link
      BY <1>0, UsedFacts DEF TableOK
    <3> QED
      BY <3>1 DEF Link
  <2>2. sweep - db.links[k].seen > Timeout
    BY <1>5 DEF Expired
  <2> QED
    BY <1>0, <2>1, <2>2, SlotFacts
<1> QED
  BY <1>4, <1>5

\* A sweep that judges by a clock it read before it waited for the mutex never
\* removes a link that was used within the timeout.
THEOREM ActiveKeptCorrect == Spec => ActiveKept
<1>1. LinkInv /\ [Next]_vars =>
        [sweep # -1 /\ sweep' = -1 =>
           \A k \in Used(db) :
             \/ \E j \in Used(db') : db'.links[j].id = db.links[k].id
             \/ now - db.links[k].seen > Timeout]_vars
  BY ActiveStep
<1> QED
  BY <1>1, LinkInvariance, PTL DEF Spec, ActiveKept

-----------------------------------------------------------------------------
(* The table by id. *)

\* The ids in use.
IdsIn(d) == {d.links[k].id : k \in Used(d)}

\* What table d stands for.
ById(d) ==
  [id \in IdsIn(d) |-> LET l == d.links[CHOOSE k \in Used(d) : d.links[k].id = id]
                       IN  [mac |-> l.mac, seen |-> l.seen]]

\* The entry of a link in use is its peer and its time.
LEMMA EntryIs ==
  ASSUME NEW d, TableOK(d)
  PROVE  /\ DOMAIN ById(d) = IdsIn(d)
         /\ \A k \in Used(d) : /\ d.links[k].id \in IdsIn(d)
                               /\ ById(d)[d.links[k].id] = [mac |-> d.links[k].mac, seen |-> d.links[k].seen]
         /\ \A id \in IdsIn(d) : \E k \in Used(d) : d.links[k].id = id
<1>1. DOMAIN ById(d) = IdsIn(d)
  BY DEF ById
<1>2. \A k \in Used(d) : d.links[k].id \in IdsIn(d)
  BY DEF IdsIn
<1>3. ASSUME NEW k \in Used(d)
      PROVE  ById(d)[d.links[k].id] = [mac |-> d.links[k].mac, seen |-> d.links[k].seen]
  <2> DEFINE c == CHOOSE j \in Used(d) : d.links[j].id = d.links[k].id
  <2>1. c \in Used(d) /\ d.links[c].id = d.links[k].id
    OBVIOUS
  <2> HIDE DEF c
  <2>2. c = k
    BY <2>1 DEF TableOK
  <2> QED
    BY <1>2, <2>2 DEF ById, c
<1> QED
  BY <1>1, <1>2, <1>3 DEF IdsIn

\* Table r is table d with a fresh entry for id.
HasPut(d, id, m, r) ==
  ById(r) = [x \in IdsIn(d) \cup {id} |-> IF x = id THEN [mac |-> m, seen |-> now] ELSE ById(d)[x]]

\* A refreshed link has its entry replaced.
LEMMA RefreshEntry ==
  ASSUME NEW d, TableOK(d), NEW r, TableOK(r), NEW id, IsRefresh(d, id, r)
  PROVE  /\ id \in IdsIn(d)
         /\ \E m \in Nodes \cup {ById(d)[id].mac} :
              HasPut(d, id, m, r)
<1>1. PICK k \in Used(d) :
        /\ d.links[k].id = id /\ r.links[k].id = id /\ r.links[k].seen = now
        /\ r.links[k].mac \in Nodes \cup {d.links[k].mac}
        /\ Used(r) = Used(d)
        /\ \A j \in Used(d) : j # k => r.links[j] = d.links[j]
  BY DEF IsRefresh
<1>2. PICK m : m = r.links[k].mac
  OBVIOUS
<1>3. id \in IdsIn(d) /\ m \in Nodes \cup {ById(d)[id].mac}
  <2>1. id \in IdsIn(d) /\ ById(d)[id] = [mac |-> d.links[k].mac, seen |-> d.links[k].seen]
    BY <1>1, EntryIs
  <2>2. ById(d)[id].mac = d.links[k].mac
    BY <2>1
  <2> QED
    BY <1>1, <1>2, <2>1, <2>2
<1>4. \A j \in Used(d) : r.links[j].id = d.links[j].id
  BY <1>1
<1>5. IdsIn(r) = IdsIn(d) \cup {id}
  BY <1>1, <1>3, <1>4 DEF IdsIn
<1>6. ASSUME NEW x \in IdsIn(r)
      PROVE  ById(r)[x] = IF x = id THEN [mac |-> m, seen |-> now] ELSE ById(d)[x]
  <2>1. PICK j \in Used(r) : r.links[j].id = x
    BY EntryIs
  <2>2. ById(r)[x] = [mac |-> r.links[j].mac, seen |-> r.links[j].seen]
    BY <2>1, EntryIs
  <2>3. CASE x = id
    <3>1. j = k
      BY <1>1, <2>1, <2>3 DEF TableOK
    <3> QED
      BY <1>1, <1>2, <2>2, <2>3, <3>1
  <2>4. CASE x # id
    <3>1. j # k /\ r.links[j] = d.links[j] /\ j \in Used(d)
      BY <1>1, <2>1, <2>4
    <3>2. ById(d)[x] = [mac |-> d.links[j].mac, seen |-> d.links[j].seen]
      BY <2>1, <3>1, EntryIs
    <3> QED
      BY <2>2, <2>4, <3>1, <3>2
  <2> QED
    BY <2>3, <2>4
<1>7. ById(r) = [x \in IdsIn(r) |-> ById(r)[x]]
  BY DEF ById
<1>8. HasPut(d, id, m, r)
  BY <1>5, <1>6, <1>7 DEF HasPut
<1> QED
  BY <1>3, <1>8

\* A new link adds its entry, and there was room for it.
LEMMA EnterEntry ==
  ASSUME NEW d, TableOK(d), NEW r, TableOK(r), NEW id, IsEnter(d, id, r)
  PROVE  /\ id \notin IdsIn(d) /\ Cardinality(IdsIn(d)) < NSlots
         /\ \E m \in Nodes \cup {Broadcast} :
              HasPut(d, id, m, r)
<1>1. PICK k \in Slots \ Used(d) :
        /\ \A j \in Used(d) : d.links[j].id # id
        /\ d.count < NSlots
        /\ r.links[k].id = id /\ r.links[k].seen = now
        /\ r.links[k].mac \in Nodes \cup {Broadcast}
        /\ Used(r) = Used(d) \cup {k}
        /\ \A j \in Used(d) : r.links[j] = d.links[j]
  BY DEF IsEnter
<1>2. PICK m : m = r.links[k].mac
  OBVIOUS
<1>3. id \notin IdsIn(d)
  BY <1>1 DEF IdsIn
<1>4. Cardinality(IdsIn(d)) < NSlots
  <2> DEFINE f == [j \in Used(d) |-> d.links[j].id]
  <2>1. f \in Surjection(Used(d), IdsIn(d))
    BY DEF Surjection, IdsIn
  <2>2. IsFiniteSet(IdsIn(d)) /\ Cardinality(IdsIn(d)) <= Cardinality(Used(d))
    BY <2>1, UsedFinite, FS_Surjection
  <2>3. Cardinality(IdsIn(d)) \in Nat /\ Cardinality(Used(d)) \in Nat /\ NSlots \in Nat
    BY <2>2, UsedFinite, SlotFacts, FS_CardinalityType
  <2>4. d.count = Cardinality(Used(d))
    BY DEF TableOK
  <2> QED
    BY <1>1, <2>2, <2>3, <2>4
<1>5. IdsIn(r) = IdsIn(d) \cup {id}
  BY <1>1 DEF IdsIn
<1>6. ASSUME NEW x \in IdsIn(r)
      PROVE  ById(r)[x] = IF x = id THEN [mac |-> m, seen |-> now] ELSE ById(d)[x]
  <2>1. PICK j \in Used(r) : r.links[j].id = x
    BY EntryIs
  <2>2. ById(r)[x] = [mac |-> r.links[j].mac, seen |-> r.links[j].seen]
    BY <2>1, EntryIs
  <2>3. CASE x = id
    <3>1. j = k
      BY <1>1, <2>1, <2>3 DEF TableOK
    <3> QED
      BY <1>1, <1>2, <2>2, <2>3, <3>1
  <2>4. CASE x # id
    <3>1. r.links[j] = d.links[j] /\ j \in Used(d)
      BY <1>1, <2>1, <2>4
    <3>2. ById(d)[x] = [mac |-> d.links[j].mac, seen |-> d.links[j].seen]
      BY <2>1, <3>1, EntryIs
    <3> QED
      BY <2>2, <2>4, <3>1, <3>2
  <2> QED
    BY <2>3, <2>4
<1>7. ById(r) = [x \in IdsIn(r) |-> ById(r)[x]]
  BY DEF ById
<1>8. HasPut(d, id, m, r)
  BY <1>5, <1>6, <1>7 DEF HasPut
<1>9. m \in Nodes \cup {Broadcast}
  BY <1>1, <1>2
<1> QED
  BY <1>3, <1>4, <1>8, <1>9

\* Removing links removes their entries and keeps the others.
LEMMA FewerEntries ==
  ASSUME NEW d, TableOK(d), NEW r, TableOK(r), Used(r) \subseteq Used(d),
         \A j \in Used(r) : SameLink(r.links[j], d.links[j])
  PROVE  /\ IdsIn(r) = {d.links[k].id : k \in Used(r)}
         /\ ById(r) = [x \in IdsIn(r) |-> ById(d)[x]]
<1>1. IdsIn(r) = {d.links[k].id : k \in Used(r)}
  BY DEF IdsIn, SameLink
<1>2. ASSUME NEW x \in IdsIn(r) PROVE ById(r)[x] = ById(d)[x]
  <2>1. PICK j \in Used(r) : r.links[j].id = x
    BY EntryIs
  <2>2. ById(r)[x] = [mac |-> r.links[j].mac, seen |-> r.links[j].seen]
    BY <2>1, EntryIs
  <2>3. d.links[j].id = x /\ r.links[j].mac = d.links[j].mac /\ r.links[j].seen = d.links[j].seen
    BY <2>1 DEF SameLink
  <2>4. ById(d)[x] = [mac |-> d.links[j].mac, seen |-> d.links[j].seen]
    BY <2>1, <2>3, EntryIs
  <2> QED
    BY <2>2, <2>3, <2>4
<1>3. ById(r) = [x \in IdsIn(r) |-> ById(r)[x]]
  BY DEF ById
<1> QED
  BY <1>1, <1>2, <1>3

\* A closed link loses its entry.
LEMMA CloseEntry ==
  ASSUME NEW d, TableOK(d), NEW r, TableOK(r), NEW id, IsClose(d, id, r)
  PROVE  id \in IdsIn(d) /\ ById(r) = [x \in IdsIn(d) \ {id} |-> ById(d)[x]]
<1>1. PICK k \in Used(d) :
        /\ d.links[k].id = id
        /\ Used(r) = Used(d) \ {k}
        /\ \A j \in Used(r) : SameLink(r.links[j], d.links[j])
  BY DEF IsClose
<1>2. IdsIn(r) = {d.links[j].id : j \in Used(r)} /\ ById(r) = [x \in IdsIn(r) |-> ById(d)[x]]
  BY <1>1, FewerEntries
<1>3. \A j \in Used(d) : d.links[j].id = id => j = k
  BY <1>1 DEF TableOK
<1>4. IdsIn(r) = IdsIn(d) \ {id}
  BY <1>1, <1>2, <1>3 DEF IdsIn
<1>5. id \in IdsIn(d)
  BY <1>1 DEF IdsIn
<1> QED
  BY <1>2, <1>4, <1>5

\* A sweep removes the entries that have been idle.
LEMMA SweepEntries ==
  ASSUME NEW d, TableOK(d), NEW t \in Int
  PROVE  LET r == Swept(d, t)[NSlots]
         IN  ById(r) = [x \in {x \in IdsIn(d) : \/ ById(d)[x].seen = 0
                                                   \/ t - ById(d)[x].seen <= Timeout}
                             |-> ById(d)[x]]
<1> DEFINE Keep == {x \in IdsIn(d) : ById(d)[x].seen = 0 \/ t - ById(d)[x].seen <= Timeout}
<1>1. PICK r : r = Swept(d, t)[NSlots]
  OBVIOUS
<1>2. /\ TableOK(r) /\ Used(r) = {k \in Used(d) : ~ Expired(d.links[k], t)}
      /\ \A j \in Used(r) : SameLink(r.links[j], d.links[j])
  BY <1>1, SweepOK
<1>3. IdsIn(r) = {d.links[j].id : j \in Used(r)} /\ ById(r) = [x \in IdsIn(r) |-> ById(d)[x]]
  BY <1>2, FewerEntries
<1>4. \A k \in Used(d) : ~ Expired(d.links[k], t) <=> (d.links[k].seen = 0 \/ t - d.links[k].seen <= Timeout)
  <2> SUFFICES ASSUME NEW k \in Used(d)
               PROVE  ~ Expired(d.links[k], t) <=> (d.links[k].seen = 0 \/ t - d.links[k].seen <= Timeout)
    OBVIOUS
  <2>1. d.links[k] \in Link
    BY UsedFacts DEF TableOK
  <2>2. d.links[k].seen \in 0 .. MaxNow
    BY <2>1 DEF Link
  <2> QED
    BY <2>2, SlotFacts DEF Expired
<1>5. \A k \in Used(d) : d.links[k].id \in IdsIn(d) /\ ById(d)[d.links[k].id].seen = d.links[k].seen
  <2> SUFFICES ASSUME NEW k \in Used(d)
               PROVE  d.links[k].id \in IdsIn(d) /\ ById(d)[d.links[k].id].seen = d.links[k].seen
    OBVIOUS
  <2>1. /\ d.links[k].id \in IdsIn(d)
        /\ ById(d)[d.links[k].id] = [mac |-> d.links[k].mac, seen |-> d.links[k].seen]
    BY EntryIs
  <2> QED
    BY <2>1
<1>6. IdsIn(r) = Keep
  <2>1. ASSUME NEW x \in IdsIn(r) PROVE x \in Keep
    <3>1. PICK j \in Used(r) : d.links[j].id = x
      BY <1>3
    <3>2. j \in Used(d) /\ (d.links[j].seen = 0 \/ t - d.links[j].seen <= Timeout)
      BY <1>2, <1>4, <3>1
    <3> QED
      BY <1>5, <3>1, <3>2
  <2>2. ASSUME NEW x \in Keep PROVE x \in IdsIn(r)
    <3>1. PICK k \in Used(d) : d.links[k].id = x
      BY EntryIs
    <3>2. d.links[k].seen = 0 \/ t - d.links[k].seen <= Timeout
      BY <1>5, <3>1
    <3>3. k \in Used(r)
      BY <1>2, <1>4, <3>2
    <3> QED
      BY <1>3, <3>1, <3>3
  <2> QED
    BY <2>1, <2>2
<1> HIDE DEF Keep
<1>7. ById(r) = [x \in Keep |-> ById(d)[x]]
  BY <1>3, <1>6
<1> QED
  BY <1>1, <1>7 DEF Keep

\* What a lookup said, or that none is under way.
Answer == IF txpc = "send" THEN [id |-> tx.id, dest |-> dest] ELSE NoAnswer

\* The operations of the abstract table, with the table that the slots stand for.
LEMMA MapRefresh ==
  ASSUME NEW id, id \in DOMAIN ById(db), NEW m \in Nodes \cup {ById(db)[id].mac},
         ById(db') = [x \in DOMAIN ById(db) \cup {id} |->
                        IF x = id THEN [mac |-> m, seen |-> now] ELSE ById(db)[x]],
         now' = now, Answer' = Answer
  PROVE  Map!Refresh(id)
BY DEF Map!Refresh, Map!Known, Map!Put, ById, IdsIn, EntryOf, Answer

LEMMA MapCount == \A S : Map!Cardinality(S) = Cardinality(S)
BY DEF Map!Cardinality, Cardinality

LEMMA MapEnter ==
  ASSUME NEW id, id \notin DOMAIN ById(db), Cardinality(DOMAIN ById(db)) < NSlots,
         NEW m \in Nodes \cup {Broadcast},
         ById(db') = [x \in DOMAIN ById(db) \cup {id} |->
                        IF x = id THEN [mac |-> m, seen |-> now] ELSE ById(db)[x]],
         now' = now, Answer' = Answer
  PROVE  Map!Enter(id)
<1>1. Map!Put(id, [mac |-> m, seen |-> now])
  BY DEF Map!Put, Map!Known, ById, IdsIn, EntryOf
<1>2. id \notin Map!Known /\ Cardinality(Map!Known) < NSlots
  BY DEF Map!Known, ById, IdsIn
<1>3. UNCHANGED <<now, Answer>>
  OBVIOUS
<1> QED
  BY <1>1, <1>2, <1>3, MapCount DEF Map!Enter, Answer

LEMMA MapClose ==
  ASSUME NEW id, id \in DOMAIN ById(db),
         ById(db') = [x \in DOMAIN ById(db) \ {id} |-> ById(db)[x]],
         now' = now, Answer' = Answer
  PROVE  Map!Close(id)
BY DEF Map!Close, Map!Known, Map!Restrict, ById, IdsIn, EntryOf, Answer

LEMMA MapSweep ==
  ASSUME NEW t \in 0 .. now,
         ById(db') = [x \in {x \in DOMAIN ById(db) : \/ ById(db)[x].seen = 0
                                                     \/ t - ById(db)[x].seen <= Timeout} |-> ById(db)[x]],
         now' = now, Answer' = Answer
  PROVE  Map!Sweep
BY DEF Map!Sweep, Map!Known, Map!Restrict, ById, IdsIn, EntryOf, Answer

LEMMA MapLookup ==
  ASSUME NEW id, Answer = NoAnswer,
         Answer' = [id |-> id, dest |-> IF id \in DOMAIN ById(db) THEN ById(db)[id].mac ELSE Broadcast],
         db' = db, now' = now
  PROVE  Map!Lookup(id)
BY DEF Map!Lookup, Map!Known, Map!NoAnswer, NoAnswer, ById, IdsIn, EntryOf, Answer, Used

LEMMA MapDone ==
  ASSUME Answer # NoAnswer, Answer' = NoAnswer, db' = db, now' = now
  PROVE  Map!Done
BY DEF Map!Done, Map!NoAnswer, NoAnswer, Answer, EntryOf, Used

LEMMA MapTick ==
  ASSUME now < MaxNow, now' = now + 1, db' = db, Answer' = Answer
  PROVE  Map!Tick
BY DEF Map!Tick, Answer, EntryOf, Used

LEMMA MapStutter ==
  ASSUME db' = db, now' = now, Answer' = Answer
  PROVE  UNCHANGED Map!vars
BY DEF Map!vars, Answer, EntryOf, Used

\* A registered packet refreshes, enters or closes an entry, or changes nothing.
LEMMA RegisterMaps ==
  ASSUME LinkInv, NEW p \in Packets, NEW mac \in Nodes \cup {Broadcast}, NEW u \in BOOLEAN,
         db' \in package_register(db, p, mac, u), now' = now, Answer' = Answer
  PROVE  [Map!Next]_(Map!vars)
<1>0. TableOK(db) /\ now \in 0 .. MaxNow /\ p.id \in Ids
  BY InvFacts DEF Packets
<1>1. /\ TableOK(db')
      /\ db' = db \/ IsRefresh(db, p.id, db') \/ IsEnter(db, p.id, db') \/ IsClose(db, p.id, db')
  BY <1>0, RegisterIs
<1>2. DOMAIN ById(db) = IdsIn(db)
  BY <1>0, EntryIs
<1>3. CASE db' = db
  BY <1>3, MapStutter
<1>4. CASE IsRefresh(db, p.id, db')
  <2>1. /\ p.id \in IdsIn(db)
        /\ \E m \in Nodes \cup {ById(db)[p.id].mac} :
             HasPut(db, p.id, m, db')
    BY <1>0, <1>1, <1>4, RefreshEntry
  <2>2. PICK m \in Nodes \cup {ById(db)[p.id].mac} :
          HasPut(db, p.id, m, db')
    BY <2>1
  <2>3. Map!Refresh(p.id)
    BY <1>2, <2>1, <2>2, MapRefresh DEF HasPut
  <2> QED
    BY <1>0, <2>3 DEF Map!Next
<1>5. CASE IsEnter(db, p.id, db')
  <2>1. /\ p.id \notin IdsIn(db) /\ Cardinality(IdsIn(db)) < NSlots
        /\ \E m \in Nodes \cup {Broadcast} :
             HasPut(db, p.id, m, db')
    BY <1>0, <1>1, <1>5, EnterEntry
  <2>2. PICK m \in Nodes \cup {Broadcast} :
          HasPut(db, p.id, m, db')
    BY <2>1
  <2>3. Map!Enter(p.id)
    BY <1>2, <2>1, <2>2, MapEnter DEF HasPut
  <2> QED
    BY <1>0, <2>3 DEF Map!Next
<1>6. CASE IsClose(db, p.id, db')
  <2>1. p.id \in IdsIn(db) /\ ById(db') = [x \in IdsIn(db) \ {p.id} |-> ById(db)[x]]
    BY <1>0, <1>1, <1>6, CloseEntry
  <2>2. Map!Close(p.id)
    BY <1>2, <2>1, MapClose
  <2> QED
    BY <1>0, <2>2 DEF Map!Next
<1> QED
  BY <1>1, <1>3, <1>4, <1>5, <1>6

\* A lookup gives the peer of the entry.
LEMMA LookupMaps ==
  ASSUME LinkInv, tcp_to_rf_lookup
  PROVE  [Map!Next]_(Map!vars)
<1>0. TableOK(db) /\ (txpc # "idle" => tx \in Packets)
  BY InvFacts
<1>1. db' = db /\ now' = now /\ tx' = tx /\ txpc = "lookup" /\ txpc' = "send"
  BY DEF tcp_to_rf_lookup
<1>2. tx.id \in Ids
  BY <1>0, <1>1 DEF Packets
<1>3. PICK k : k = find_index_by_id(db, tx.id)
  OBVIOUS
<1>4. dest' = IF k = NoIndex THEN Broadcast ELSE db.links[k].mac
  BY <1>3 DEF tcp_to_rf_lookup
<1>5. \/ k = NoIndex /\ \A j \in Used(db) : db.links[j].id # tx.id
      \/ k \in Used(db) /\ db.links[k].id = tx.id /\ k # NoIndex
  BY <1>0, <1>2, <1>3, FindIs
<1>6. dest' = IF tx.id \in DOMAIN ById(db) THEN ById(db)[tx.id].mac ELSE Broadcast
  <2>1. DOMAIN ById(db) = IdsIn(db)
    BY <1>0, EntryIs
  <2>2. CASE k = NoIndex /\ \A j \in Used(db) : db.links[j].id # tx.id
    <3>1. tx.id \notin IdsIn(db)
      BY <2>2 DEF IdsIn
    <3> QED
      BY <1>4, <2>1, <2>2, <3>1
  <2>3. CASE k \in Used(db) /\ db.links[k].id = tx.id /\ k # NoIndex
    <3>1. tx.id \in IdsIn(db) /\ ById(db)[tx.id] = [mac |-> db.links[k].mac, seen |-> db.links[k].seen]
      BY <1>0, <2>3, EntryIs
    <3>2. ById(db)[tx.id].mac = db.links[k].mac
      BY <3>1
    <3> QED
      BY <1>4, <2>1, <2>3, <3>1, <3>2
  <2> QED
    BY <1>5, <2>2, <2>3
<1>7. Answer = NoAnswer
  BY <1>1 DEF Answer
<1>8. Answer' = [id |-> tx.id, dest |-> dest']
  BY <1>1 DEF Answer
<1>9. Map!Lookup(tx.id)
  BY <1>1, <1>6, <1>7, <1>8, MapLookup
<1> QED
  BY <1>2, <1>9 DEF Map!Next

\* Every step of the tasks is a step of the abstract table, or none of it.
LEMMA StepMaps == LinkInv /\ [Next]_vars => [Map!Next]_(Map!vars)
<1> SUFFICES ASSUME LinkInv, [Next]_vars PROVE [Map!Next]_(Map!vars)
  OBVIOUS
<1>0. TableOK(db) /\ now \in 0 .. MaxNow /\ sweep \in -1 .. MaxNow /\ sweep <= now
  BY InvFacts
<1>1. ASSUME NEW p \in Packets, tcp_to_rf(p) PROVE [Map!Next]_(Map!vars)
  <2>1. db' \in package_register(db, p, Broadcast, FALSE) /\ now' = now
    BY <1>1 DEF tcp_to_rf
  <2>2. txpc # "send" /\ txpc' # "send"
    BY <1>1 DEF tcp_to_rf
  <2>3. Answer' = Answer
    BY <2>2 DEF Answer, NoAnswer
  <2> QED
    BY <2>1, <2>3, RegisterMaps
<1>2. ASSUME NEW p \in Packets, NEW m \in Nodes, NEW u \in BOOLEAN, deliver_rns_frame(p, m, u)
      PROVE  [Map!Next]_(Map!vars)
  <2>1. db' \in package_register(db, p, m, u) /\ now' = now
    BY <1>2 DEF deliver_rns_frame
  <2>2. Answer' = Answer
    BY <1>2 DEF deliver_rns_frame, Answer, NoAnswer
  <2> QED
    BY <2>1, <2>2, RegisterMaps
<1>3. CASE tcp_to_rf_lookup
  BY <1>3, LookupMaps
<1>4. CASE tcp_to_rf_send
  <2>1. db' = db /\ now' = now
    BY <1>4 DEF tcp_to_rf_send
  <2>2. Answer' = NoAnswer
    BY <1>4 DEF tcp_to_rf_send, Answer, NoAnswer
  <2>3. CASE Answer = NoAnswer
    BY <2>1, <2>2, <2>3, MapStutter
  <2>4. CASE Answer # NoAnswer
    BY <2>1, <2>2, <2>4, MapDone DEF Map!Next
  <2> QED
    BY <2>3, <2>4
<1>5. CASE session_reset
  <2>1. db' = db /\ now' = now
    BY <1>5 DEF session_reset
  <2>2. Answer' = Answer
    BY <1>5 DEF session_reset, Answer, NoAnswer
  <2> QED
    BY <2>1, <2>2, MapStutter
<1>6. CASE SweepStart
  <2>1. db' = db /\ now' = now
    BY <1>6 DEF SweepStart
  <2>2. Answer' = Answer
    BY <1>6 DEF SweepStart, Answer, NoAnswer
  <2> QED
    BY <2>1, <2>2, MapStutter
<1>7. CASE SweepRun
  <2>1. db' = Swept(db, sweep)[NSlots] /\ now' = now /\ sweep # -1
    BY <1>7 DEF SweepRun
  <2>2. Answer' = Answer
    BY <1>7 DEF SweepRun, Answer, NoAnswer
  <2>3. sweep \in 0 .. now /\ sweep \in Int
    BY <1>0, <2>1, SlotFacts
  <2>4. DOMAIN ById(db) = IdsIn(db)
    BY <1>0, EntryIs
  <2>5. ById(db') = [x \in {x \in IdsIn(db) : \/ ById(db)[x].seen = 0
                                              \/ sweep - ById(db)[x].seen <= Timeout} |-> ById(db)[x]]
    BY <1>0, <2>1, <2>3, SweepEntries
  <2>6. Map!Sweep
    BY <2>1, <2>2, <2>3, <2>4, <2>5, MapSweep
  <2> QED
    BY <2>6 DEF Map!Next
<1>8. CASE Tick
  <2>1. db' = db /\ now' = now + 1 /\ now < MaxNow
    BY <1>8 DEF Tick
  <2>2. Answer' = Answer
    BY <1>8 DEF Tick, Answer, NoAnswer
  <2>3. Map!Tick
    BY <2>1, <2>2, MapTick
  <2> QED
    BY <2>3 DEF Map!Next
<1>9. CASE UNCHANGED vars
  <2>1. db' = db /\ now' = now
    BY <1>9 DEF vars
  <2>2. Answer' = Answer
    BY <1>9 DEF vars, Answer, NoAnswer
  <2> QED
    BY <2>1, <2>2, MapStutter
<1> QED
  BY <1>1, <1>2, <1>3, <1>4, <1>5, <1>6, <1>7, <1>8, <1>9 DEF Next

\* The empty slots stand for the empty table.
LEMMA InitMaps == Init => Map!Init
<1> SUFFICES ASSUME Init PROVE Map!Init
  OBVIOUS
<1>1. Used(db) = {} /\ now = 0 /\ txpc = "idle"
  BY InitTable DEF Init
<1>2. {db.links[k].id : k \in Used(db)} = {}
  BY <1>1
<1>3. [id \in {db.links[k].id : k \in Used(db)} |-> EntryOf(id)] \in [{} -> {}]
  BY <1>2
<1> QED
  BY <1>1, <1>3 DEF Map!Init, Map!NoAnswer, NoAnswer

\* The slots, buckets and chains of the link database implement a table by id, for
\* every hash function and whatever the tasks do.
THEOREM MapCorrect == Spec => MapHolds
<1>1. Init => Map!Init
  BY InitMaps
<1>2. LinkInv /\ [Next]_vars => [Map!Next]_(Map!vars)
  BY StepMaps
<1> QED
  BY <1>1, <1>2, LinkInvariance, PTL DEF Spec, MapHolds, Map!Spec
=============================================================================
