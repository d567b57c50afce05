---------------------------- MODULE TxBudgetProofs ----------------------------
(***************************************************************************)
(* Proofs about the transmit budget, for any tasks, reporters, lengths of  *)
(* frames and size of the budget: no byte of it is withheld.               *)
(***************************************************************************)
EXTENDS TxBudget, FiniteSetTheorems, TLAPS

\* The frames in the MAC are finitely many, so that their bytes can be counted.
IInv == TypeOK /\ IsFiniteSet(Frames) /\ NothingWithheld

LEMMA BudgetConstants ==
  /\ Tick \in Tasks /\ IsFiniteSet(Tasks)
  /\ Size \in Nat /\ Size > 0 /\ Iters \in Nat /\ Iters > 0 /\ MaxTokens \in Nat /\ MaxTokens > 0
  /\ Stale \in Nat /\ Stale > 0 /\ Losses \in Nat
  /\ \A l \in Lens : l \in Nat /\ 0 < l /\ l <= Size
<1>1. {Size, Iters, MaxTokens, Stale} \subseteq Nat \ {0} /\ Losses \in Nat /\ Lens \subseteq 1 .. Size
      /\ Tick \in Tasks /\ IsFiniteSet(Tasks)
  BY TxBudgetAssumption
<1>2. Size \in Nat /\ Size > 0 /\ Iters \in Nat /\ Iters > 0 /\ MaxTokens \in Nat /\ MaxTokens > 0
      /\ Stale \in Nat /\ Stale > 0
  BY <1>1
<1> QED
  BY <1>1, <1>2

-----------------------------------------------------------------------------
(* Counting bytes. *)

LEMMA BytesFinite ==
  ASSUME NEW S, NEW n, IsFiniteSet(S)
  PROVE  IsFiniteSet(BytesOf(S, n)) /\ Cardinality(BytesOf(S, n)) \in Nat
<1>1. IsFiniteSet(1 .. Size)
  BY BudgetConstants, FS_Interval
<1>2. IsFiniteSet(S \X (1 .. Size))
  BY <1>1, FS_Product
<1>3. BytesOf(S, n) \in SUBSET (S \X (1 .. Size))
  BY DEF BytesOf
<1> QED
  BY <1>2, <1>3, FS_Subset, FS_CardinalityType

\* A member more is as many bytes more as it has.
LEMMA BytesAdd ==
  ASSUME NEW S, NEW x, NEW n, NEW m, IsFiniteSet(S), x \notin S,
         \A y \in S : m[y] = n[y], m[x] \in 0 .. Size
  PROVE  Cardinality(BytesOf(S \cup {x}, m)) = Cardinality(BytesOf(S, n)) + m[x]
<1> DEFINE A == BytesOf(S, n)
           B == {x} \X (1 .. m[x])
<1>1. BytesOf(S \cup {x}, m) = A \cup B
  <2>1. ASSUME NEW z \in BytesOf(S \cup {x}, m) PROVE z \in A \cup B
    <3>1. PICK y \in S \cup {x}, b \in 1 .. Size : z = <<y, b>> /\ b <= m[y]
      BY <2>1 DEF BytesOf
    <3>2. CASE y = x
      <4>1. b \in 1 .. m[x]
        BY <3>1, <3>2, BudgetConstants
      <4> QED
        BY <3>1, <3>2, <4>1
    <3>3. CASE y \in S
      BY <3>1, <3>3 DEF BytesOf
    <3> QED
      BY <3>1, <3>2, <3>3
  <2>2. ASSUME NEW z \in A PROVE z \in BytesOf(S \cup {x}, m)
    <3>1. PICK y \in S, b \in 1 .. Size : z = <<y, b>> /\ b <= n[y]
      BY <2>2 DEF BytesOf
    <3> QED
      BY <3>1 DEF BytesOf
  <2>3. ASSUME NEW z \in B PROVE z \in BytesOf(S \cup {x}, m)
    <3>1. PICK b \in 1 .. m[x] : z = <<x, b>>
      BY <2>3
    <3>2. b \in 1 .. Size /\ b <= m[x]
      BY <3>1, BudgetConstants
    <3> QED
      BY <3>1, <3>2 DEF BytesOf
  <2> QED
    BY <2>1, <2>2, <2>3
<1>2. A \cap B = {}
  BY DEF BytesOf
<1>3. IsFiniteSet(A) /\ Cardinality(A) \in Nat
  BY BytesFinite
<1>4. IsFiniteSet(B) /\ Cardinality(B) = m[x]
  <2>1. m[x] \in Int /\ m[x] >= 0
    OBVIOUS
  <2>2. IsFiniteSet(1 .. m[x]) /\ Cardinality(1 .. m[x]) = m[x]
    <3>1. ASSUME NEW k \in Nat PROVE IsFiniteSet(1 .. k) /\ Cardinality(1 .. k) = k
      BY FS_Interval
    <3> QED
      BY <2>1, <3>1
  <2>3. IsFiniteSet({x}) /\ Cardinality({x}) = 1
    BY FS_Singleton
  <2>4. IsFiniteSet(B) /\ Cardinality(B) = Cardinality({x}) * Cardinality(1 .. m[x])
    BY <2>2, <2>3, FS_Product
  <2>5. 1 * m[x] = m[x]
    BY <2>1
  <2> QED
    BY <2>2, <2>3, <2>4, <2>5
<1>5. Cardinality(A \cap B) = 0
  BY <1>2, FS_EmptySet
<1> HIDE DEF A, B
<1>6. Cardinality(A \cup B) = Cardinality(A) + Cardinality(B) - Cardinality(A \cap B)
  BY <1>3, <1>4, FS_Union
<1>7. Cardinality(A \cup B) = Cardinality(A) + m[x]
  BY <1>3, <1>4, <1>5, <1>6
<1> QED
  BY <1>1, <1>7 DEF A

\* The same members with the same bytes.
LEMMA BytesSame ==
  ASSUME NEW S, NEW n, NEW m, \A y \in S : m[y] = n[y]
  PROVE  BytesOf(S, m) = BytesOf(S, n)
BY DEF BytesOf

\* The bytes on the way to the MAC and in it.
Leaving == Cardinality(BytesOf(Sending, len))
InMac == Cardinality(BytesOf(Frames, [f \in Frames |-> f[1]]))

LEMMA SendingFinite == IsFiniteSet(Sending)
BY BudgetConstants, FS_Subset DEF Sending

\* The numbers of a state.
LEMMA BudgetNumbers ==
  ASSUME IInv
  PROVE  /\ vacated \in Nat /\ vacated <= Size /\ lost \in Nat
         /\ Leaving \in Nat /\ InMac \in Nat
         /\ vacated + (Leaving + InMac) + lost >= Size
         /\ \A l \in Lens : air[l] \in Nat
         /\ \A t \in Tasks : len[t] \in 0 .. Size
<1>1. vacated \in Nat /\ vacated <= Size /\ lost \in Nat
  BY BudgetConstants DEF IInv, TypeOK
<1>2. Leaving \in Nat /\ InMac \in Nat
  BY SendingFinite, BytesFinite DEF IInv, Leaving, InMac
<1>3. vacated + (Leaving + InMac) + lost >= Size
  BY DEF IInv, NothingWithheld, Held, Leaving, InMac
<1>4. \A l \in Lens : air[l] \in Nat
  BY DEF IInv, TypeOK
<1>5. \A t \in Tasks : len[t] \in 0 .. Size
  BY BudgetConstants DEF IInv, TypeOK
<1> QED
  BY <1>1, <1>2, <1>3, <1>4, <1>5, BudgetConstants

-----------------------------------------------------------------------------
(* How a step moves bytes. *)

LEMMA LeavingSame ==
  ASSUME \A u \in Tasks : pc'[u] = "send" <=> pc[u] = "send",
         \A u \in Tasks : pc[u] = "send" => len'[u] = len[u]
  PROVE  Leaving' = Leaving
<1>1. Sending' = Sending
  BY DEF Sending
<1>2. \A u \in Sending : len'[u] = len[u]
  BY DEF Sending
<1>3. BytesOf(Sending, len') = BytesOf(Sending, len)
  BY <1>2, BytesSame
<1> QED
  BY <1>1, <1>3 DEF Leaving

LEMMA LeavingJoins ==
  ASSUME NEW t \in Tasks, pc[t] # "send", pc'[t] = "send", len'[t] \in 0 .. Size,
         \A u \in Tasks \ {t} : pc'[u] = pc[u] /\ len'[u] = len[u]
  PROVE  Leaving' = Leaving + len'[t]
<1>1. Sending' = Sending \cup {t} /\ t \notin Sending
  BY DEF Sending
<1>2. \A u \in Sending : len'[u] = len[u]
  BY <1>1 DEF Sending
<1>3. Cardinality(BytesOf(Sending \cup {t}, len')) = Cardinality(BytesOf(Sending, len)) + len'[t]
  <2>1. t \notin Sending
    BY <1>1
  <2> QED
    BY <1>2, <2>1, SendingFinite, BytesAdd
<1> QED
  BY <1>1, <1>3 DEF Leaving

LEMMA LeavingLeaves ==
  ASSUME NEW t \in Tasks, pc[t] = "send", pc'[t] # "send", len[t] \in 0 .. Size,
         \A u \in Tasks \ {t} : pc'[u] = pc[u] /\ len'[u] = len[u]
  PROVE  Leaving = Leaving' + len[t] /\ Leaving' \in Nat
<1>1. Sending = Sending' \cup {t} /\ t \notin Sending'
  BY DEF Sending
<1>2. \A u \in Sending' : len[u] = len'[u]
  BY <1>1 DEF Sending
<1>0. Sending' \in SUBSET Sending
  BY <1>1
<1>3. IsFiniteSet(Sending')
  BY <1>0, SendingFinite, FS_Subset
<1>4. Cardinality(BytesOf(Sending' \cup {t}, len)) = Cardinality(BytesOf(Sending', len')) + len[t]
  BY <1>1, <1>2, <1>3, BytesAdd
<1>5. Cardinality(BytesOf(Sending', len')) \in Nat
  BY <1>3, BytesFinite
<1> QED
  BY <1>1, <1>4, <1>5 DEF Leaving

LEMMA MacSame ==
  ASSUME air' = air
  PROVE  Frames' = Frames /\ InMac' = InMac
BY DEF Frames, InMac

LEMMA MacJoins ==
  ASSUME NEW l \in Lens, IsFiniteSet(Frames), air \in [Lens -> Nat], air' = [air EXCEPT ![l] = @ + 1]
  PROVE  IsFiniteSet(Frames') /\ InMac' = InMac + l
<1> DEFINE z == <<l, air[l] + 1>>
<1>a. air[l] \in Nat /\ air'[l] = air[l] + 1 /\ \A q \in Lens : q # l => air'[q] = air[q]
  OBVIOUS
<1>1. Frames' = Frames \cup {z} /\ z \notin Frames
  <2>1. ASSUME NEW y \in Frames' PROVE y \in Frames \cup {z}
    <3>0. PICK q \in Lens : y \in {q} \X (1 .. air'[q])
      BY <2>1 DEF Frames
    <3>1. PICK k \in 1 .. air'[q] : y = <<q, k>>
      BY <3>0
    <3>2. k \in 1 .. air[q] \/ (q = l /\ k = air[l] + 1)
      BY <1>a, <3>1
    <3> QED
      BY <3>1, <3>2 DEF Frames
  <2>2. ASSUME NEW y \in Frames PROVE y \in Frames'
    <3>0. PICK q \in Lens : y \in {q} \X (1 .. air[q])
      BY <2>2 DEF Frames
    <3>1. PICK k \in 1 .. air[q] : y = <<q, k>>
      BY <3>0
    <3>2. k \in 1 .. air'[q]
      BY <1>a, <3>1
    <3> QED
      BY <3>1, <3>2 DEF Frames
  <2>3. z \in Frames'
    <3>1. air[l] + 1 \in 1 .. air'[l]
      BY <1>a
    <3> QED
      BY <3>1 DEF Frames
  <2>4. z \notin Frames
    <3>1. ~(air[l] + 1 \in 1 .. air[l])
      BY <1>a
    <3> QED
      BY <3>1 DEF Frames
  <2> QED
    BY <2>1, <2>2, <2>3, <2>4
<1>2. IsFiniteSet(Frames')
  BY <1>1, FS_AddElement
<1> DEFINE n == [f \in Frames |-> f[1]]
           m == [f \in Frames' |-> f[1]]
<1>3. m[z] = l /\ \A y \in Frames : m[y] = n[y]
  BY <1>1
<1>4. m[z] \in 0 .. Size
  BY <1>3, BudgetConstants
<1> HIDE DEF z, n, m
<1>5. Cardinality(BytesOf(Frames \cup {z}, m)) = Cardinality(BytesOf(Frames, n)) + m[z]
  <2>1. z \notin Frames /\ \A y \in Frames : m[y] = n[y]
    BY <1>1, <1>3
  <2> QED
    BY <1>4, <2>1, BytesAdd
<1>6. InMac' = Cardinality(BytesOf(Frames', m)) /\ InMac = Cardinality(BytesOf(Frames, n))
  BY DEF InMac, n, m
<1> QED
  BY <1>1, <1>2, <1>3, <1>5, <1>6

LEMMA MacLeaves ==
  ASSUME NEW l \in Lens, IsFiniteSet(Frames), air \in [Lens -> Nat], air[l] > 0,
         air' = [air EXCEPT ![l] = @ - 1]
  PROVE  IsFiniteSet(Frames') /\ InMac = InMac' + l /\ InMac' \in Nat
<1> DEFINE z == <<l, air[l]>>
<1>a. air[l] \in Nat /\ air'[l] = air[l] - 1 /\ \A q \in Lens : q # l => air'[q] = air[q]
  OBVIOUS
<1>1. Frames = Frames' \cup {z} /\ z \notin Frames'
  <2>1. ASSUME NEW y \in Frames PROVE y \in Frames' \cup {z}
    <3>0. PICK q \in Lens : y \in {q} \X (1 .. air[q])
      BY <2>1 DEF Frames
    <3>1. PICK k \in 1 .. air[q] : y = <<q, k>>
      BY <3>0
    <3>2. k \in 1 .. air'[q] \/ (q = l /\ k = air[l])
      BY <1>a, <3>1
    <3> QED
      BY <3>1, <3>2 DEF Frames
  <2>2. ASSUME NEW y \in Frames' PROVE y \in Frames
    <3>0. PICK q \in Lens : y \in {q} \X (1 .. air'[q])
      BY <2>2 DEF Frames
    <3>1. PICK k \in 1 .. air'[q] : y = <<q, k>>
      BY <3>0
    <3>2. k \in 1 .. air[q]
      BY <1>a, <3>1
    <3> QED
      BY <3>1, <3>2 DEF Frames
  <2>3. z \in Frames
    <3>1. air[l] \in 1 .. air[l]
      BY <1>a
    <3> QED
      BY <3>1 DEF Frames
  <2>4. z \notin Frames'
    <3>1. ~(air[l] \in 1 .. air'[l])
      BY <1>a
    <3> QED
      BY <3>1 DEF Frames
  <2> QED
    BY <2>1, <2>2, <2>3, <2>4
<1>0. Frames' \in SUBSET Frames
  BY <1>1
<1>2. IsFiniteSet(Frames')
  BY <1>0, FS_Subset
<1> DEFINE n == [f \in Frames' |-> f[1]]
           m == [f \in Frames |-> f[1]]
<1>3. m[z] = l /\ \A y \in Frames' : m[y] = n[y]
  BY <1>1
<1>4. m[z] \in 0 .. Size
  BY <1>3, BudgetConstants
<1> HIDE DEF z, n, m
<1>5. Cardinality(BytesOf(Frames' \cup {z}, m)) = Cardinality(BytesOf(Frames', n)) + m[z]
  <2>1. z \notin Frames' /\ \A y \in Frames' : m[y] = n[y]
    BY <1>1, <1>3
  <2> QED
    BY <1>2, <1>4, <2>1, BytesAdd
<1>6. InMac = Cardinality(BytesOf(Frames, m)) /\ InMac' = Cardinality(BytesOf(Frames', n))
  BY DEF InMac, n, m
<1>7. InMac' \in Nat
  BY <1>2, <1>6, BytesFinite
<1> QED
  BY <1>1, <1>2, <1>3, <1>5, <1>6, <1>7

-----------------------------------------------------------------------------
(* The steps. *)

\* The part of TypeOK about the tasks, and the rest.
TasksOK ==
  /\ pc \in [Tasks -> {"idle", "wait", "send", "mark", "resync"}]
  /\ len \in [Tasks -> Lens \union {0}] /\ tries \in [Tasks -> 0 .. Iters - 1]
  /\ \A t \in Tasks : pc[t] \in {"wait", "send", "mark"} => len[t] # 0

OthersOK ==
  /\ vacated \in 0 .. Size /\ tokens \in 0 .. MaxTokens /\ may_block \in BOOLEAN
  /\ air \in [Lens -> Nat]
  /\ rpc \in [Reporters -> {"idle", "after"}] /\ full \in [Reporters -> BOOLEAN]
  /\ lost \in Nat /\ losses \in 0 .. Losses
  /\ marked \in BOOLEAN /\ quiet \in -1 .. Stale

LEMMA TypeParts == TypeOK <=> TasksOK /\ OthersOK
BY DEF TypeOK, TasksOK, OthersOK

\* A task goes to another place with a length and a number of tries.
LEMMA TaskMoves ==
  ASSUME TasksOK, NEW t \in Tasks, NEW p \in {"idle", "wait", "send", "mark", "resync"},
         NEW l \in Lens \cup {0}, NEW k \in 0 .. Iters - 1,
         pc' = [pc EXCEPT ![t] = p], len' = [len EXCEPT ![t] = l], tries' = [tries EXCEPT ![t] = k],
         p \in {"wait", "send", "mark"} => l # 0
  PROVE  /\ TasksOK' /\ pc'[t] = p /\ len'[t] = l
         /\ \A u \in Tasks \ {t} : pc'[u] = pc[u] /\ len'[u] = len[u]
<1>1. /\ pc' \in [Tasks -> {"idle", "wait", "send", "mark", "resync"}]
      /\ len' \in [Tasks -> Lens \union {0}] /\ tries' \in [Tasks -> 0 .. Iters - 1]
      /\ pc'[t] = p /\ len'[t] = l
      /\ \A u \in Tasks \ {t} : pc'[u] = pc[u] /\ len'[u] = len[u]
  BY DEF TasksOK
<1>2. \A u \in Tasks : pc'[u] \in {"wait", "send", "mark"} => len'[u] # 0
  BY <1>1 DEF TasksOK
<1> QED
  BY <1>1, <1>2 DEF TasksOK

LEMMA Same ==
  ASSUME TasksOK, NEW t \in Tasks
  PROVE  /\ pc = [pc EXCEPT ![t] = pc[t]] /\ len = [len EXCEPT ![t] = len[t]]
         /\ tries = [tries EXCEPT ![t] = tries[t]]
         /\ pc[t] \in {"idle", "wait", "send", "mark", "resync"}
         /\ len[t] \in Lens \cup {0} /\ tries[t] \in 0 .. Iters - 1
BY DEF TasksOK

\* A step keeps the invariant when it moves bytes and loses none, or when it fills
\* the budget.
LEMMA Balanced ==
  ASSUME IInv, TasksOK', OthersOK', IsFiniteSet(Frames'), Leaving' \in Nat, InMac' \in Nat,
         \/ vacated' = Size
         \/ vacated' + Leaving' + InMac' + lost' >= vacated + Leaving + InMac + lost
  PROVE  IInv'
<1>1. vacated' \in Nat /\ lost' \in Nat
  BY BudgetConstants DEF OthersOK
<1>2. /\ vacated \in Nat /\ lost \in Nat /\ Leaving \in Nat /\ InMac \in Nat
      /\ vacated + (Leaving + InMac) + lost >= Size
  BY BudgetNumbers
<1> DEFINE a == Leaving'
           b == InMac'
           v == vacated'
           o == lost'
           c == Leaving
           d == InMac
<1>a. a \in Nat /\ b \in Nat /\ v \in Nat /\ o \in Nat /\ c \in Nat /\ d \in Nat
  BY <1>1, <1>2
<1>b. v = Size \/ v + a + b + o >= vacated + c + d + lost
  OBVIOUS
<1>c. vacated + (c + d) + lost >= Size
  BY <1>2
<1> HIDE DEF a, b, v, o, c, d
<1>3. v + (a + b) + o >= Size
  BY <1>a, <1>b, <1>c, <1>2, BudgetConstants
<1>4. NothingWithheld'
  BY <1>3 DEF NothingWithheld, Held, a, b, v, o, Leaving, InMac
<1>5. TypeOK'
  BY TypeParts DEF TypeOK, TasksOK, OthersOK
<1> QED
  BY <1>4, <1>5 DEF IInv

\* Steps that leave the bytes where they are.
LEMMA StillInv ==
  ASSUME IInv, TasksOK', OthersOK', UNCHANGED <<vacated, air, lost>>, Leaving' = Leaving
  PROVE  IInv'
<1>1. IsFiniteSet(Frames) /\ Leaving \in Nat /\ InMac \in Nat /\ vacated \in Nat /\ lost \in Nat
  BY BudgetNumbers DEF IInv
<1>2. Frames' = Frames /\ InMac' = InMac
  BY MacSame
<1>3. vacated' + Leaving' + InMac' + lost' >= vacated + Leaving + InMac + lost
  BY <1>1, <1>2
<1> QED
  BY <1>1, <1>2, <1>3, Balanced

\* A frame's bytes are taken from the budget, at once or after a wait.
LEMMA TakeInv ==
  ASSUME IInv, NEW t \in Tasks, NEW l \in Lens, TasksOK', OthersOK', take(l),
         pc[t] # "send", pc'[t] = "send", len'[t] = l, UNCHANGED <<air, lost>>,
         \A u \in Tasks \ {t} : pc'[u] = pc[u] /\ len'[u] = len[u]
  PROVE  IInv'
<1>1. IsFiniteSet(Frames) /\ Leaving \in Nat /\ InMac \in Nat /\ vacated \in Nat /\ lost \in Nat
  BY BudgetNumbers DEF IInv
<1>2. Frames' = Frames /\ InMac' = InMac
  BY MacSame
<1>3. l \in Nat /\ l \in 0 .. Size
  BY BudgetConstants
<1>4. Leaving' = Leaving + l
  BY <1>3, LeavingJoins
<1>5. vacated' = vacated - l
  BY DEF take
<1>6. vacated' + Leaving' + InMac' + lost' >= vacated + Leaving + InMac + lost
  BY <1>1, <1>2, <1>3, <1>4, <1>5
<1>7. Leaving' \in Nat
  BY <1>1, <1>3, <1>4
<1> QED
  BY <1>1, <1>2, <1>6, <1>7, Balanced

LEMMA SendFrameInv ==
  ASSUME IInv, NEW t \in Tasks, NEW l \in Lens, SendFrame(t, l)
  PROVE  IInv'
<1>a. TasksOK /\ OthersOK
  BY TypeParts DEF IInv
<1>b. /\ pc[t] = "idle" /\ len' = [len EXCEPT ![t] = l]
      /\ UNCHANGED <<tokens, may_block, tries, air, rpc, full, lost, losses, lbtVars>>
  BY DEF SendFrame
<1>c. l \in Nat /\ 0 < l /\ l <= Size /\ l \in Lens \cup {0} /\ l # 0
  BY BudgetConstants
<1>d. tries' = [tries EXCEPT ![t] = tries[t]] /\ tries[t] \in 0 .. Iters - 1
  BY <1>a, <1>b, Same
<1>1. CASE take(l) /\ Goto(t, "send")
  <2>1. pc' = [pc EXCEPT ![t] = "send"]
    BY <1>1 DEF Goto
  <2>2. /\ TasksOK' /\ pc'[t] = "send" /\ len'[t] = l
        /\ \A u \in Tasks \ {t} : pc'[u] = pc[u] /\ len'[u] = len[u]
    BY <1>a, <1>b, <1>c, <1>d, <2>1, TaskMoves
  <2>3. vacated' \in 0 .. Size
    BY <1>1, <1>a, <1>c, BudgetConstants DEF take, OthersOK
  <2>4. OthersOK'
    BY <1>a, <1>b, <2>3 DEF OthersOK, lbtVars
  <2> QED
    BY <1>1, <1>b, <2>2, <2>4, TakeInv
<1>2. CASE vacated < l /\ may_block /\ Goto(t, "wait") /\ UNCHANGED vacated
  <2>1. pc' = [pc EXCEPT ![t] = "wait"]
    BY <1>2 DEF Goto
  <2>2. /\ TasksOK' /\ pc'[t] = "wait"
        /\ \A u \in Tasks \ {t} : pc'[u] = pc[u] /\ len'[u] = len[u]
    BY <1>a, <1>b, <1>c, <1>d, <2>1, TaskMoves
  <2>3. Leaving' = Leaving
    BY <1>b, <2>2, LeavingSame
  <2>4. OthersOK'
    BY <1>2, <1>a, <1>b DEF OthersOK, lbtVars
  <2> QED
    BY <1>2, <1>b, <2>2, <2>3, <2>4, StillInv
<1> QED
  BY <1>1, <1>2 DEF SendFrame

\* A turn of the wait without success: another try, or back to the caller.
LEMMA WaitInv ==
  ASSUME IInv, NEW t \in Tasks, TokenTaken(t) \/ TimeoutShort(t)
  PROVE  IInv'
<1>a. TasksOK /\ OthersOK
  BY TypeParts DEF IInv
<1>b. /\ pc[t] = "wait"
      /\ IF tries[t] + 1 = Iters THEN Return(t)
         ELSE tries' = [tries EXCEPT ![t] = @ + 1] /\ UNCHANGED <<pc, len>>
      /\ UNCHANGED <<vacated, may_block, air, rpc, full, lost, losses, lbtVars>>
      /\ tokens' = tokens \/ (tokens > 0 /\ tokens' = tokens - 1)
  BY DEF TokenTaken, TimeoutShort
<1>c. /\ pc = [pc EXCEPT ![t] = pc[t]] /\ len = [len EXCEPT ![t] = len[t]]
      /\ len[t] \in Lens \cup {0} /\ tries[t] \in 0 .. Iters - 1 /\ len[t] # 0
  BY <1>a, <1>b, Same DEF TasksOK
<1>d. tokens' \in 0 .. MaxTokens
  BY <1>a, <1>b, BudgetConstants DEF OthersOK
<1>1. OthersOK'
  BY <1>a, <1>b, <1>d DEF OthersOK, lbtVars
<1>2. CASE tries[t] + 1 = Iters
  <2>1. /\ pc' = [pc EXCEPT ![t] = "idle"] /\ len' = [len EXCEPT ![t] = 0]
        /\ tries' = [tries EXCEPT ![t] = 0]
    BY <1>2, <1>b DEF Return, Goto
  <2>2. 0 \in Lens \cup {0} /\ 0 \in 0 .. Iters - 1
    BY BudgetConstants
  <2>3. /\ TasksOK' /\ pc'[t] = "idle"
        /\ \A u \in Tasks \ {t} : pc'[u] = pc[u] /\ len'[u] = len[u]
    BY <1>a, <2>1, <2>2, TaskMoves
  <2>4. Leaving' = Leaving
    BY <1>b, <2>3, LeavingSame
  <2> QED
    BY <1>1, <1>b, <2>3, <2>4, StillInv
<1>3. CASE tries[t] + 1 # Iters
  <2>1. /\ pc' = [pc EXCEPT ![t] = "wait"] /\ len' = [len EXCEPT ![t] = len[t]]
        /\ tries' = [tries EXCEPT ![t] = tries[t] + 1] /\ UNCHANGED <<pc, len>>
    BY <1>3, <1>b, <1>c
  <2>2. tries[t] + 1 \in 0 .. Iters - 1
    BY <1>3, <1>c, BudgetConstants
  <2>3. TasksOK'
    BY <1>a, <1>c, <2>1, <2>2, TaskMoves
  <2>4. Leaving' = Leaving
    BY <2>1, LeavingSame
  <2> QED
    BY <1>1, <1>b, <2>3, <2>4, StillInv
<1> QED
  BY <1>2, <1>3

LEMMA TimeoutTakeInv ==
  ASSUME IInv, NEW t \in Tasks, TimeoutTake(t)
  PROVE  IInv'
<1>a. TasksOK /\ OthersOK
  BY TypeParts DEF IInv
<1>b. /\ pc[t] = "wait" /\ take(len[t]) /\ pc' = [pc EXCEPT ![t] = "send"]
      /\ tries' = [tries EXCEPT ![t] = 0]
      /\ UNCHANGED <<tokens, may_block, len, air, rpc, full, lost, losses, lbtVars>>
  BY DEF TimeoutTake, Goto
<1>c. /\ len' = [len EXCEPT ![t] = len[t]] /\ len[t] # 0 /\ len[t] \in Lens
      /\ len[t] \in Lens \cup {0} /\ 0 \in 0 .. Iters - 1
  BY <1>a, <1>b, Same, BudgetConstants DEF TasksOK
<1>1. /\ TasksOK' /\ pc'[t] = "send" /\ len'[t] = len[t]
      /\ \A u \in Tasks \ {t} : pc'[u] = pc[u] /\ len'[u] = len[u]
  BY <1>a, <1>b, <1>c, TaskMoves
<1>2. vacated' \in 0 .. Size
  BY <1>a, <1>b, <1>c, BudgetConstants DEF take, OthersOK
<1>3. OthersOK'
  BY <1>a, <1>b, <1>2 DEF OthersOK, lbtVars
<1> QED
  BY <1>b, <1>c, <1>1, <1>3, TakeInv

\* The MAC takes the frame: its bytes move there.
LEMMA LmacTakesInv ==
  ASSUME IInv, NEW t \in Tasks, LmacTakes(t)
  PROVE  IInv'
<1>a. TasksOK /\ OthersOK /\ IsFiniteSet(Frames)
  BY TypeParts DEF IInv
<1>b. /\ pc[t] = "send" /\ pc' = [pc EXCEPT ![t] = "mark"]
      /\ air' = [air EXCEPT ![len[t]] = @ + 1]
      /\ UNCHANGED <<vacated, tokens, may_block, len, tries, rpc, full, lost, losses, lbtVars>>
  BY DEF LmacTakes, Goto
<1>c. /\ len' = [len EXCEPT ![t] = len[t]] /\ len[t] # 0 /\ len[t] \in Lens
      /\ len[t] \in Lens \cup {0} /\ tries' = [tries EXCEPT ![t] = tries[t]]
      /\ tries[t] \in 0 .. Iters - 1
  BY <1>a, <1>b, Same DEF TasksOK
<1>d. len[t] \in Nat /\ len[t] \in 0 .. Size
  BY <1>c, BudgetConstants
<1>1. /\ TasksOK' /\ pc'[t] = "mark"
      /\ \A u \in Tasks \ {t} : pc'[u] = pc[u] /\ len'[u] = len[u]
  <2>1. pc' = [pc EXCEPT ![t] = "mark"]
    BY <1>b
  <2> QED
    BY <1>a, <1>c, <2>1, TaskMoves
<1>2. air \in [Lens -> Nat] /\ air' \in [Lens -> Nat]
  BY <1>a, <1>b, <1>c DEF OthersOK
<1>3. OthersOK'
  BY <1>a, <1>b, <1>2 DEF OthersOK, lbtVars
<1>4. IsFiniteSet(Frames') /\ InMac' = InMac + len[t]
  BY <1>a, <1>b, <1>c, <1>2, MacJoins
<1>5. Leaving = Leaving' + len[t] /\ Leaving' \in Nat
  BY <1>b, <1>d, <1>1, LeavingLeaves
<1>6. vacated \in Nat /\ lost \in Nat /\ InMac \in Nat
  BY BudgetNumbers
<1>7. InMac' \in Nat /\ vacated' + Leaving' + InMac' + lost' >= vacated + Leaving + InMac + lost
  BY <1>b, <1>d, <1>4, <1>5, <1>6
<1> QED
  BY <1>1, <1>3, <1>4, <1>5, <1>7, Balanced

\* What GiveBack leaves in the budget.
LEMMA GivenBack ==
  ASSUME OthersOK, NEW l \in Nat, GiveBack(l)
  PROVE  vacated' \in 0 .. Size /\ (vacated' = Size \/ vacated' = vacated + l)
BY BudgetConstants DEF GiveBack, Smaller, OthersOK

LEMMA LmacRefusesInv ==
  ASSUME IInv, NEW t \in Tasks, LmacRefuses(t)
  PROVE  IInv'
<1>a. TasksOK /\ OthersOK /\ IsFiniteSet(Frames)
  BY TypeParts DEF IInv
<1>b. /\ pc[t] = "send" /\ GiveBack(len[t]) /\ pc' = [pc EXCEPT ![t] = "idle"]
      /\ len' = [len EXCEPT ![t] = 0] /\ tries' = [tries EXCEPT ![t] = 0]
      /\ UNCHANGED <<tokens, may_block, air, rpc, full, lost, losses, quiet>>
  BY DEF LmacRefuses, Return, Goto
<1>c. len[t] \in Nat /\ len[t] \in 0 .. Size /\ 0 \in Lens \cup {0} /\ 0 \in 0 .. Iters - 1
  BY BudgetNumbers, BudgetConstants
<1>d. marked' \in BOOLEAN
  BY <1>a, Zenon DEF LmacRefuses, set_tx_as, OthersOK
<1>1. /\ TasksOK' /\ pc'[t] = "idle"
      /\ \A u \in Tasks \ {t} : pc'[u] = pc[u] /\ len'[u] = len[u]
  BY <1>a, <1>b, <1>c, TaskMoves
<1>2. vacated' \in 0 .. Size /\ (vacated' = Size \/ vacated' = vacated + len[t])
  BY <1>a, <1>b, <1>c, GivenBack
<1>3. OthersOK'
  BY <1>a, <1>b, <1>d, <1>2 DEF OthersOK
<1>4. Frames' = Frames /\ InMac' = InMac
  BY <1>b, MacSame
<1>5. Leaving = Leaving' + len[t] /\ Leaving' \in Nat
  BY <1>b, <1>c, <1>1, LeavingLeaves
<1>6. vacated \in Nat /\ lost \in Nat /\ InMac \in Nat
  BY BudgetNumbers
<1>7. vacated' = Size \/ vacated' + Leaving' + InMac' + lost' >= vacated + Leaving + InMac + lost
  BY <1>b, <1>c, <1>2, <1>4, <1>5, <1>6
<1> QED
  BY <1>a, <1>1, <1>3, <1>4, <1>5, <1>6, <1>7, Balanced

LEMMA MarkActiveInv ==
  ASSUME IInv, NEW t \in Tasks, MarkActive(t)
  PROVE  IInv'
<1>a. TasksOK /\ OthersOK
  BY TypeParts DEF IInv
<1>b. /\ pc[t] = "mark" /\ pc' = [pc EXCEPT ![t] = "idle"]
      /\ len' = [len EXCEPT ![t] = 0] /\ tries' = [tries EXCEPT ![t] = 0]
      /\ UNCHANGED <<vacated, tokens, may_block, air, rpc, full, lost, losses, quiet>>
  BY DEF MarkActive, Return, Goto
<1>c. 0 \in Lens \cup {0} /\ 0 \in 0 .. Iters - 1
  BY BudgetConstants
<1>d. marked' \in BOOLEAN
  BY <1>a, Zenon DEF MarkActive, set_tx_as, OthersOK
<1>1. /\ TasksOK' /\ pc'[t] = "idle"
      /\ \A u \in Tasks \ {t} : pc'[u] = pc[u] /\ len'[u] = len[u]
  BY <1>a, <1>b, <1>c, TaskMoves
<1>2. Leaving' = Leaving
  BY <1>b, <1>1, LeavingSame
<1>3. OthersOK'
  BY <1>a, <1>b, <1>d DEF OthersOK
<1> QED
  BY <1>b, <1>1, <1>2, <1>3, StillInv

\* Steps that move no task.
LEMMA TasksStill ==
  ASSUME TasksOK, UNCHANGED sendVars
  PROVE  TasksOK' /\ Leaving' = Leaving
<1>1. UNCHANGED <<pc, len, tries>>
  BY DEF sendVars
<1>2. TasksOK'
  BY <1>1 DEF TasksOK
<1> QED
  BY <1>1, <1>2, LeavingSame

\* The balance of one frame's bytes, on plain numbers: what leaves the MAC goes
\* back to the budget or is counted lost.
LEMMA Exchange ==
  ASSUME NEW v \in Nat, NEW w \in Nat, NEW o \in Nat, NEW p \in Nat,
         NEW a \in Nat, NEW m \in Nat, NEW l \in Nat,
         w + p = v + o + l
  PROVE  w + a + m + p >= v + a + (m + l) + o
OBVIOUS

LEMMA CompleteInv ==
  ASSUME IInv, NEW r \in Reporters, NEW l \in Lens, Complete(r, l)
  PROVE  IInv'
<1>a. TasksOK /\ OthersOK /\ IsFiniteSet(Frames)
  BY TypeParts DEF IInv
<1>b. /\ air[l] > 0 /\ air' = [air EXCEPT ![l] = @ - 1] /\ quiet' = 0 /\ GiveBack(l)
      /\ full' = [full EXCEPT ![r] = Full(l)] /\ rpc' = [rpc EXCEPT ![r] = "after"]
      /\ UNCHANGED <<tokens, may_block, sendVars, lost, losses, marked>>
  BY DEF Complete
<1>c. l \in Nat
  BY BudgetConstants
<1>1. TasksOK' /\ Leaving' = Leaving
  BY <1>a, <1>b, TasksStill
<1>2. vacated' \in 0 .. Size /\ (vacated' = Size \/ vacated' = vacated + l)
  BY <1>a, <1>b, <1>c, GivenBack
<1>3. air \in [Lens -> Nat] /\ air' \in [Lens -> Nat]
  <2>1. air \in [Lens -> Nat]
    BY <1>a DEF OthersOK
  <2>2. air[l] - 1 \in Nat
    BY <1>b, <2>1
  <2> QED
    BY <1>b, <2>1, <2>2
<1>4. OthersOK'
  <2>1. rpc' \in [Reporters -> {"idle", "after"}]
    BY <1>a, <1>b DEF OthersOK
  <2>2. Full(l) \in BOOLEAN
    BY DEF Full
  <2>3. full' \in [Reporters -> BOOLEAN]
    BY <1>a, <1>b, <2>2 DEF OthersOK
  <2>4. quiet' \in -1 .. Stale
    BY <1>b, BudgetConstants
  <2> QED
    BY <1>a, <1>b, <1>2, <1>3, <2>1, <2>3, <2>4 DEF OthersOK
<1>5. IsFiniteSet(Frames') /\ InMac = InMac' + l /\ InMac' \in Nat
  BY <1>a, <1>b, <1>3, MacLeaves
<1>6. vacated \in Nat /\ lost \in Nat /\ Leaving \in Nat
  BY BudgetNumbers
<1>7. vacated' = Size \/ vacated' + Leaving' + InMac' + lost' >= vacated + Leaving + InMac + lost
  <2>1. lost' = lost /\ vacated' \in Nat
    BY <1>b, <1>2, BudgetConstants
  <2>2. ASSUME vacated' = vacated + l
        PROVE  vacated' + Leaving + InMac' + lost >= vacated + Leaving + (InMac' + l) + lost
    <3>1. vacated' + lost = vacated + lost + l
      BY <2>2, <1>c, <1>6
    <3> HIDE <2>2
    <3> QED
      BY <1>c, <1>5, <1>6, <2>1, <3>1, Exchange
  <2> QED
    BY <1>1, <1>2, <1>5, <2>1, <2>2, Zenon
<1> QED
  BY <1>1, <1>4, <1>5, <1>6, <1>7, Balanced

LEMMA LoseInv ==
  ASSUME IInv, NEW l \in Lens, Lose(l)
  PROVE  IInv'
<1>a. TasksOK /\ OthersOK /\ IsFiniteSet(Frames)
  BY TypeParts DEF IInv
<1>b. /\ air[l] > 0 /\ losses < Losses /\ air' = [air EXCEPT ![l] = @ - 1]
      /\ lost' = lost + l /\ losses' = losses + 1
      /\ UNCHANGED <<vacated, tokens, may_block, sendVars, rpc, full, lbtVars>>
  BY DEF Lose
<1>c. l \in Nat /\ lost \in Nat /\ vacated \in Nat /\ Leaving \in Nat
  BY BudgetConstants, BudgetNumbers
<1>1. TasksOK' /\ Leaving' = Leaving
  BY <1>a, <1>b, TasksStill
<1>2. air \in [Lens -> Nat] /\ air' \in [Lens -> Nat]
  <2>1. air \in [Lens -> Nat]
    BY <1>a DEF OthersOK
  <2>2. air[l] - 1 \in Nat
    BY <1>b, <2>1
  <2> QED
    BY <1>b, <2>1, <2>2
<1>3. OthersOK'
  <2>1. lost' \in Nat /\ losses' \in 0 .. Losses
    BY <1>a, <1>b, <1>c, BudgetConstants DEF OthersOK
  <2> QED
    BY <1>a, <1>b, <1>2, <2>1 DEF OthersOK, lbtVars
<1>4. IsFiniteSet(Frames') /\ InMac = InMac' + l /\ InMac' \in Nat
  BY <1>a, <1>b, <1>2, MacLeaves
<1>5. vacated' + Leaving' + InMac' + lost' >= vacated + Leaving + InMac + lost
  <2>1. vacated' = vacated /\ lost' \in Nat /\ vacated + lost' = vacated + lost + l
    BY <1>b, <1>c
  <2>2. vacated + Leaving + InMac' + lost' >= vacated + Leaving + (InMac' + l) + lost
    BY <1>c, <1>4, <2>1, Exchange
  <2> QED
    BY <1>1, <1>4, <2>1, <2>2, Zenon
<1> QED
  BY <1>c, <1>1, <1>3, <1>4, <1>5, Balanced

\* Steps that touch tokens and marks only.
LEMMA OtherInv ==
  ASSUME IInv, \/ \E r \in Reporters : CompleteEnd(r)
               \/ AirtimeCycle \/ \E ok \in BOOLEAN : may_block_set(ok)
  PROVE  IInv'
<1>a. TasksOK /\ OthersOK
  BY TypeParts DEF IInv
<1>b. UNCHANGED <<vacated, air, lost, losses, sendVars>>
  BY DEF CompleteEnd, AirtimeCycle, may_block_set
<1>1. TasksOK' /\ Leaving' = Leaving
  BY <1>a, <1>b, TasksStill
<1>2. ASSUME NEW r \in Reporters, CompleteEnd(r) PROVE OthersOK'
  <2>1. tokens' \in 0 .. MaxTokens
    BY <1>2, <1>a, BudgetConstants DEF CompleteEnd, sema_up, Smaller, OthersOK
  <2>2. marked' \in BOOLEAN
    BY <1>2, <1>a, Zenon DEF CompleteEnd, set_tx_as, OthersOK
  <2>3. rpc' \in [Reporters -> {"idle", "after"}] /\ full' \in [Reporters -> BOOLEAN]
    BY <1>2, <1>a DEF CompleteEnd, OthersOK
  <2> QED
    BY <1>2, <1>a, <1>b, <2>1, <2>2, <2>3 DEF CompleteEnd, OthersOK
<1>3. ASSUME AirtimeCycle PROVE OthersOK'
  <2>1. quiet' \in -1 .. Stale
    BY <1>3, <1>a, BudgetConstants DEF AirtimeCycle, Smaller, OthersOK
  <2>2. marked' \in BOOLEAN
    BY <1>3 DEF AirtimeCycle
  <2> QED
    BY <1>3, <1>a, <1>b, <2>1, <2>2 DEF AirtimeCycle, OthersOK
<1>4. ASSUME NEW ok \in BOOLEAN, may_block_set(ok) PROVE OthersOK'
  BY <1>4, <1>a, <1>b DEF may_block_set, OthersOK, lbtVars
<1>5. OthersOK'
  BY <1>2, <1>3, <1>4
<1>6. UNCHANGED <<vacated, air, lost>>
  BY <1>b
<1> QED
  BY <1>1, <1>5, <1>6, StillInv

\* The leak watchdog fills the budget.
LEMMA LeakInv ==
  ASSUME IInv, LeakFound \/ LeakResync
  PROVE  IInv'
<1>a. TasksOK /\ OthersOK /\ IsFiniteSet(Frames) /\ Tick \in Tasks
  BY TypeParts, BudgetConstants DEF IInv
<1>b. UNCHANGED <<len, tries, air, rpc, full, lost, losses, quiet, may_block>>
  BY DEF LeakFound, LeakResync, lbtVars
<1>c. /\ len' = [len EXCEPT ![Tick] = len[Tick]] /\ tries' = [tries EXCEPT ![Tick] = tries[Tick]]
      /\ len[Tick] \in Lens \cup {0} /\ tries[Tick] \in 0 .. Iters - 1
  BY <1>a, <1>b, Same
<1>d. Frames' = Frames /\ InMac' = InMac /\ Leaving \in Nat /\ InMac \in Nat
  BY <1>b, MacSame, BudgetNumbers
<1>1. CASE LeakFound
  <2>1. pc[Tick] = "idle" /\ pc' = [pc EXCEPT ![Tick] = "resync"] /\ UNCHANGED <<vacated, tokens, marked>>
    BY <1>1 DEF LeakFound, Goto, lbtVars
  <2>2. /\ TasksOK' /\ pc'[Tick] = "resync"
        /\ \A u \in Tasks \ {Tick} : pc'[u] = pc[u] /\ len'[u] = len[u]
    BY <1>a, <1>c, <2>1, TaskMoves
  <2>3. Leaving' = Leaving
    BY <1>b, <2>1, <2>2, LeavingSame
  <2>4. OthersOK'
    BY <1>a, <1>b, <2>1 DEF OthersOK
  <2> QED
    BY <1>b, <2>1, <2>2, <2>3, <2>4, StillInv
<1>2. CASE LeakResync
  <2>1. pc[Tick] = "resync" /\ pc' = [pc EXCEPT ![Tick] = "idle"] /\ vacated' = Size
    BY <1>2 DEF LeakResync, Goto
  <2>2. /\ TasksOK' /\ pc'[Tick] = "idle"
        /\ \A u \in Tasks \ {Tick} : pc'[u] = pc[u] /\ len'[u] = len[u]
    BY <1>a, <1>c, <2>1, TaskMoves
  <2>3. Leaving' = Leaving
    BY <1>b, <2>1, <2>2, LeavingSame
  <2>4. OthersOK'
    <3>1. tokens' \in 0 .. MaxTokens /\ vacated' \in 0 .. Size
      BY <1>2, <1>a, <2>1, BudgetConstants DEF LeakResync, sema_up, Smaller, OthersOK
    <3>2. marked' \in BOOLEAN
      BY <1>2, <1>a, Zenon DEF LeakResync, set_tx_as, OthersOK
    <3> QED
      BY <1>a, <1>b, <3>1, <3>2 DEF OthersOK
  <2> QED
    BY <1>a, <1>d, <2>1, <2>2, <2>3, <2>4, Balanced
<1> QED
  BY <1>1, <1>2

LEMMA BudgetStep ==
  ASSUME IInv, [Next]_vars
  PROVE  IInv'
<1>1. CASE UNCHANGED vars
  <2>1. UNCHANGED <<vacated, tokens, may_block, sendVars, air, rpc, full, lost, losses, marked, quiet>>
    BY <1>1 DEF vars, lbtVars
  <2>2. TasksOK /\ OthersOK
    BY TypeParts DEF IInv
  <2>3. TasksOK' /\ Leaving' = Leaving
    BY <2>1, <2>2, TasksStill
  <2>4. OthersOK'
    BY <2>1, <2>2 DEF OthersOK
  <2> QED
    BY <2>1, <2>3, <2>4, StillInv
<1>2. ASSUME NEW t \in Tasks, NEW l \in Lens, SendFrame(t, l) \/ SendShed(t, l) PROVE IInv'
  BY <1>1, <1>2, SendFrameInv DEF SendShed
<1>3. ASSUME NEW t \in Tasks, SendStep(t) PROVE IInv'
  BY <1>3, WaitInv, TimeoutTakeInv, LmacTakesInv, LmacRefusesInv, MarkActiveInv DEF SendStep
<1>4. ASSUME NEW r \in Reporters, NEW l \in Lens, Complete(r, l) PROVE IInv'
  BY <1>4, CompleteInv
<1>5. ASSUME NEW l \in Lens, Lose(l) PROVE IInv'
  BY <1>5, LoseInv
<1>6. CASE LeakFound \/ LeakResync
  BY <1>6, LeakInv
<1>7. CASE \/ \E r \in Reporters : CompleteEnd(r)
           \/ AirtimeCycle \/ \E ok \in BOOLEAN : may_block_set(ok)
  BY <1>7, OtherInv
<1> QED
  BY <1>1, <1>2, <1>3, <1>4, <1>5, <1>6, <1>7 DEF Next

LEMMA BudgetInit ==
  ASSUME Init
  PROVE  IInv
<1>1. TypeOK
  <2>1. TasksOK
    BY BudgetConstants DEF Init, TasksOK
  <2>2. OthersOK
    <3>1. /\ vacated \in 0 .. Size /\ tokens \in 0 .. MaxTokens /\ lost \in Nat
          /\ losses \in 0 .. Losses /\ quiet \in -1 .. Stale
      BY BudgetConstants DEF Init
    <3>2. /\ air \in [Lens -> Nat] /\ rpc \in [Reporters -> {"idle", "after"}]
          /\ full \in [Reporters -> BOOLEAN]
      BY DEF Init
    <3>3. may_block \in BOOLEAN /\ marked \in BOOLEAN
      BY Zenon DEF Init
    <3> QED
      BY <3>1, <3>2, <3>3 DEF OthersOK
  <2> QED
    BY <2>1, <2>2, TypeParts
<1>2. Frames = {}
  <2>1. \A l \in Lens : 1 .. air[l] = {}
    BY DEF Init
  <2> QED
    BY <2>1 DEF Frames
<1>3. IsFiniteSet(Frames)
  BY <1>2, FS_EmptySet
<1>4. NothingWithheld
  <2>1. Leaving \in Nat /\ InMac \in Nat
    BY <1>3, SendingFinite, BytesFinite DEF Leaving, InMac
  <2>2. vacated = Size /\ lost = 0
    BY DEF Init
  <2>3. vacated + (Leaving + InMac) + lost >= Size
    BY <2>1, <2>2, BudgetConstants
  <2> QED
    BY <2>3 DEF NothingWithheld, Held, Leaving, InMac
<1> QED
  BY <1>1, <1>3, <1>4 DEF IInv

-----------------------------------------------------------------------------

\* The transmit budget keeps IInv.
THEOREM BudgetInvariance == Spec => []IInv
<1>1. Init => IInv
  BY BudgetInit
<1>2. IInv /\ [Next]_vars => IInv'
  BY BudgetStep
<1> QED
  BY <1>1, <1>2, PTL DEF Spec

\* The budget, the semaphore and the tasks' counters stay in their ranges, whatever
\* the order of takes, refunds and the watchdog's resync.
THEOREM BudgetTypeCorrect == Spec => []TypeOK
<1>1. IInv => TypeOK
  BY DEF IInv
<1> QED
  BY <1>1, BudgetInvariance, PTL

\* No byte of the budget is withheld: every path of halow_send_frame and of the
\* completion gives back what it took.
THEOREM NothingWithheldCorrect == Spec => []NothingWithheld
<1>1. IInv => NothingWithheld
  BY DEF IInv
<1> QED
  BY <1>1, BudgetInvariance, PTL
=============================================================================
