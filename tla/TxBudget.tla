------------------------------ MODULE TxBudget ------------------------------
(***************************************************************************)
(* The radio's transmit budget (halow.c): bytes that may still be handed   *)
(* to the MAC. A task takes a frame's bytes before it gives the frame to   *)
(* the MAC; the completion callback gives them back, in another task.      *)
(*                                                                         *)
(* A task that finds too little may wait, if blocking is allowed, on a     *)
(* semaphore that every completion raises. os_sema_down answers 1 when it  *)
(* took a token and 0 when the time was up (so in libs/libosal.a, and so   *)
(* read by every other caller); tx_budget_wait takes 0 for success.        *)
(*                                                                         *)
(* The transmitter is also marked active for the airtime account           *)
(* (halow_lbt.c), after the frame is out and without a common lock.        *)
(***************************************************************************)
EXTENDS Integers, FiniteSets

CONSTANTS
  Tasks,      \* the tasks that send
  Tick,       \* the one among them that runs halow_tx_vacancy_watchdog
  Reporters,  \* the tasks that call halow_tx_skb_complete
  Size,       \* TX_BUFFER_SIZE
  Lens,       \* lengths of frames
  Iters,      \* HALOW_TX_BLOCK_ITERS
  MaxTokens,  \* the most a semaphore counts (65535)
  Stale,      \* airtime cycles without a completion that make a mark stale
  Losses      \* bound: completions the MAC never reports

ASSUME TxBudgetAssumption ==
  /\ Tick \in Tasks /\ IsFiniteSet(Tasks)
  /\ {Size, Iters, MaxTokens, Stale} \subseteq Nat \ {0} /\ Losses \in Nat
  /\ Lens \subseteq 1 .. Size

VARIABLES
  vacated,    \* g_tx_vacated_bytes
  tokens,     \* g_tx_vacated_sem
  may_block,  \* g_tx_may_block
  pc, len, tries,  \* each task in halow_send_frame, or in the leak watchdog
  air,        \* frames in the MAC, by length
  rpc, full,  \* each reporter in halow_tx_skb_complete
  lost,       \* bytes of frames whose completion never came
  losses,     \* how many of them
  marked,     \* airtime_tx_active
  quiet       \* airtime cycles since the last completion (-1: none since boot)

sendVars == <<pc, len, tries>>
lbtVars == <<marked, quiet>>
vars == <<vacated, tokens, may_block, sendVars, air, rpc, full, lost, losses, lbtVars>>

Init ==
  /\ vacated = Size /\ tokens = 0 /\ may_block = FALSE
  /\ pc = [t \in Tasks |-> "idle"] /\ len = [t \in Tasks |-> 0] /\ tries = [t \in Tasks |-> 0]
  /\ air = [l \in Lens |-> 0]
  /\ rpc = [r \in Reporters |-> "idle"] /\ full = [r \in Reporters |-> FALSE]
  /\ lost = 0 /\ losses = 0
  /\ marked = FALSE /\ quiet = -1

-----------------------------------------------------------------------------
(* Helpers. *)

Smaller(a, b) == IF a < b THEN a ELSE b

\* os_sema_up: a full semaphore stays as it is.
sema_up == tokens' = Smaller(tokens + 1, MaxTokens)

\* Mutant: the bytes are added without a limit.
GiveBackUncapped(l) == vacated' = vacated + l

\* The budget never counts above its size.
GiveBack(l) == vacated' = Smaller(vacated + l, Size)

Full(l) == vacated + l >= Size

Goto(t, where) == pc' = [pc EXCEPT ![t] = where]

\* Back to the caller: 0, or an error that sheds the frame.
Return(t) ==
  /\ Goto(t, "idle")
  /\ len' = [len EXCEPT ![t] = 0] /\ tries' = [tries EXCEPT ![t] = 0]

\* halow_lbt_set_tx_as_active and _deactive wait 10 ms for the mutex that the
\* airtime task holds while it samples, and then give up.
set_tx_as(active) == marked' = active \/ UNCHANGED marked

-----------------------------------------------------------------------------
(* halow_send_frame. *)

\* tx_budget_take, with interrupts off.
take(l) == vacated >= l /\ vacated' = vacated - l

SendFrame(t, l) ==
  /\ pc[t] = "idle"
  /\ len' = [len EXCEPT ![t] = l]
  /\ \/ take(l) /\ Goto(t, "send")
     \/ vacated < l /\ may_block /\ Goto(t, "wait") /\ UNCHANGED vacated
  /\ UNCHANGED <<tokens, may_block, tries, air, rpc, full, lost, losses, lbtVars>>

\* Blocking is not allowed: the frame is shed at once.
SendShed(t, l) ==
  /\ pc[t] = "idle" /\ vacated < l /\ ~may_block
  /\ UNCHANGED vars

\* Mutant: a try that took a token is not counted.
TokenTakenFree(t) ==
  /\ pc[t] = "wait" /\ tokens > 0
  /\ tokens' = tokens - 1
  /\ UNCHANGED <<vacated, may_block, sendVars, air, rpc, full, lost, losses, lbtVars>>

\* One turn of tx_budget_wait: os_sema_down took a token and answered 1, which
\* is not 0, so the budget is not looked at.
TokenTaken(t) ==
  /\ pc[t] = "wait" /\ tokens > 0
  /\ tokens' = tokens - 1
  /\ IF tries[t] + 1 = Iters THEN Return(t)
     ELSE tries' = [tries EXCEPT ![t] = @ + 1] /\ UNCHANGED <<pc, len>>
  /\ UNCHANGED <<vacated, may_block, air, rpc, full, lost, losses, lbtVars>>

\* Another: 20 ms passed without a token. The answer is 0, and the bytes are taken
\* if they are there.
TimeoutTake(t) ==
  /\ pc[t] = "wait" /\ tokens = 0
  /\ take(len[t])
  /\ Goto(t, "send") /\ tries' = [tries EXCEPT ![t] = 0]
  /\ UNCHANGED <<tokens, may_block, len, air, rpc, full, lost, losses, lbtVars>>

TimeoutShort(t) ==
  /\ pc[t] = "wait" /\ tokens = 0 /\ vacated < len[t]
  /\ IF tries[t] + 1 = Iters THEN Return(t)
     ELSE tries' = [tries EXCEPT ![t] = @ + 1] /\ UNCHANGED <<pc, len>>
  /\ UNCHANGED <<vacated, tokens, may_block, air, rpc, full, lost, losses, lbtVars>>

\* lmac_fast_tx or lmac_tx takes the frame.
LmacTakes(t) ==
  /\ pc[t] = "send"
  /\ air' = [air EXCEPT ![len[t]] = @ + 1]
  /\ Goto(t, "mark")
  /\ UNCHANGED <<vacated, tokens, may_block, len, tries, rpc, full, lost, losses, lbtVars>>

\* Mutant: the bytes of a frame the MAC refuses are kept.
LmacRefusesKept(t) ==
  /\ pc[t] = "send"
  /\ Return(t)
  /\ UNCHANGED <<vacated, tokens, may_block, air, rpc, full, lost, losses, lbtVars>>

\* It refuses and frees it: halow_tx_skb_budget_refund, which raises no token.
LmacRefuses(t) ==
  /\ pc[t] = "send"
  /\ GiveBack(len[t])
  /\ IF Full(len[t]) THEN set_tx_as(FALSE) ELSE UNCHANGED marked
  /\ Return(t)
  /\ UNCHANGED <<tokens, may_block, air, rpc, full, lost, losses, quiet>>

\* The completion may have come before this.
MarkActive(t) ==
  /\ pc[t] = "mark"
  /\ set_tx_as(TRUE)
  /\ Return(t)
  /\ UNCHANGED <<vacated, tokens, may_block, air, rpc, full, lost, losses, quiet>>

\* The steps of a wait and of a send under way.
SendStep(t) ==
  \/ TokenTaken(t) \/ TimeoutTake(t) \/ TimeoutShort(t)
  \/ LmacTakes(t) \/ LmacRefuses(t) \/ MarkActive(t)

\* halow_tx_may_block_set, by the tcps task for as long as it serves a client.
may_block_set(ok) ==
  /\ may_block' = ok
  /\ UNCHANGED <<vacated, tokens, sendVars, air, rpc, full, lost, losses, lbtVars>>

-----------------------------------------------------------------------------
(* halow_tx_skb_complete, by the MAC's status task and by its transmit task     *)
(* when that purges the queues (lmac_tx_purge_ac_queues).                       *)

\* With interrupts off: the heartbeat, and the bytes.
Complete(r, l) ==
  /\ rpc[r] = "idle" /\ air[l] > 0
  /\ air' = [air EXCEPT ![l] = @ - 1]
  /\ quiet' = 0
  /\ GiveBack(l)
  /\ full' = [full EXCEPT ![r] = Full(l)]
  /\ rpc' = [rpc EXCEPT ![r] = "after"]
  /\ UNCHANGED <<tokens, may_block, sendVars, lost, losses, marked>>

\* With interrupts on again: the mark goes if the budget was full then, and a
\* waiting task is woken.
CompleteEnd(r) ==
  /\ rpc[r] = "after"
  /\ IF full[r] THEN set_tx_as(FALSE) ELSE UNCHANGED marked
  /\ sema_up
  /\ rpc' = [rpc EXCEPT ![r] = "idle"] /\ full' = [full EXCEPT ![r] = FALSE]
  /\ UNCHANGED <<vacated, may_block, sendVars, air, lost, losses, quiet>>

\* The MAC drops a frame and never reports it.
Lose(l) ==
  /\ air[l] > 0 /\ losses < Losses
  /\ air' = [air EXCEPT ![l] = @ - 1]
  /\ lost' = lost + l /\ losses' = losses + 1
  /\ UNCHANGED <<vacated, tokens, may_block, sendVars, rpc, full, lbtVars>>

-----------------------------------------------------------------------------
(* tx_watchdog_budget_leak, in the tick task. *)

Queued == \E l \in Lens : air[l] > 0

work_pending == vacated < Size \/ Queued

\* Nothing was pending for HALOW_TX_LEAK_TMO_MS.
LeakFound ==
  /\ pc[Tick] = "idle" /\ ~work_pending
  /\ Goto(Tick, "resync")
  /\ UNCHANGED <<vacated, tokens, may_block, len, tries, air, rpc, full, lost, losses, lbtVars>>

\* After the log line the budget is set, whatever was taken meanwhile.
LeakResync ==
  /\ pc[Tick] = "resync"
  /\ vacated' = Size
  /\ set_tx_as(FALSE)
  /\ sema_up
  /\ Goto(Tick, "idle")
  /\ UNCHANGED <<may_block, len, tries, air, rpc, full, lost, losses, quiet>>

-----------------------------------------------------------------------------
(* halow_lbt_task, once in an airtime period. *)

\* Mutant: a mark is never taken for stale.
AirtimeCycleTrusting ==
  /\ quiet' = IF quiet < 0 THEN quiet ELSE Smaller(quiet + 1, Stale)
  /\ UNCHANGED marked
  /\ UNCHANGED <<vacated, tokens, may_block, sendVars, air, rpc, full, lost, losses>>

\* A mark that no completion has confirmed for two periods is dropped.
AirtimeCycle ==
  /\ quiet' = IF quiet < 0 THEN quiet ELSE Smaller(quiet + 1, Stale)
  /\ marked' = (marked /\ quiet < Stale)
  /\ UNCHANGED <<vacated, tokens, may_block, sendVars, air, rpc, full, lost, losses>>

-----------------------------------------------------------------------------

Next ==
  \/ \E t \in Tasks, l \in Lens : SendFrame(t, l) \/ SendShed(t, l)
  \/ \E t \in Tasks : SendStep(t)
  \/ \E r \in Reporters : (\E l \in Lens : Complete(r, l)) \/ CompleteEnd(r)
  \/ \E l \in Lens : Lose(l)
  \/ LeakFound \/ LeakResync \/ AirtimeCycle
  \/ \E ok \in BOOLEAN : may_block_set(ok)

Spec == Init /\ [][Next]_vars

\* The tasks that send and the airtime task are scheduled. The MAC promises
\* nothing: a frame may stay in it for ever.
FairSpec == Spec /\ (\A t \in Tasks : WF_vars(SendStep(t))) /\ WF_vars(AirtimeCycle)

-----------------------------------------------------------------------------
(* Properties. *)

TypeOK ==
  /\ vacated \in 0 .. Size /\ tokens \in 0 .. MaxTokens /\ may_block \in BOOLEAN
  /\ pc \in [Tasks -> {"idle", "wait", "send", "mark", "resync"}]
  /\ len \in [Tasks -> Lens \union {0}] /\ tries \in [Tasks -> 0 .. Iters - 1]
  /\ \A t \in Tasks : pc[t] \in {"wait", "send", "mark"} => len[t] # 0
  /\ air \in [Lens -> Nat]
  /\ rpc \in [Reporters -> {"idle", "after"}] /\ full \in [Reporters -> BOOLEAN]
  /\ lost \in Nat /\ losses \in 0 .. Losses
  /\ marked \in BOOLEAN /\ quiet \in -1 .. Stale

\* The bytes of the members of S, of which x has n[x].
BytesOf(S, n) == {xb \in S \X (1 .. Size) : xb[2] <= n[xb[1]]}

\* The tasks with a frame on the way to the MAC, and the frames in the MAC.
Sending == {t \in Tasks : pc[t] = "send"}
Frames == UNION {{l} \X (1 .. air[l]) : l \in Lens}

\* The bytes of the frames between the budget and the completion.
Held ==
  Cardinality(BytesOf(Sending, len)) + Cardinality(BytesOf(Frames, [f \in Frames |-> f[1]]))

\* No byte of the budget is withheld: what is neither free nor in a frame was in
\* a frame whose completion the MAC lost. A path that forgot to give back would
\* shrink the radio's throughput for good, as nothing makes up for it.
NothingWithheld == vacated + Held + lost >= Size

\* Marked active with no frame in the MAC nor on the way to it.
Outlived == marked /\ ~Queued /\ \A t \in Tasks : pc[t] \notin {"send", "mark"}

\* A mark that outlived its frames, because the completion came before the mark
\* or found the mutex taken, does not charge the air for ever: it is dropped in
\* the end, or a new frame is sent.
MarkHeals == (Outlived /\ quiet >= 0) ~> ~Outlived

\* A task that waits gets an answer although tokens may come for ever and the
\* budget may stay short: the wait is bounded.
WaitEnds == \A t \in Tasks : pc[t] = "wait" ~> pc[t] # "wait"

\* A frame is shed only when the budget has no room for it.
ShedOnlyWhenShort ==
  [][\A t \in Tasks : (pc[t] = "wait" /\ pc'[t] = "idle") => vacated < len[t]]_vars
=============================================================================
