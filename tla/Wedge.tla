------------------------------- MODULE Wedge --------------------------------
(***************************************************************************)
(* The hard-wedge watchdog (halow.c, tx_watchdog_hard_wedge): when work is *)
(* pending and no completion comes it purges the MAC's queues, again and   *)
(* again, and at last restarts the node.                                   *)
(*                                                                         *)
(* It runs every 10 ms in the tick task, so before any of its periods has  *)
(* passed it has seen what there is to see. Points in time are kept as     *)
(* ages in units of its shortest period, -1 for none. Work is pending      *)
(* while frames are queued, and also while the budget is short because the *)
(* MAC never reported a frame (TxBudget); the leak watchdog, which would   *)
(* mend that, runs only when no work is pending.                           *)
(***************************************************************************)
EXTENDS Integers

CONSTANTS
  WedgeTmo,     \* HALOW_TX_WEDGE_TMO_MS
  ContendTmo,   \* HALOW_TX_WEDGE_CONTEND_MS
  RebootTmo,    \* HALOW_TX_WEDGE_REBOOT_MS
  Strikes,      \* HALOW_TX_WEDGE_STRIKES
  MaxQueue      \* bound: frames in the MAC's queues

ASSUME WedgeAssumption ==
  /\ {WedgeTmo, ContendTmo, RebootTmo, Strikes, MaxQueue} \subseteq Nat \ {0}
  /\ WedgeTmo < ContendTmo /\ ContendTmo < RebootTmo

VARIABLES
  queued,       \* frames in the MAC
  leaked,       \* a completion was lost: the budget stays short
  dead,         \* the radio does not work and never will
  seq_moved,    \* g_tx_complete_seq # wedge_last_seq
  acpd_moved,   \* lmac_ac_pd_count # wedge_last_acpd
  wedge_since, wedge_purge, dead_strikes,
  purge_req,    \* lmac_tx_purge_request
  wpc,          \* the tick task: "run", or "reboot" in the pause before device_reboot
  mute,         \* history: time since a completion or since work came up
  silent        \* history: purges since then that found no channel access, in a row

radioVars == <<queued, leaked, dead, purge_req>>
countVars == <<wedge_since, wedge_purge, dead_strikes, wpc>>
wedgeVars == <<radioVars, seq_moved, acpd_moved, countVars, mute, silent>>

WedgeInit ==
  /\ queued = 0 /\ leaked = FALSE /\ dead = FALSE /\ purge_req = FALSE
  /\ seq_moved = FALSE /\ acpd_moved = FALSE
  /\ wedge_since = -1 /\ wedge_purge = -1 /\ dead_strikes = 0
  /\ wpc = "run" /\ mute = 0 /\ silent = 0

WedgeBoot ==
  /\ queued' = 0 /\ leaked' = FALSE /\ dead' = FALSE /\ purge_req' = FALSE
  /\ seq_moved' = FALSE /\ acpd_moved' = FALSE
  /\ wedge_since' = -1 /\ wedge_purge' = -1 /\ dead_strikes' = 0
  /\ wpc' = "run" /\ mute' = 0 /\ silent' = 0

-----------------------------------------------------------------------------
(* The MAC. *)

work_pending == queued > 0 \/ leaked

Enqueue ==
  /\ queued < MaxQueue /\ queued' = queued + 1
  /\ mute' = IF work_pending THEN mute ELSE 0
  /\ silent' = IF work_pending THEN silent ELSE 0
  /\ UNCHANGED <<leaked, dead, purge_req, seq_moved, acpd_moved, countVars>>

\* halow_tx_skb_complete.
Completed == seq_moved' = TRUE /\ mute' = 0 /\ silent' = 0

Transmit ==
  /\ queued > 0 /\ ~dead
  /\ queued' = queued - 1
  /\ Completed
  /\ UNCHANGED <<leaked, dead, purge_req, acpd_moved, countVars>>

\* A frame goes without a report.
LoseReport ==
  /\ queued > 0
  /\ queued' = queued - 1 /\ leaked' = TRUE
  /\ UNCHANGED <<dead, purge_req, seq_moved, acpd_moved, countVars, mute, silent>>

\* The interrupt for channel access.
ChannelAccess ==
  /\ ~dead /\ acpd_moved' = TRUE
  /\ UNCHANGED <<radioVars, seq_moved, countVars, mute, silent>>

Die ==
  /\ ~dead /\ dead' = TRUE
  /\ UNCHANGED <<queued, leaked, purge_req, seq_moved, acpd_moved, countVars, mute, silent>>

\* lmac_tx_purge_ac_queues completes everything that is queued: the watchdog
\* cannot tell these completions from transmissions.
Purge ==
  /\ purge_req /\ purge_req' = FALSE
  /\ queued' = 0
  /\ IF queued > 0 THEN Completed ELSE UNCHANGED <<seq_moved, mute, silent>>
  /\ UNCHANGED <<leaked, dead, acpd_moved, countVars>>

-----------------------------------------------------------------------------
(* tx_watchdog_hard_wedge. *)

RunIdle ==
  /\ wpc = "run" /\ ~work_pending
  /\ wedge_since' = -1 /\ wedge_purge' = -1 /\ dead_strikes' = 0
  /\ UNCHANGED <<radioVars, seq_moved, acpd_moved, wpc, mute, silent>>

\* Mutant: a completion does not start the wait over.
RunMoving_on ==
  /\ wpc = "run" /\ work_pending /\ seq_moved
  /\ seq_moved' = FALSE /\ acpd_moved' = FALSE
  /\ UNCHANGED <<radioVars, wedge_since, wedge_purge, dead_strikes, wpc, mute, silent>>

\* A completion came; the strikes stay.
RunMoving ==
  /\ wpc = "run" /\ work_pending /\ seq_moved
  /\ wedge_since' = -1 /\ wedge_purge' = -1
  /\ seq_moved' = FALSE /\ acpd_moved' = FALSE
  /\ UNCHANGED <<radioVars, dead_strikes, wpc, mute, silent>>

Stuck == work_pending /\ ~seq_moved

\* wedge_since counts from this run on if it did not before.
since == IF wedge_since = -1 THEN 0 ELSE wedge_since

\* A channel in use by others is given more time.
wedge_thresh == IF acpd_moved THEN ContendTmo ELSE WedgeTmo

purge_due ==
  /\ since >= wedge_thresh
  /\ wedge_purge = -1 \/ wedge_purge >= wedge_thresh

RunPurge ==
  /\ wpc = "run" /\ Stuck /\ purge_due
  /\ wedge_since' = since /\ wedge_purge' = 0 /\ acpd_moved' = FALSE
  /\ dead_strikes' = IF acpd_moved THEN 0
                     ELSE IF dead_strikes = Strikes THEN Strikes ELSE dead_strikes + 1
  /\ silent' = IF acpd_moved THEN 0 ELSE IF silent = Strikes THEN Strikes ELSE silent + 1
  /\ purge_req' = TRUE
  /\ UNCHANGED <<queued, leaked, dead, seq_moved, wpc, mute>>

last_resort == since >= RebootTmo /\ dead_strikes >= Strikes

\* The guard is asked only when it comes to that.
RunWait(held_off) ==
  /\ wpc = "run" /\ Stuck /\ ~purge_due
  /\ last_resort => held_off
  /\ wedge_since' = since
  /\ UNCHANGED <<radioVars, seq_moved, acpd_moved, wedge_purge, dead_strikes, wpc, mute, silent>>

RunReboot(held_off) ==
  /\ wpc = "run" /\ Stuck /\ ~purge_due /\ last_resort /\ ~held_off
  /\ wpc' = "reboot" /\ wedge_since' = since
  /\ UNCHANGED <<radioVars, seq_moved, acpd_moved, wedge_purge, dead_strikes, mute, silent>>

-----------------------------------------------------------------------------

Older(age, cap) == IF age = -1 \/ age = cap THEN age ELSE age + 1

\* A run would change nothing.
Settled(held_off) ==
  /\ wpc = "run"
  /\ IF work_pending
       THEN ~seq_moved /\ wedge_since # -1 /\ ~purge_due /\ (last_resort => held_off)
       ELSE wedge_since = -1 /\ wedge_purge = -1 /\ dead_strikes = 0

WedgePass(held_off) ==
  /\ Settled(held_off)
  /\ wedge_since' = Older(wedge_since, RebootTmo)
  /\ wedge_purge' = Older(wedge_purge, ContendTmo)
  /\ mute' = IF work_pending THEN Older(mute, RebootTmo) ELSE 0
  /\ UNCHANGED <<radioVars, seq_moved, acpd_moved, dead_strikes, wpc, silent>>

WedgeTypeOK ==
  /\ queued \in 0 .. MaxQueue
  /\ leaked \in BOOLEAN /\ dead \in BOOLEAN /\ purge_req \in BOOLEAN
  /\ seq_moved \in BOOLEAN /\ acpd_moved \in BOOLEAN
  /\ wedge_since \in -1 .. RebootTmo /\ wedge_purge \in -1 .. ContendTmo
  /\ dead_strikes \in 0 .. Strikes /\ silent \in 0 .. Strikes
  /\ wpc \in {"run", "reboot"} /\ mute \in 0 .. RebootTmo
=============================================================================
