------------------------------- MODULE Guard --------------------------------
(***************************************************************************)
(* Who may restart the node, and when: the watchdog of the radio (Wedge),  *)
(* the web interface and an Ethernet frame, while updates are under way    *)
(* (Ota). The three run in tasks of their own, and the watchdog pauses     *)
(* between its decision and the restart.                                   *)
(***************************************************************************)
EXTENDS Ota, Wedge

VARIABLE restart   \* history: who restarted the node in the last step, or "nobody"

vars == <<otaVars, wedgeVars, restart>>

Init == OtaInit /\ WedgeInit /\ restart = "nobody"

-----------------------------------------------------------------------------

Runs == restart' = "nobody"

Mac ==
  /\ Enqueue \/ Transmit \/ LoseReport \/ ChannelAccess \/ Die
  /\ Runs /\ UNCHANGED otaVars

PurgeServed == Purge /\ Runs /\ UNCHANGED otaVars

Update ==
  /\ \/ ota_fw_begin(wpc = "reboot") \/ ota_fw_end \/ ota_wota_file_end
     \/ \E ok \in BOOLEAN : ota_lfs_file_begin(ok)
     \/ \E k \in Chunks :
          \/ ota_fw_write_chunk(k) \/ ota_fw_write_fails(k)
          \/ EthChunk(k) \/ EthChunkFails(k)
  /\ Runs /\ UNCHANGED wedgeVars

\* One run of the watchdog. Asking ota_fw_active, which is not asked while a file is
\* open, may end a session that is too old.
Watchdog ==
  /\ \/ (RunIdle \/ RunMoving) /\ UNCHANGED fw_active
     \/ /\ RunPurge \/ RunWait(guarded) \/ RunReboot(guarded)
        /\ IF since >= RebootTmo /\ dead_strikes' = Strikes /\ ~wota
             THEN Expire ELSE UNCHANGED fw_active
  /\ Runs /\ UNCHANGED <<fw_age, erased, flash, held, toldVars, wota>>

Restart(who) == restart' = who /\ OtaBoot /\ WedgeBoot

\* The watchdog's pause is over.
DeviceReboot == wpc = "reboot" /\ Restart("watchdog")

\* Mutant: the web interface does not ask.
web_api_reboot_any == Restart("web")

\* web_api_reboot_post and web_api_default_reset.
web_api_reboot == ~guarded /\ Restart("web")

\* They refuse, having asked for the firmware session first.
web_api_refused ==
  /\ guarded /\ Expire
  /\ Runs /\ UNCHANGED <<fw_age, erased, flash, held, toldVars, wota, wedgeVars>>

\* ota_cmd_reboot asks nobody.
EthReboot == Restart("eth")

\* Time passes.
Pass ==
  /\ OtaPass /\ WedgePass(guarded)
  /\ Runs /\ UNCHANGED <<fw_active, erased, flash, wota, held, toldVars>>

Next ==
  \/ Mac \/ PurgeServed \/ Update \/ Watchdog \/ Pass
  \/ web_api_reboot \/ web_api_refused \/ DeviceReboot \/ EthReboot

Spec == Init /\ [][Next]_vars

\* Time passes, whatever frames come meanwhile, and the tick task and the MAC's
\* transmit task are scheduled.
FairSpec ==
  Spec /\ SF_vars(Pass) /\ WF_vars(Watchdog) /\ WF_vars(DeviceReboot) /\ WF_vars(PurgeServed)

-----------------------------------------------------------------------------
(* Properties. *)

TypeOK == OtaTypeOK /\ WedgeTypeOK /\ restart \in {"nobody", "watchdog", "web", "eth"}

\* The watchdog gives a node up only after no completion for the whole time and
\* enough purges in a row that found the radio silent, although its strikes are
\* not reset by completions and channel access changes its deadlines on the way.
RebootOnlyWhenMute ==
  [][(wpc = "run" /\ wpc' = "reboot") => mute = RebootTmo /\ silent = Strikes]_vars

\* No restart by the watchdog or the web interface hits a web session in which a
\* chunk was written within the timeout, so while the partition is half written;
\* the exceptions are an Ethernet update in between, which shares its flag, and
\* a session that begins in the watchdog's pause.
SessionSurvives == [][restart' \in {"watchdog", "web"} => ~(held /\ Fresh)]_vars

\* The budget is short for good, the radio is dead, nothing is queued, no file is
\* open and no chunk was written just now.
Forsaken == leaked /\ dead /\ queued = 0 /\ ~wota /\ ~(fw_active /\ fw_age = 0)

\* No node stays like that, although an update may have been abandoned with its
\* session open: purges, strikes and the session's timeout end in a restart.
ForsakenRestarts == Forsaken ~> ~Forsaken
=============================================================================
