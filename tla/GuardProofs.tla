---------------------------- MODULE GuardProofs -----------------------------
(***************************************************************************)
(* Theorems about Guard, for any length of image and any periods: what a   *)
(* web session was told is written, with two exceptions; no restart that   *)
(* asks first cuts it off; and the watchdog restarts only a mute node.     *)
(***************************************************************************)
EXTENDS Guard, TLAPS

\* While a session is open, an erased partition holds nothing but chunks of the web
\* and what Ethernet wrote, so that programming another chunk cannot spoil it.
CleanOrForeign ==
  (fw_active /\ erased) => \A k \in Chunks : flash[k] \in {"erased", "web"} \/ k \in foreign

\* The flag of an undisturbed web session is down only after its timeout.
HeldIsActive == held => fw_active \/ ~Fresh

\* The watchdog has decided: no web session that it asked for is open, and one that
\* begins now does not count.
DecidedUnheld == wpc = "reboot" => ~(held /\ (fw_active \/ Fresh))

IInv == TypeOK /\ AckedIsFlashed /\ CleanOrForeign /\ HeldIsActive /\ DecidedUnheld

\* The types of the Boolean variables, and of the others.
OtaFlags == fw_active \in BOOLEAN /\ erased \in BOOLEAN /\ wota \in BOOLEAN /\ held \in BOOLEAN
OtaData ==
  /\ fw_age \in 0 .. FwTimeout + 1 /\ flash \in [Chunks -> {"erased", "web", "other"}]
  /\ acked \subseteq Chunks /\ lost \subseteq Chunks /\ foreign \subseteq Chunks
WedgeFlags ==
  /\ leaked \in BOOLEAN /\ dead \in BOOLEAN /\ purge_req \in BOOLEAN
  /\ seq_moved \in BOOLEAN /\ acpd_moved \in BOOLEAN
WedgeData ==
  /\ queued \in 0 .. MaxQueue
  /\ wedge_since \in -1 .. RebootTmo /\ wedge_purge \in -1 .. ContendTmo
  /\ dead_strikes \in 0 .. Strikes /\ silent \in 0 .. Strikes
  /\ wpc \in {"run", "reboot"} /\ mute \in 0 .. RebootTmo

\* The two halves of the type of the sessions.
LEMMA OtaTypes == OtaTypeOK <=> OtaFlags /\ OtaData
BY DEF OtaTypeOK, OtaFlags, OtaData

\* And of the watchdog.
LEMMA WedgeTypes == WedgeTypeOK <=> WedgeFlags /\ WedgeData
BY DEF WedgeTypeOK, WedgeFlags, WedgeData

\* An image has a first and a last chunk.
LEMMA ChunkZero == 0 \in Chunks /\ LastChunk \in Chunks
BY OtaAssumption DEF Chunks

\* The periods and bounds are numbers.
LEMMA WedgeConsts ==
  /\ WedgeTmo \in Nat /\ ContendTmo \in Nat /\ RebootTmo \in Nat /\ MaxQueue \in Nat
  /\ Strikes \in Nat \ {0}
BY WedgeAssumption

\* Initially no session is open.
LEMMA InitInv == Init => IInv
<1> SUFFICES ASSUME Init PROVE IInv
  OBVIOUS
<1>1. OtaTypeOK
  <2>1. OtaFlags
    BY Zenon DEF Init, OtaInit, OtaFlags
  <2>2. fw_age = 0 /\ flash = [k \in Chunks |-> "other"]
        /\ acked = {} /\ lost = {} /\ foreign = {} /\ fw_active = FALSE
    BY Zenon DEF Init, OtaInit
  <2>3. OtaData
    BY <2>2, OtaAssumption DEF OtaData
  <2> QED
    BY <2>1, <2>3, OtaTypes
<1>2. WedgeTypeOK
  <2>1. WedgeFlags
    BY Zenon DEF Init, WedgeInit, WedgeFlags
  <2>2. /\ queued = 0 /\ wedge_since = -1 /\ wedge_purge = -1 /\ dead_strikes = 0
        /\ wpc = "run" /\ mute = 0 /\ silent = 0
    BY Zenon DEF Init, WedgeInit
  <2>3. WedgeData
    BY <2>2, WedgeConsts DEF WedgeData
  <2> QED
    BY <2>1, <2>3, WedgeTypes
<1>3. held = FALSE /\ fw_active = FALSE /\ acked = {} /\ restart = "nobody"
  BY DEF Init, OtaInit
<1> QED
  BY <1>1, <1>2, <1>3
     DEF IInv, TypeOK, AckedIsFlashed, CleanOrForeign, HeldIsActive, DecidedUnheld

\* The MAC and a served purge leave the sessions alone.
LEMMA MacInv == ASSUME IInv, Mac \/ PurgeServed PROVE IInv'
<1>a. WedgeTypeOK
  BY DEF IInv, TypeOK
<1>1. WedgeTypeOK'
  <2> USE <1>a, WedgeConsts DEF WedgeTypeOK, countVars, radioVars
  <2>1. CASE Enqueue
    BY <2>1 DEF Enqueue
  <2>2. CASE Transmit
    BY <2>2 DEF Transmit, Completed
  <2>3. CASE LoseReport
    BY <2>3 DEF LoseReport
  <2>4. CASE ChannelAccess
    BY <2>4 DEF ChannelAccess
  <2>5. CASE Die
    BY <2>5 DEF Die
  <2>6. CASE Purge
    <3>1. WedgeFlags'
      BY <2>6, Zenon DEF Purge, Completed, WedgeFlags
    <3>2. queued' = 0 /\ mute' \in {0, mute} /\ silent' \in {0, silent} /\ UNCHANGED countVars
      BY <2>6, Zenon DEF Purge, Completed
    <3>3. WedgeData'
      BY <3>2 DEF WedgeData
    <3> QED
      BY <3>1, <3>3 DEF WedgeFlags, WedgeData
  <2> QED
    BY <2>1, <2>2, <2>3, <2>4, <2>5, <2>6 DEF Mac, PurgeServed
<1>2. wpc' = wpc /\ UNCHANGED otaVars /\ restart' = "nobody"
  BY DEF Mac, PurgeServed, Enqueue, Transmit, LoseReport, ChannelAccess, Die, Purge, countVars, Runs
<1> QED
  BY <1>1, <1>2
     DEF IInv, TypeOK, OtaTypeOK, AckedIsFlashed, CleanOrForeign, HeldIsActive, DecidedUnheld,
         Fresh, otaVars, fwVars, toldVars

\* What a chunk does to the partition.
LEMMA StoredType ==
  ASSUME OtaTypeOK, NEW k \in Chunks, NEW who \in {"web", "eth"}
  PROVE  Stored(k, who) \in [Chunks -> {"erased", "web", "other"}]
BY DEF OtaTypeOK, Stored, Programmed

\* A chunk of the web is there afterwards, unless Ethernet wrote it before; one that
\* is not the first leaves the other chunks as they were, the first one nothing but
\* itself.
LEMMA StoredClean ==
  ASSUME OtaTypeOK, CleanOrForeign, fw_active, NEW k \in Chunks, Accepts(k)
  PROVE  /\ Stored(k, "web")[k] = "web" \/ (k # 0 /\ k \in foreign)
         /\ k # 0 => \A i \in Chunks \ {k} : Stored(k, "web")[i] = flash[i]
         /\ k = 0 => \A i \in Chunks : Stored(k, "web")[i] \in {"erased", "web"}
<1>1. k # 0 => \A i \in Chunks : flash[i] \in {"erased", "web"} \/ i \in foreign
  BY DEF CleanOrForeign, Accepts
<1> QED
  BY <1>1 DEF Stored, Programmed

\* An update's step keeps the invariant.
LEMMA UpdateInv == ASSUME IInv, Update PROVE IInv'
<1> USE DEF IInv
<1>0. WedgeTypeOK' /\ restart' = "nobody" /\ wpc' = wpc
  BY DEF TypeOK, WedgeTypeOK, Update, wedgeVars, radioVars, countVars, Runs
<1>a. OtaTypeOK
  BY DEF TypeOK
<1>1. CASE ota_fw_begin(wpc = "reboot")
  <2>1. OtaTypeOK'
    <3>1. OtaFlags'
      BY <1>a, <1>1, OtaTypes, Zenon DEF ota_fw_begin, OtaFlags
    <3>2. fw_age' = 0 /\ acked' = {} /\ lost' = {} /\ foreign' = {} /\ flash' = flash
      BY <1>1, Zenon DEF ota_fw_begin, Forget
    <3>3. OtaData'
      BY <1>a, <3>2, OtaTypes, OtaAssumption DEF OtaData
    <3> QED
      BY <3>1, <3>3 DEF OtaTypeOK, OtaFlags, OtaData
  <2>2. fw_active' = TRUE /\ erased' = FALSE /\ acked' = {} /\ (wpc = "reboot" => held' = FALSE)
    BY <1>1 DEF ota_fw_begin, Forget
  <2> QED
    BY <1>0, <2>1, <2>2 DEF TypeOK, AckedIsFlashed, CleanOrForeign, HeldIsActive, DecidedUnheld
<1>2. CASE ota_fw_end
  <2>1. OtaTypeOK' /\ fw_active' = FALSE /\ held' = FALSE /\ acked' = {}
    BY <1>a, <1>2 DEF ota_fw_end, OtaTypeOK, Forget
  <2> QED
    BY <1>0, <2>1 DEF TypeOK, AckedIsFlashed, CleanOrForeign, HeldIsActive, DecidedUnheld
<1>3. CASE ota_wota_file_end \/ \E ok \in BOOLEAN : ota_lfs_file_begin(ok)
  <2>1. UNCHANGED fwVars /\ wota' \in BOOLEAN
    BY <1>3 DEF ota_wota_file_end, ota_lfs_file_begin
  <2>2. OtaTypeOK'
    BY <1>a, <2>1 DEF OtaTypeOK, fwVars, toldVars
  <2> QED
    BY <1>0, <2>1, <2>2
       DEF fwVars, toldVars, TypeOK, AckedIsFlashed, CleanOrForeign, HeldIsActive, DecidedUnheld,
           Fresh
<1>4. ASSUME NEW k \in Chunks, ota_fw_write_chunk(k) PROVE IInv'
  <2>a. /\ fw_active /\ Accepts(k) /\ flash' = Stored(k, "web") /\ acked' = acked \union {k}
        /\ lost' = IF k = 0 THEN acked \ {0} ELSE lost \ {k}
        /\ foreign' = IF k = 0 THEN {} ELSE foreign
    BY <1>4 DEF ota_fw_write_chunk, Store, WebWrites
  <2>b. erased' = (k = 0 \/ erased)
    BY <1>4 DEF ota_fw_write_chunk, Store
  <2>1. OtaTypeOK'
    <3>1. flash' \in [Chunks -> {"erased", "web", "other"}]
      BY <1>a, <2>a, StoredType
    <3>2. acked' \subseteq Chunks /\ lost' \subseteq Chunks /\ foreign' \subseteq Chunks
      BY <1>a, <2>a DEF OtaTypeOK
    <3>3. fw_age' = 0 /\ erased' \in BOOLEAN /\ UNCHANGED <<fw_active, wota, held>>
      BY <1>4, <2>b DEF ota_fw_write_chunk
    <3> QED
      BY <1>a, <3>1, <3>2, <3>3, OtaAssumption DEF OtaTypeOK
  <2>2. AckedIsFlashed'
    <3>1. \A i \in acked' : i # k => i \in Chunks /\ i \in acked
      BY <1>a, <2>a DEF OtaTypeOK
    <3> QED
      BY <1>a, <2>a, <3>1, StoredClean DEF AckedIsFlashed
  <2>3. CleanOrForeign'
    <3>1. k # 0 => erased
      BY <2>a DEF Accepts
    <3> QED
      BY <1>a, <2>a, <3>1, StoredClean DEF CleanOrForeign
  <2>4. DecidedUnheld' /\ HeldIsActive'
    BY <1>0, <1>4 DEF ota_fw_write_chunk, DecidedUnheld, HeldIsActive
  <2> QED
    BY <1>0, <2>1, <2>2, <2>3, <2>4 DEF TypeOK
<1>5. ASSUME NEW k \in Chunks, ota_fw_write_fails(k) PROVE IInv'
  <2>a. /\ fw_active /\ StoreFails(k, "web") /\ acked' = acked \ {k}
        /\ lost' = IF k = 0 THEN acked \ {0} ELSE lost \ {k}
        /\ foreign' = IF k = 0 THEN {} ELSE foreign
    BY <1>5 DEF ota_fw_write_fails, WebWrites
  <2>1. OtaTypeOK'
    <3>1. acked' \subseteq Chunks /\ lost' \subseteq Chunks /\ foreign' \subseteq Chunks
      BY <1>a, <2>a DEF OtaTypeOK
    <3>2. flash' \in [Chunks -> {"erased", "web", "other"}] /\ erased' \in BOOLEAN
      BY <1>a, <2>a, StoredType DEF StoreFails, OtaTypeOK
    <3> QED
      BY <1>a, <1>5, <3>1, <3>2 DEF ota_fw_write_fails, OtaTypeOK
  <2>2. k # 0 => \A i \in Chunks \ {k} : flash'[i] = flash[i]
    <3> SUFFICES ASSUME k # 0, NEW i \in Chunks \ {k} PROVE flash'[i] = flash[i]
      OBVIOUS
    <3>1. CASE UNCHANGED flash
      BY <3>1
    <3>2. CASE Accepts(k) /\ flash' = Stored(k, "web")
      BY <1>a, <2>a, <3>2, StoredClean
    <3>3. CASE Accepts(k) /\ flash' = [Stored(k, "web") EXCEPT ![k] = flash[k]]
      <4>1. flash'[i] = Stored(k, "web")[i]
        BY <1>a, <3>3, StoredType
      <4> QED
        BY <1>a, <2>a, <3>3, <4>1, StoredClean
    <3> QED
      BY <2>a, <3>1, <3>2, <3>3 DEF StoreFails
  <2>3. AckedIsFlashed'
    <3> SUFFICES ASSUME NEW i \in acked' PROVE flash'[i] = "web" \/ i \in lost' \/ i \in foreign'
      BY DEF AckedIsFlashed
    <3>1. i \in acked /\ i # k /\ i \in Chunks
      BY <1>a, <2>a DEF OtaTypeOK
    <3> QED
      BY <2>a, <2>2, <3>1 DEF AckedIsFlashed
  <2>4. CleanOrForeign'
    <3> SUFFICES ASSUME erased', NEW i \in Chunks
                 PROVE  flash'[i] \in {"erased", "web"} \/ i \in foreign'
      BY DEF CleanOrForeign
    <3>1. CASE UNCHANGED <<erased, flash>> /\ ~Accepts(k)
      BY <2>a, <3>1 DEF Accepts
    <3>2. CASE Accepts(k) /\ flash' = Stored(k, "web")
      <4>1. k # 0 => erased
        BY <3>2 DEF Accepts
      <4> QED
        BY <1>a, <2>a, <3>2, <4>1, StoredClean DEF CleanOrForeign
    <3>3. CASE /\ Accepts(k)
               /\ flash' = [Stored(k, "web") EXCEPT ![k] = IF k = 0 THEN "erased" ELSE flash[k]]
      <4>1. k # 0 => erased
        BY <3>3 DEF Accepts
      <4>2. flash'[i] = IF i = k THEN (IF k = 0 THEN "erased" ELSE flash[k]) ELSE Stored(k, "web")[i]
        BY <1>a, <3>3, StoredType
      <4> QED
        BY <1>a, <2>a, <3>3, <4>1, <4>2, StoredClean DEF CleanOrForeign
    <3> QED
      BY <2>a, <3>1, <3>2, <3>3 DEF StoreFails
  <2>5. DecidedUnheld' /\ HeldIsActive'
    BY <1>0, <1>5 DEF ota_fw_write_fails, DecidedUnheld, HeldIsActive, Fresh
  <2> QED
    BY <1>0, <2>1, <2>3, <2>4, <2>5 DEF TypeOK
<1>6. ASSUME NEW k \in Chunks, EthChunk(k) \/ EthChunkFails(k) PROVE IInv'
  <2>1. /\ fw_active' \in BOOLEAN /\ erased' \in BOOLEAN /\ held' = FALSE
        /\ UNCHANGED <<fw_age, wota>>
        /\ flash' \in [Chunks -> {"erased", "web", "other"}]
    BY <1>a, <1>6, StoredType DEF EthChunk, EthChunkFails, Store, StoreFails, OtaTypeOK
  <2>2. CASE fw_active'
    <3>1. /\ EthChunk(k) /\ Accepts(k) /\ flash' = Stored(k, "eth")
          /\ erased' = (k = 0 \/ erased) /\ (k = 0 \/ fw_active)
      BY <1>6, <2>2 DEF EthChunk, EthChunkFails, Store
    <3>2. /\ acked' = acked /\ lost' = IF k = 0 THEN acked ELSE lost
          /\ foreign' = IF k = 0 THEN {0} ELSE foreign \union {k}
      BY <2>2, <3>1 DEF EthChunk, EthWrites
    <3>3. OtaTypeOK'
      BY <1>a, <2>1, <3>2, ChunkZero DEF OtaTypeOK
    <3>4. \A i \in Chunks : i # k => flash'[i] = IF k = 0 THEN "erased" ELSE flash[i]
      BY <3>1 DEF Stored
    <3>5. AckedIsFlashed'
      BY <1>a, <3>2, <3>4 DEF AckedIsFlashed, OtaTypeOK
    <3>6. CleanOrForeign'
      BY <3>1, <3>2, <3>4 DEF CleanOrForeign, Accepts
    <3> QED
      BY <1>0, <2>1, <3>3, <3>5, <3>6 DEF TypeOK, HeldIsActive, DecidedUnheld
  <2>3. CASE ~fw_active'
    <3>1. acked' = {} /\ lost' = {} /\ foreign' = {}
      BY <1>6, <2>3 DEF EthChunk, EthChunkFails, EthWrites, Forget
    <3>2. OtaTypeOK'
      BY <1>a, <2>1, <3>1 DEF OtaTypeOK
    <3> QED
      BY <1>0, <2>1, <2>3, <3>1, <3>2
         DEF TypeOK, AckedIsFlashed, CleanOrForeign, HeldIsActive, DecidedUnheld
  <2> QED
    BY <2>2, <2>3
<1> QED
  BY <1>1, <1>2, <1>3, <1>4, <1>5, <1>6 DEF Update

\* A run of the watchdog keeps the types of its counters.
LEMMA RunType ==
  ASSUME WedgeTypeOK, NEW h \in BOOLEAN,
         RunIdle \/ RunMoving \/ RunPurge \/ RunWait(h) \/ RunReboot(h)
  PROVE  WedgeTypeOK'
<1>b. since \in -1 .. RebootTmo
  BY WedgeConsts DEF since, WedgeTypeOK
<1>1. CASE RunIdle
  <2>1. WedgeFlags' /\ UNCHANGED <<queued, wpc, mute, silent>>
    BY <1>1, WedgeTypes, Zenon DEF RunIdle, WedgeFlags, radioVars
  <2>2. wedge_since' = -1 /\ wedge_purge' = -1 /\ dead_strikes' = 0
    BY <1>1, Zenon DEF RunIdle
  <2>3. WedgeData'
    BY <2>1, <2>2, WedgeTypes, WedgeConsts DEF WedgeData
  <2> QED
    BY <2>1, <2>3 DEF WedgeTypeOK, WedgeFlags, WedgeData
<1>2. CASE RunMoving
  <2>1. WedgeFlags' /\ UNCHANGED <<queued, wpc, mute, silent, dead_strikes>>
    BY <1>2, WedgeTypes, Zenon DEF RunMoving, WedgeFlags, radioVars
  <2>2. wedge_since' = -1 /\ wedge_purge' = -1
    BY <1>2, Zenon DEF RunMoving
  <2>3. WedgeData'
    BY <2>1, <2>2, WedgeTypes, WedgeConsts DEF WedgeData
  <2> QED
    BY <2>1, <2>3 DEF WedgeTypeOK, WedgeFlags, WedgeData
<1>3. CASE RunPurge
  <2>1. WedgeFlags' /\ UNCHANGED <<queued, wpc, mute>>
    BY <1>3, WedgeTypes, Zenon DEF RunPurge, WedgeFlags
  <2>2. wedge_since' = since /\ wedge_purge' = 0
    BY <1>3, Zenon DEF RunPurge
  <2>3. /\ dead_strikes' \in {0, Strikes} \/ (dead_strikes # Strikes /\ dead_strikes' = dead_strikes + 1)
        /\ silent' \in {0, Strikes} \/ (silent # Strikes /\ silent' = silent + 1)
    BY <1>3, Zenon DEF RunPurge
  <2>4. WedgeData'
    BY <1>b, <2>1, <2>2, <2>3, WedgeTypes, WedgeConsts DEF WedgeData
  <2> QED
    BY <2>1, <2>4 DEF WedgeTypeOK, WedgeFlags, WedgeData
<1>4. CASE RunWait(h) \/ RunReboot(h)
  <2>1. WedgeFlags' /\ UNCHANGED <<queued, wedge_purge, dead_strikes, mute, silent>>
    BY <1>4, WedgeTypes, Zenon DEF RunWait, RunReboot, WedgeFlags, radioVars
  <2>2. wedge_since' = since /\ wpc' \in {wpc, "reboot"}
    BY <1>4, Zenon DEF RunWait, RunReboot
  <2>3. WedgeData'
    BY <1>b, <2>1, <2>2, WedgeTypes, WedgeConsts DEF WedgeData
  <2> QED
    BY <2>1, <2>3 DEF WedgeTypeOK, WedgeFlags, WedgeData
<1> QED
  BY <1>1, <1>2, <1>3, <1>4

\* A run of the watchdog: the flag goes down only when its session is too old, and
\* is down when the watchdog decides to restart.
LEMMA WatchdogInv == ASSUME IInv, Watchdog PROVE IInv'
<1> USE DEF IInv
<1>a. OtaTypeOK /\ WedgeTypeOK
  BY DEF TypeOK
<1>b. guarded \in BOOLEAN
  BY <1>a, OtaTypes, Zenon DEF OtaFlags, guarded
<1>1. WedgeTypeOK'
  BY <1>a, <1>b, RunType DEF Watchdog
<1>2. /\ UNCHANGED <<fw_age, erased, flash, held, toldVars, wota>> /\ restart' = "nobody"
      /\ fw_active' = fw_active \/ fw_active' = (fw_active /\ Fresh)
  BY DEF Watchdog, Runs, Expire
<1>3. OtaTypeOK'
  <2>1. OtaFlags'
    BY <1>a, <1>2, OtaTypes, Zenon DEF OtaFlags
  <2>2. OtaData'
    BY <1>a, <1>2, OtaTypes DEF OtaData, toldVars
  <2> QED
    BY <2>1, <2>2 DEF OtaTypeOK, OtaFlags, OtaData
<1>4. AckedIsFlashed' /\ CleanOrForeign'
  <2>1. fw_active' => fw_active
    BY <1>2, Zenon
  <2> QED
    BY <1>2, <2>1 DEF AckedIsFlashed, CleanOrForeign, toldVars
<1>5. HeldIsActive'
  BY <1>2 DEF HeldIsActive, Fresh
<1>6. ASSUME wpc' = "reboot" PROVE ~(held' /\ (fw_active' \/ Fresh'))
  <2>1. wpc = "run"
    BY DEF Watchdog, RunIdle, RunMoving, RunPurge, RunWait, RunReboot
  <2>2. RunReboot(guarded) /\ IF since >= RebootTmo /\ dead_strikes' = Strikes /\ ~wota
                                THEN Expire ELSE UNCHANGED fw_active
    BY <1>6, <2>1 DEF Watchdog, RunIdle, RunMoving, RunPurge, RunWait
  <2>3. ~guarded /\ ~wota /\ ~(fw_active /\ Fresh)
    BY <2>2 DEF RunReboot, guarded
  <2>4. since >= RebootTmo /\ dead_strikes' = Strikes
    <3>1. since >= RebootTmo /\ dead_strikes >= Strikes /\ dead_strikes' = dead_strikes
      BY <2>2 DEF RunReboot, last_resort
    <3>2. dead_strikes \in 0 .. Strikes
      BY <1>a DEF WedgeTypeOK
    <3> QED
      BY <3>1, <3>2, WedgeConsts
  <2>5. fw_active' = FALSE
    BY <2>2, <2>3, <2>4 DEF Expire
  <2> QED
    BY <1>2, <2>3, <2>5 DEF HeldIsActive, Fresh
<1> QED
  BY <1>1, <1>2, <1>3, <1>4, <1>5, <1>6 DEF TypeOK, DecidedUnheld

\* Time only makes a session older.
LEMMA PassInv == ASSUME IInv, Pass PROVE IInv'
<1> USE DEF IInv
<1>a. OtaTypeOK /\ WedgeTypeOK
  BY DEF TypeOK
<1>1. WedgeTypeOK'
  <2>1. WedgeFlags' /\ UNCHANGED <<queued, dead_strikes, wpc, silent>>
    BY <1>a, WedgeTypes, Zenon DEF Pass, WedgePass, WedgeFlags, radioVars
  <2>2. /\ wedge_since' = Older(wedge_since, RebootTmo)
        /\ wedge_purge' = Older(wedge_purge, ContendTmo)
        /\ mute' \in {0, Older(mute, RebootTmo)}
    BY Zenon DEF Pass, WedgePass
  <2>3. WedgeData'
    BY <1>a, <2>1, <2>2, WedgeTypes, WedgeConsts DEF WedgeData, Older
  <2> QED
    BY <2>1, <2>3 DEF WedgeTypeOK, WedgeFlags, WedgeData
<1>2. /\ UNCHANGED <<fw_active, erased, flash, wota, held, toldVars, wpc>> /\ restart' = "nobody"
      /\ wpc = "run"
  BY DEF Pass, WedgePass, Settled, Runs
<1>3. fw_age' = IF fw_age > FwTimeout THEN fw_age ELSE fw_age + 1
  BY DEF Pass, OtaPass
<1>4. fw_age \in 0 .. FwTimeout + 1 /\ fw_age' \in 0 .. FwTimeout + 1 /\ fw_age' >= fw_age
  BY <1>a, <1>3, OtaAssumption DEF OtaTypeOK
<1>5. OtaTypeOK'
  BY <1>a, <1>2, <1>4 DEF OtaTypeOK, toldVars
<1>6. Fresh' => Fresh
  BY <1>4, OtaAssumption DEF Fresh
<1>7. AckedIsFlashed' /\ CleanOrForeign' /\ HeldIsActive' /\ DecidedUnheld'
  BY <1>2, <1>6 DEF AckedIsFlashed, CleanOrForeign, HeldIsActive, DecidedUnheld, toldVars
<1> QED
  BY <1>1, <1>2, <1>5, <1>7 DEF TypeOK

\* After a restart no session is open.
LEMMA RestartInv ==
  ASSUME IInv, NEW who \in {"watchdog", "web", "eth"}, Restart(who)
  PROVE  IInv'
<1>a. OtaTypeOK
  BY DEF IInv, TypeOK
<1>1. OtaTypeOK'
  <2>1. OtaFlags'
    BY Zenon DEF Restart, OtaBoot, OtaFlags
  <2>2. fw_age' = 0 /\ acked' = {} /\ lost' = {} /\ foreign' = {} /\ flash' = flash
    BY Zenon DEF Restart, OtaBoot, Forget
  <2>3. OtaData'
    BY <1>a, <2>2, OtaTypes, OtaAssumption DEF OtaData
  <2> QED
    BY <2>1, <2>3 DEF OtaTypeOK, OtaFlags, OtaData
<1>2. WedgeTypeOK'
  <2>1. WedgeFlags'
    BY Zenon DEF Restart, WedgeBoot, WedgeFlags
  <2>2. /\ queued' = 0 /\ wedge_since' = -1 /\ wedge_purge' = -1 /\ dead_strikes' = 0
        /\ wpc' = "run" /\ mute' = 0 /\ silent' = 0
    BY Zenon DEF Restart, WedgeBoot
  <2>3. WedgeData'
    BY <2>2, WedgeConsts DEF WedgeData
  <2> QED
    BY <2>1, <2>3 DEF WedgeTypeOK, WedgeFlags, WedgeData
<1>3. held' = FALSE /\ fw_active' = FALSE /\ acked' = {} /\ restart' = who
  BY DEF Restart, OtaBoot, Forget
<1> QED
  BY <1>1, <1>2, <1>3
     DEF IInv, TypeOK, AckedIsFlashed, CleanOrForeign, HeldIsActive, DecidedUnheld

\* A refusal by the web interface ends at most a session that is too old.
LEMMA RefusedInv == ASSUME IInv, web_api_refused PROVE IInv'
<1> USE DEF IInv
<1>a. OtaTypeOK /\ WedgeTypeOK
  BY DEF TypeOK
<1>1. /\ UNCHANGED <<fw_age, erased, flash, held, toldVars, wota, wedgeVars>> /\ restart' = "nobody"
      /\ fw_active' = (fw_active /\ Fresh)
  BY DEF web_api_refused, Runs, Expire
<1>2. WedgeTypeOK' /\ wpc' = wpc
  BY <1>a, <1>1 DEF WedgeTypeOK, wedgeVars, radioVars, countVars
<1>3. OtaTypeOK'
  <2>1. OtaFlags'
    BY <1>a, <1>1, OtaTypes, Zenon DEF OtaFlags
  <2>2. OtaData'
    BY <1>a, <1>1, OtaTypes DEF OtaData, toldVars
  <2> QED
    BY <2>1, <2>2 DEF OtaTypeOK, OtaFlags, OtaData
<1>4. AckedIsFlashed' /\ CleanOrForeign' /\ HeldIsActive' /\ DecidedUnheld'
  BY <1>1, <1>2 DEF AckedIsFlashed, CleanOrForeign, HeldIsActive, DecidedUnheld, Fresh, toldVars
<1> QED
  BY <1>1, <1>2, <1>3, <1>4 DEF TypeOK

\* Every step of every task keeps the invariant.
LEMMA NextInv == IInv /\ [Next]_vars => IInv'
<1> SUFFICES ASSUME IInv, [Next]_vars PROVE IInv'
  OBVIOUS
<1>1. CASE Mac \/ PurgeServed
  BY <1>1, MacInv
<1>2. CASE Update
  BY <1>2, UpdateInv
<1>3. CASE Watchdog
  BY <1>3, WatchdogInv
<1>4. CASE Pass
  BY <1>4, PassInv
<1>5. CASE web_api_reboot \/ DeviceReboot \/ EthReboot
  BY <1>5, RestartInv DEF web_api_reboot, DeviceReboot, EthReboot
<1>6. CASE web_api_refused
  BY <1>6, RefusedInv
<1>7. CASE UNCHANGED vars
  BY <1>7
     DEF vars, otaVars, fwVars, toldVars, wedgeVars, radioVars, countVars, IInv, TypeOK, OtaTypeOK, WedgeTypeOK,
         AckedIsFlashed, CleanOrForeign, HeldIsActive, DecidedUnheld, Fresh
<1> QED
  BY <1>1, <1>2, <1>3, <1>4, <1>5, <1>6, <1>7 DEF Next

\* IInv holds in every state of every behaviour.
THEOREM GuardInvariance == Spec => []IInv
BY InitInv, NextInv, PTL DEF Spec

\* Every chunk that a web session was told is written is in the partition, whatever
\* failed or was left there by sessions before, except those that a first chunk has
\* erased since or that Ethernet wrote as well.
THEOREM AckedIsFlashedCorrect == Spec => []AckedIsFlashed
<1>1. IInv => AckedIsFlashed
  BY DEF IInv
<1> QED
  BY <1>1, GuardInvariance, PTL

\* Neither the watchdog, which pauses between asking and restarting, nor the web
\* interface restarts the node during an undisturbed web session that is not too old.
THEOREM SessionSurvivesCorrect == Spec => SessionSurvives
<1> DEFINE Spared == restart' \in {"watchdog", "web"} => ~(held /\ Fresh)
<1>1. IInv /\ [Next]_vars => [Spared]_vars
  <2> SUFFICES ASSUME IInv, Next, restart' \in {"watchdog", "web"} PROVE ~(held /\ Fresh)
    BY DEF vars
  <2>1. CASE web_api_reboot
    BY <2>1 DEF web_api_reboot, guarded, IInv, HeldIsActive
  <2>2. CASE DeviceReboot
    BY <2>2 DEF DeviceReboot, IInv, DecidedUnheld
  <2>3. CASE EthReboot
    BY <2>3 DEF EthReboot, Restart
  <2>4. CASE Mac \/ PurgeServed \/ Update \/ Watchdog \/ Pass \/ web_api_refused
    BY <2>4 DEF Mac, PurgeServed, Update, Watchdog, Pass, web_api_refused, Runs
  <2> QED
    BY <2>1, <2>2, <2>3, <2>4 DEF Next
<1>2. SessionSurvives <=> [][Spared]_vars
  BY DEF SessionSurvives
<1> HIDE DEF Spared
<1> QED
  BY <1>1, <1>2, GuardInvariance, PTL DEF Spec

-----------------------------------------------------------------------------
(* The watchdog's patience. *)

\* Between two restarts of its wait the watchdog has time for Strikes purges even
\* if the channel comes alive after all but the last of them: the purge that
\* would then take the strikes back is due before the restart. In halow.c,
\* 2 * 5000 + 15000 <= 30000.
RoomForStrikes == (Strikes - 1) * WedgeTmo + ContendTmo <= RebootTmo

\* While no completion is unseen: the wait is no longer than the silence; a purge
\* came as soon as it was due; and strikes that this silence has not earned,
\* left from before a completion, are made up for by the purges since.
Waited ==
  ~seq_moved =>
    /\ work_pending \/ wedge_since = -1
    /\ wedge_since <= mute /\ wedge_purge <= wedge_since
    /\ wedge_purge = -1 => wedge_since <= wedge_thresh
    /\ wedge_purge <= wedge_thresh
    /\ \/ silent >= dead_strikes \/ wedge_purge = -1
       \/ wedge_since - wedge_purge <= silent * WedgeTmo

\* Products of naturals.
LEMMA Products ==
  ASSUME NEW w \in Nat
  PROVE  /\ \A x \in Nat : x * w \in Nat /\ (x + 1) * w = x * w + w
         /\ \A x, y \in Nat : x <= y => x * w <= y * w
<1>1. \A x \in Nat : x * w \in Nat /\ (x + 1) * w = x * w + w
  OBVIOUS
<1>2. ASSUME NEW x \in Nat, NEW y \in Nat, x <= y PROVE x * w <= y * w
  <2>1. PICK z \in Nat : y = x + z
    <3>1. y - x \in Nat /\ y = x + (y - x)
      BY <1>2
    <3> QED
      BY <3>1
  <2>2. y * w = x * w + z * w /\ z * w \in Nat /\ x * w \in Nat
    BY <2>1
  <2> QED
    BY <2>2
<1> QED
  BY <1>1, <1>2

\* The MAC's steps.
LEMMA MacWaited ==
  ASSUME WedgeTypeOK, Waited, Enqueue \/ Transmit \/ LoseReport \/ ChannelAccess \/ Die \/ Purge
  PROVE  Waited'
<1> USE WedgeConsts
<1>1. CASE Enqueue
  <2>1. /\ UNCHANGED <<leaked, seq_moved, acpd_moved, wedge_since, wedge_purge, dead_strikes>>
        /\ queued' = queued + 1
    BY <1>1 DEF Enqueue, countVars
  <2>2. CASE work_pending
    <3>1. mute' = mute /\ silent' = silent
      BY <1>1, <2>2 DEF Enqueue
    <3>2. work_pending'
      BY <2>1 DEF work_pending, WedgeTypeOK
    <3> QED
      BY <2>1, <3>1, <3>2 DEF Waited, wedge_thresh
  <2>3. CASE ~work_pending
    <3>1. mute' = 0
      BY <1>1, <2>3 DEF Enqueue
    <3>2. work_pending'
      BY <2>1 DEF work_pending, WedgeTypeOK
    <3>3. ~seq_moved => wedge_since = -1 /\ wedge_purge = -1
      BY <2>3 DEF Waited, WedgeTypeOK
    <3> QED
      BY <2>1, <3>1, <3>2, <3>3 DEF Waited, wedge_thresh
  <2> QED
    BY <2>2, <2>3
<1>2. CASE Transmit
  <2>1. seq_moved' = TRUE
    BY <1>2 DEF Transmit, Completed
  <2> QED
    BY <2>1 DEF Waited
<1>3. CASE LoseReport
  <2>1. /\ UNCHANGED <<seq_moved, acpd_moved, wedge_since, wedge_purge, dead_strikes, mute, silent>>
        /\ leaked' = TRUE
    BY <1>3 DEF LoseReport, countVars
  <2> QED
    BY <2>1 DEF Waited, wedge_thresh, work_pending
<1>4. CASE ChannelAccess
  <2>1. /\ UNCHANGED <<queued, leaked, seq_moved, wedge_since, wedge_purge, dead_strikes, mute, silent>>
        /\ acpd_moved' = TRUE
    BY <1>4 DEF ChannelAccess, countVars, radioVars
  <2>2. wedge_thresh' = ContendTmo /\ wedge_thresh \in Nat /\ wedge_thresh <= ContendTmo
    BY <2>1, WedgeAssumption DEF wedge_thresh
  <2>3. work_pending' = work_pending
    BY <2>1 DEF work_pending
  <2>4. wedge_since \in Int /\ wedge_purge \in Int
    BY DEF WedgeTypeOK
  <2> QED
    BY <2>1, <2>2, <2>3, <2>4 DEF Waited
<1>5. CASE Die
  <2>1. UNCHANGED <<queued, leaked, seq_moved, acpd_moved, wedge_since, wedge_purge, dead_strikes, mute, silent>>
    BY <1>5 DEF Die, countVars
  <2> QED
    BY <2>1 DEF Waited, wedge_thresh, work_pending
<1>6. CASE Purge
  <2>1. CASE queued > 0
    <3>1. seq_moved' = TRUE
      BY <1>6, <2>1 DEF Purge, Completed
    <3> QED
      BY <3>1 DEF Waited
  <2>2. CASE ~ (queued > 0)
    <3>1. /\ UNCHANGED <<leaked, seq_moved, acpd_moved, wedge_since, wedge_purge, dead_strikes, mute, silent>>
          /\ queued' = 0
      BY <1>6, <2>2 DEF Purge, countVars
    <3>2. work_pending' = work_pending
      BY <2>2, <3>1 DEF work_pending
    <3> QED
      BY <3>1, <3>2 DEF Waited, wedge_thresh
  <2> QED
    BY <2>1, <2>2
<1> QED
  BY <1>1, <1>2, <1>3, <1>4, <1>5, <1>6

\* A run of the watchdog.
LEMMA RunWaited ==
  ASSUME WedgeTypeOK, Waited, NEW h, RunIdle \/ RunMoving \/ RunPurge \/ RunWait(h) \/ RunReboot(h)
  PROVE  Waited'
<1>0. /\ wedge_since \in Int /\ wedge_purge \in Int /\ mute \in Nat /\ silent \in Nat /\ dead_strikes \in Nat
      /\ wedge_since >= -1 /\ wedge_purge >= -1 /\ silent <= Strikes /\ dead_strikes <= Strikes
  BY WedgeConsts DEF WedgeTypeOK
<1>a. WedgeTmo \in Nat /\ ContendTmo \in Nat /\ Strikes \in Nat /\ WedgeTmo > 0 /\ WedgeTmo < ContendTmo
  BY WedgeAssumption
<1>b. wedge_thresh \in Nat /\ wedge_thresh > 0 /\ wedge_thresh' \in Nat /\ wedge_thresh' > 0
  BY <1>a DEF wedge_thresh
<1>1. CASE RunIdle
  <2>1. /\ UNCHANGED <<queued, leaked, seq_moved, acpd_moved, mute, silent>>
        /\ wedge_since' = -1 /\ wedge_purge' = -1
    BY <1>1 DEF RunIdle, radioVars
  <2> QED
    BY <1>0, <1>b, <2>1 DEF Waited
<1>2. CASE RunMoving
  <2>1. wedge_since' = -1 /\ wedge_purge' = -1 /\ mute' = mute
    BY <1>2 DEF RunMoving
  <2> QED
    BY <1>0, <1>b, <2>1 DEF Waited
<1>3. CASE RunPurge
  <2>1. /\ UNCHANGED <<queued, leaked, seq_moved, mute>> /\ work_pending /\ ~seq_moved
        /\ wedge_purge' = 0 /\ wedge_since' = since
        /\ since >= wedge_thresh /\ (wedge_purge = -1 \/ wedge_purge >= wedge_thresh)
    BY <1>3 DEF RunPurge, Stuck, purge_due
  <2>2. since = wedge_since /\ wedge_since >= wedge_thresh
    BY <1>b, <2>1 DEF since
  <2>3. work_pending'
    BY <2>1 DEF work_pending
  <2>4. /\ wedge_since <= mute /\ wedge_purge <= wedge_since /\ wedge_purge <= wedge_thresh
        /\ wedge_purge = -1 => wedge_since <= wedge_thresh
        /\ \/ silent >= dead_strikes \/ wedge_purge = -1
           \/ wedge_since - wedge_purge <= silent * WedgeTmo
    BY <2>1 DEF Waited
  <2>5. silent' >= dead_strikes' \/ wedge_since' - wedge_purge' <= silent' * WedgeTmo
    <3>1. CASE acpd_moved
      <4>1. silent' = 0 /\ dead_strikes' = 0
        BY <1>3, <3>1 DEF RunPurge
      <4> QED
        BY <4>1
    <3>2. CASE ~acpd_moved
      <4>1. /\ dead_strikes' = IF dead_strikes = Strikes THEN Strikes ELSE dead_strikes + 1
            /\ silent' = IF silent = Strikes THEN Strikes ELSE silent + 1
        BY <1>3, <3>2 DEF RunPurge
      <4>2. CASE silent >= dead_strikes \/ silent = Strikes
        BY <1>0, <1>a, <4>1, <4>2
      <4>3. CASE ~ (silent >= dead_strikes \/ silent = Strikes)
        <5>1. wedge_thresh = WedgeTmo
          BY <3>2 DEF wedge_thresh
        <5>2. PICK x : x = silent * WedgeTmo
          OBVIOUS
        <5>3. x \in Nat /\ (silent + 1) * WedgeTmo = x + WedgeTmo
          BY <1>0, <1>a, <5>2, Products
        <5>4. wedge_purge = -1 \/ wedge_since - wedge_purge <= x
          BY <2>4, <4>3, <5>2
        <5>5. wedge_since <= x + WedgeTmo
          BY <1>0, <1>a, <2>4, <5>1, <5>3, <5>4
        <5>6. silent' * WedgeTmo = x + WedgeTmo /\ wedge_since' - wedge_purge' = wedge_since
          BY <1>0, <2>1, <2>2, <4>1, <4>3, <5>3
        <5> QED
          BY <5>5, <5>6
      <4> QED
        BY <4>2, <4>3
    <3> QED
      BY <3>1, <3>2
  <2>6. wedge_since' <= mute' /\ wedge_purge' <= wedge_since' /\ wedge_purge' # -1 /\ wedge_purge' <= wedge_thresh'
    BY <1>0, <1>b, <2>1, <2>2, <2>4
  <2> QED
    BY <2>3, <2>5, <2>6 DEF Waited
<1>4. CASE RunWait(h) \/ RunReboot(h)
  <2>1. /\ UNCHANGED <<queued, leaked, seq_moved, acpd_moved, wedge_purge, dead_strikes, mute, silent>>
        /\ wedge_since' = since /\ work_pending /\ ~seq_moved
    BY <1>4 DEF RunWait, RunReboot, Stuck, radioVars
  <2>2. work_pending' /\ wedge_thresh' = wedge_thresh
    BY <2>1 DEF work_pending, wedge_thresh
  <2>3. CASE wedge_since = -1
    <3>1. wedge_since' = 0 /\ wedge_purge = -1
      BY <1>0, <2>1, <2>3 DEF since, Waited
    <3> QED
      BY <1>0, <1>b, <2>1, <2>2, <3>1 DEF Waited
  <2>4. CASE wedge_since # -1
    <3>1. wedge_since' = wedge_since
      BY <2>1, <2>4 DEF since
    <3> QED
      BY <2>1, <2>2, <3>1 DEF Waited
  <2> QED
    BY <2>3, <2>4
<1> QED
  BY <1>1, <1>2, <1>3, <1>4

\* Time passes, but for the watchdog never past a purge that is due.
LEMMA PassWaited ==
  ASSUME WedgeTypeOK, Waited, NEW h, WedgePass(h)
  PROVE  Waited'
<1>0. /\ wedge_since \in -1 .. RebootTmo /\ wedge_purge \in -1 .. ContendTmo /\ mute \in 0 .. RebootTmo
      /\ silent \in Nat
  BY WedgeConsts DEF WedgeTypeOK
<1>a. /\ WedgeTmo \in Nat /\ ContendTmo \in Nat /\ RebootTmo \in Nat /\ WedgeTmo > 0
      /\ WedgeTmo < ContendTmo /\ ContendTmo < RebootTmo
  BY WedgeAssumption
<1>1. /\ UNCHANGED <<queued, leaked, seq_moved, acpd_moved, dead_strikes, silent>>
      /\ wedge_since' = Older(wedge_since, RebootTmo) /\ wedge_purge' = Older(wedge_purge, ContendTmo)
      /\ mute' = IF work_pending THEN Older(mute, RebootTmo) ELSE 0
  BY DEF WedgePass, radioVars
<1>2. work_pending' = work_pending /\ wedge_thresh' = wedge_thresh
  BY <1>1 DEF work_pending, wedge_thresh
<1>3. wedge_thresh \in Nat /\ wedge_thresh > 0 /\ wedge_thresh <= ContendTmo
  BY <1>a DEF wedge_thresh
<1>4. CASE ~work_pending
  <2>1. wedge_since = -1 /\ wedge_purge = -1
    BY <1>4 DEF WedgePass, Settled
  <2>2. wedge_since' = -1 /\ wedge_purge' = -1 /\ mute' = 0
    BY <1>1, <1>4, <2>1 DEF Older
  <2> QED
    BY <1>2, <1>3, <1>4, <2>2 DEF Waited
<1>5. CASE work_pending
  <2>1. /\ ~seq_moved /\ wedge_since # -1
        /\ ~ (wedge_since >= wedge_thresh /\ (wedge_purge = -1 \/ wedge_purge >= wedge_thresh))
    BY <1>5 DEF WedgePass, Settled, purge_due, since
  <2>2. /\ wedge_since <= mute /\ wedge_purge <= wedge_since /\ wedge_purge <= wedge_thresh
        /\ wedge_purge = -1 => wedge_since <= wedge_thresh
        /\ \/ silent >= dead_strikes \/ wedge_purge = -1
           \/ wedge_since - wedge_purge <= silent * WedgeTmo
    BY <2>1 DEF Waited
  <2>3. wedge_since' = (IF wedge_since = RebootTmo THEN RebootTmo ELSE wedge_since + 1)
    BY <1>1, <2>1 DEF Older
  <2>4. mute' = IF mute = RebootTmo THEN RebootTmo ELSE mute + 1
    BY <1>0, <1>1, <1>5 DEF Older
  <2>5. CASE wedge_purge = -1
    <3>1. wedge_purge' = -1
      BY <1>1, <2>5 DEF Older
    <3>2. wedge_since < wedge_thresh
      BY <1>0, <1>3, <2>1, <2>5
    <3>3. wedge_since' <= mute' /\ wedge_purge' <= wedge_since' /\ wedge_since' <= wedge_thresh
      BY <1>0, <1>a, <1>3, <2>1, <2>2, <2>3, <2>4, <3>1, <3>2
    <3> QED
      BY <1>2, <1>3, <1>5, <3>1, <3>3 DEF Waited
  <2>6. CASE wedge_purge # -1
    <3>1. wedge_purge < wedge_thresh
      BY <1>0, <1>3, <2>1, <2>2, <2>6
    <3>2. wedge_purge' = wedge_purge + 1
      BY <1>0, <1>3, <1>1, <2>6, <3>1 DEF Older
    <3>3. /\ wedge_since' <= mute' /\ wedge_purge' <= wedge_since' /\ wedge_purge' <= wedge_thresh
          /\ wedge_purge' # -1 /\ wedge_since' - wedge_purge' <= wedge_since - wedge_purge
      BY <1>0, <1>a, <1>3, <2>1, <2>2, <2>3, <2>4, <2>6, <3>1, <3>2
    <3>4. silent' >= dead_strikes' \/ wedge_since' - wedge_purge' <= silent' * WedgeTmo
      <4>1. PICK x : x = silent * WedgeTmo
        OBVIOUS
      <4>2. x \in Nat
        BY <1>0, <1>a, <4>1, Products
      <4>3. silent >= dead_strikes \/ wedge_since - wedge_purge <= x
        BY <2>2, <2>6, <4>1
      <4>4. wedge_since' \in Int /\ wedge_purge' \in Int
        BY <1>0, <1>a, <2>3, <3>2
      <4>5. silent >= dead_strikes \/ wedge_since' - wedge_purge' <= x
        <5>1. PICK y \in Int : y = wedge_since - wedge_purge
          BY <1>0, <1>a
        <5>2. PICK u \in Int : u = wedge_since'
          BY <4>4
        <5>3. PICK v \in Int : v = wedge_purge'
          BY <4>4
        <5>4. u - v <= y
          BY <3>3, <5>1, <5>2, <5>3
        <5>5. y <= x => u - v <= x
          BY <4>2, <5>4
        <5> QED
          BY <4>3, <5>1, <5>2, <5>3, <5>5
      <4> QED
        BY <1>1, <4>1, <4>5
    <3> QED
      BY <1>2, <1>5, <3>3, <3>4 DEF Waited
  <2> QED
    BY <2>5, <2>6
<1> QED
  BY <1>4, <1>5

\* Every step keeps it.
LEMMA WaitedStep == IInv /\ Waited /\ [Next]_vars => Waited'
<1> SUFFICES ASSUME IInv, Waited, [Next]_vars PROVE Waited'
  OBVIOUS
<1>0. WedgeTypeOK
  BY DEF IInv, TypeOK
<1>1. CASE Mac \/ PurgeServed
  BY <1>0, <1>1, MacWaited DEF Mac, PurgeServed
<1>2. CASE Watchdog
  BY <1>0, <1>2, RunWaited DEF Watchdog
<1>3. CASE Pass
  BY <1>0, <1>3, PassWaited DEF Pass
<1>4. CASE web_api_reboot \/ DeviceReboot \/ EthReboot
  <2>1. wedge_since' = -1 /\ wedge_purge' = -1 /\ mute' = 0
    BY <1>4 DEF web_api_reboot, DeviceReboot, EthReboot, Restart, WedgeBoot
  <2>2. wedge_thresh' \in Nat
    BY WedgeConsts DEF wedge_thresh
  <2> QED
    BY <2>1, <2>2 DEF Waited
<1>5. CASE Update \/ web_api_refused \/ UNCHANGED vars
  <2>1. UNCHANGED <<queued, leaked, seq_moved, acpd_moved, wedge_since, wedge_purge, dead_strikes, mute, silent>>
    BY <1>5 DEF Update, web_api_refused, vars, wedgeVars, radioVars, countVars
  <2> QED
    BY <2>1 DEF Waited, wedge_thresh, work_pending
<1> QED
  BY <1>1, <1>2, <1>3, <1>4, <1>5 DEF Next

\* tx_watchdog_hard_wedge restarts the node only when no completion came for the whole
\* HALOW_TX_WEDGE_REBOOT_MS and the last Strikes purges found no channel access,
\* although RunMoving keeps the strikes: for all periods that leave room for them.
THEOREM RebootOnlyWhenMuteCorrect ==
  ASSUME RoomForStrikes
  PROVE  Spec => RebootOnlyWhenMute
<1> DEFINE Patient == (wpc = "run" /\ wpc' = "reboot") => mute = RebootTmo /\ silent = Strikes
<1>1. Init => Waited
  <2> SUFFICES ASSUME Init PROVE Waited
    OBVIOUS
  <2>1. wedge_since = -1 /\ wedge_purge = -1 /\ mute = 0
    BY DEF Init, WedgeInit
  <2>2. wedge_thresh \in Nat
    BY WedgeConsts DEF wedge_thresh
  <2> QED
    BY <2>1, <2>2 DEF Waited
<1>2. IInv /\ Waited /\ [Next]_vars => [Patient]_vars
  <2> SUFFICES ASSUME IInv, Waited, Next, wpc = "run", wpc' = "reboot"
               PROVE  mute = RebootTmo /\ silent = Strikes
    BY DEF vars
  <2>1. RunReboot(guarded)
    <3>1. CASE Mac \/ PurgeServed \/ Update \/ Pass \/ web_api_refused
      BY <3>1 DEF Mac, PurgeServed, Update, Pass, web_api_refused, Enqueue, Transmit, LoseReport,
                  ChannelAccess, Die, Purge, WedgePass, wedgeVars, countVars
    <3>2. CASE web_api_reboot \/ DeviceReboot \/ EthReboot
      BY <3>2 DEF web_api_reboot, DeviceReboot, EthReboot, Restart, WedgeBoot
    <3>3. CASE Watchdog
      BY <3>3 DEF Watchdog, RunIdle, RunMoving, RunPurge, RunWait
    <3> QED
      BY <3>1, <3>2, <3>3 DEF Next
  <2>2. /\ ~seq_moved /\ since >= RebootTmo /\ dead_strikes >= Strikes
        /\ ~ (since >= wedge_thresh /\ (wedge_purge = -1 \/ wedge_purge >= wedge_thresh))
    BY <2>1 DEF RunReboot, Stuck, last_resort, purge_due
  <2>3. /\ wedge_since \in -1 .. RebootTmo /\ wedge_purge \in -1 .. ContendTmo /\ mute \in 0 .. RebootTmo
        /\ silent \in 0 .. Strikes /\ dead_strikes \in 0 .. Strikes
    BY DEF IInv, TypeOK, WedgeTypeOK
  <2>4. /\ WedgeTmo \in Nat /\ ContendTmo \in Nat /\ RebootTmo \in Nat /\ Strikes \in Nat /\ Strikes > 0
        /\ WedgeTmo < ContendTmo /\ ContendTmo < RebootTmo /\ WedgeTmo > 0
    BY WedgeAssumption
  <2>5. wedge_since = RebootTmo
    <3>1. CASE wedge_since = -1
      BY <2>2, <2>4, <3>1 DEF since
    <3>2. CASE wedge_since # -1
      BY <2>2, <2>3, <2>4, <3>2 DEF since
    <3> QED
      BY <3>1, <3>2
  <2>6. wedge_thresh \in Nat /\ wedge_thresh <= ContendTmo /\ since = RebootTmo
    BY <2>4, <2>5 DEF wedge_thresh, since
  <2>7. wedge_purge # -1 /\ wedge_purge < ContendTmo
    BY <2>2, <2>3, <2>4, <2>6
  <2>8. /\ wedge_since <= mute
        /\ silent >= dead_strikes \/ wedge_since - wedge_purge <= silent * WedgeTmo
    BY <2>2, <2>7 DEF Waited
  <2>9. silent = Strikes
    <3>1. CASE silent >= dead_strikes
      BY <2>2, <2>3, <2>4, <3>1
    <3>2. CASE wedge_since - wedge_purge <= silent * WedgeTmo
      <4>1. PICK x : x = silent * WedgeTmo
        OBVIOUS
      <4>2. PICK y : y = (Strikes - 1) * WedgeTmo
        OBVIOUS
      <4>3. silent \in Nat /\ Strikes - 1 \in Nat
        BY <2>3, <2>4
      <4>4. x \in Nat /\ y \in Nat /\ (silent <= Strikes - 1 => x <= y)
        BY <2>4, <4>1, <4>2, <4>3, Products
      <4>5. y + ContendTmo <= RebootTmo /\ RebootTmo - wedge_purge <= x
        BY <2>5, <3>2, <4>1, <4>2 DEF RoomForStrikes
      <4>6. y < x
        BY <2>3, <2>4, <2>7, <4>4, <4>5
      <4> QED
        BY <2>3, <2>4, <4>3, <4>4, <4>6
    <3> QED
      BY <2>8, <3>1, <3>2
  <2> QED
    BY <2>3, <2>4, <2>5, <2>8, <2>9
<1>3. RebootOnlyWhenMute <=> [][Patient]_vars
  BY DEF RebootOnlyWhenMute
<1>4. Spec => []Waited
  BY <1>1, WaitedStep, GuardInvariance, PTL DEF Spec
<1> HIDE DEF Patient
<1> QED
  BY <1>2, <1>3, <1>4, GuardInvariance, PTL DEF Spec
=============================================================================
