-------------------------------- MODULE Ota ---------------------------------
(***************************************************************************)
(* Update sessions (ota.c, ota_lfs.c): a firmware image written in chunks  *)
(* over the web interface or by raw Ethernet frames, into one partition    *)
(* and under one session flag, and single files over the web.              *)
(*                                                                         *)
(* Whoever wants to restart the node asks first whether a session is open  *)
(* (ota_fw_active, ota_wota_active). Time is counted in steps of the       *)
(* watchdog's shortest period. All images have the same length; a chunk of *)
(* flash is erased, holds the chunk of the image that came over the web,   *)
(* or something else.                                                      *)
(***************************************************************************)
EXTENDS Integers

CONSTANTS
  LastChunk,   \* chunks of an image are numbered from 0 to this
  FwTimeout    \* OTA_FW_SESSION_TIMEOUT_MS

ASSUME OtaAssumption == LastChunk \in Nat \ {0} /\ FwTimeout \in Nat \ {0}

Chunks == 0 .. LastChunk

VARIABLES
  fw_active,   \* s_fw_ota.active
  fw_age,      \* time since s_fw_ota_begin_ms
  erased,      \* g_ota_erased
  flash,       \* the firmware partition
  wota,        \* s_wota.active
  held,        \* history: a web session is open that nobody else has written into
  acked,       \* history: the chunks the web session was told are written,
  lost,        \*   those of them that a first chunk, of either, has erased since,
  foreign      \*   and the chunks that Ethernet wrote into the partition as it is

toldVars == <<acked, lost, foreign>>
Forget == acked' = {} /\ lost' = {} /\ foreign' = {}

fwVars == <<fw_active, fw_age, erased, flash, held, toldVars>>
otaVars == <<fwVars, wota>>

OtaInit ==
  /\ fw_active = FALSE /\ fw_age = 0 /\ erased = FALSE
  /\ flash = [k \in Chunks |-> "other"]
  /\ wota = FALSE /\ held = FALSE
  /\ acked = {} /\ lost = {} /\ foreign = {}

\* Only the flash outlives a restart.
OtaBoot ==
  /\ fw_active' = FALSE /\ fw_age' = 0 /\ erased' = FALSE
  /\ wota' = FALSE /\ held' = FALSE /\ Forget
  /\ UNCHANGED flash

-----------------------------------------------------------------------------
(* The guard. *)

\* Mutant: a session never times out.
Fresh_always == TRUE

\* The session timeout, which ota_fw_active applies when it is asked.
Fresh == fw_age <= FwTimeout

\* ota_wota_active() || ota_fw_active(); a file session has no timeout.
guarded == wota \/ (fw_active /\ Fresh)

\* What ota_fw_active leaves behind.
Expire == fw_active' = (fw_active /\ Fresh)

OtaPass == fw_age' = (IF fw_age > FwTimeout THEN fw_age ELSE fw_age + 1)

-----------------------------------------------------------------------------
(* _libota_write_fw_ah. *)

\* Mutant: any first chunk will do.
Accepts_any(k) == TRUE

\* ota_fal_erase_if_needed: the first chunk erases, the others need it erased.
Accepts(k) == k = 0 \/ erased

\* Flash that is not erased is spoilt by other data.
Programmed(old, who) == IF who = "web" /\ old \in {"erased", "web"} THEN "web" ELSE "other"

\* The partition after chunk k, once the first one has erased it.
Stored(k, who) ==
  [i \in Chunks |-> LET old == IF k = 0 THEN "erased" ELSE flash[i]
                    IN  IF i = k THEN Programmed(old, who) ELSE old]

Store(k, who) == erased' = (k = 0 \/ erased) /\ flash' = Stored(k, who)

\* The chunk is refused, erasing fails, or programming, having done its work or not.
StoreFails(k, who) ==
  \/ ~Accepts(k) /\ UNCHANGED <<erased, flash>>
  \/ k = 0 /\ erased' = FALSE /\ flash' = [i \in Chunks |-> "other"]
  \/ /\ Accepts(k) /\ erased' = TRUE
     /\ \/ flash' = Stored(k, who)
        \/ flash' = [Stored(k, who) EXCEPT ![k] = IF k = 0 THEN "erased" ELSE flash[k]]

-----------------------------------------------------------------------------
(* Web sessions. *)

\* The session counts as held unless a restart was decided on before it began.
ota_fw_begin(deciding) ==
  /\ fw_active' = TRUE /\ fw_age' = 0 /\ erased' = FALSE
  /\ held' = ~deciding /\ Forget
  /\ UNCHANGED <<flash, wota>>

\* History: a chunk of the web. The first one begins the partition anew.
WebWrites(k) ==
  /\ lost' = IF k = 0 THEN acked \ {0} ELSE lost \ {k}
  /\ foreign' = IF k = 0 THEN {} ELSE foreign

\* The chunk is written, and the session's time starts over.
ota_fw_write_chunk(k) ==
  /\ fw_active /\ Accepts(k)
  /\ Store(k, "web")
  /\ fw_age' = 0
  /\ acked' = acked \union {k} /\ WebWrites(k)
  /\ UNCHANGED <<fw_active, wota, held>>

\* The client is told, and may go on.
ota_fw_write_fails(k) ==
  /\ fw_active
  /\ StoreFails(k, "web")
  /\ acked' = acked \ {k} /\ WebWrites(k)
  /\ UNCHANGED <<fw_active, fw_age, wota, held>>

\* The image is read back and its CRC compared; that only makes the answer.
ota_fw_end ==
  /\ fw_active
  /\ fw_active' = FALSE
  /\ held' = FALSE /\ Forget
  /\ UNCHANGED <<fw_age, erased, flash, wota>>

-----------------------------------------------------------------------------
(* Raw Ethernet frames: ota_cmd_firmware_data, in the TCP/IP thread. *)

\* History: a chunk of Ethernet, which counts while the session is open.
EthWrites(k) ==
  IF fw_active'
    THEN /\ lost' = IF k = 0 THEN acked ELSE lost
         /\ foreign' = IF k = 0 THEN {0} ELSE foreign \union {k}
         /\ UNCHANGED acked
    ELSE Forget

\* The session's time is not touched, and the last chunk or an error ends the
\* session, whoever began it.
EthChunk(k) ==
  /\ Accepts(k) /\ Store(k, "eth")
  /\ fw_active' = ((k = 0 \/ fw_active) /\ k # LastChunk)
  /\ held' = FALSE /\ EthWrites(k)
  /\ UNCHANGED <<fw_age, wota>>

EthChunkFails(k) ==
  /\ StoreFails(k, "eth")
  /\ fw_active' = FALSE
  /\ held' = FALSE /\ EthWrites(k)
  /\ UNCHANGED <<fw_age, wota>>

-----------------------------------------------------------------------------
(* Files over the web. *)

\* ota_lfs_file_begin opens a file or fails; an open one is closed first.
ota_lfs_file_begin(ok) == wota' = ok /\ UNCHANGED fwVars

\* ota_wota_file_end, whatever it finds, and ota_wota_session_abort.
ota_wota_file_end == wota /\ wota' = FALSE /\ UNCHANGED fwVars

OtaTypeOK ==
  /\ fw_active \in BOOLEAN /\ erased \in BOOLEAN /\ wota \in BOOLEAN /\ held \in BOOLEAN
  /\ fw_age \in 0 .. FwTimeout + 1
  /\ flash \in [Chunks -> {"erased", "web", "other"}]
  /\ acked \subseteq Chunks /\ lost \subseteq Chunks /\ foreign \subseteq Chunks

\* What a web session was told is written, is written, whatever was left in the
\* partition and in g_ota_erased by the sessions before and whatever Ethernet frames
\* come between its chunks. A chunk of which it was told can be missing in two ways
\* only: a first chunk that came after it, a repeated one of the session's own or one
\* of an Ethernet session, has erased the partition again and the chunk was not
\* repeated; or Ethernet has written the same chunk.
AckedIsFlashed == \A k \in acked : flash[k] = "web" \/ k \in lost \/ k \in foreign

\* The same without exceptions, for a session that no Ethernet frame disturbs: each
\* answer stays true until the session ends. The code does not keep this
\* (GuardRepeat.cfg): a first chunk that is repeated, as after a lost answer, erases
\* what was answered.
ToldIsFlashed == held => \A k \in acked : flash[k] = "web"
=============================================================================
