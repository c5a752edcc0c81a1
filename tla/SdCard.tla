------------------------------- MODULE SdCard -------------------------------
(***************************************************************************)
(* The SD card: mounting, the ladder of bus modes, and the retries of a    *)
(* transfer (source/storage/nx_sd.c and _sdmmc_storage_readwrite of        *)
(* bdk/storage/sdmmc.c, which calls back into nx_sd.c).                    *)
(*                                                                         *)
(* A step is one command sequence to the card: an attempt to initialise it *)
(* or to transfer one chunk.  Between any two of them the card may be      *)
(* taken out and a card may be put in.                                     *)
(***************************************************************************)
EXTENDS Integers

CONSTANTS
  Card,        (* the cards at hand                                        *)
  NoCard,
  Chunks       (* how many chunks of 0xFFFF sectors a transfer has, at most *)

ASSUME CardAssumption == NoCard \notin Card /\ Chunks \in Nat \ {0}

SD_INIT_FAIL == 0
SD_UHS_SDR82 == 3
Mode == SD_INIT_FAIL .. SD_UHS_SDR82

VARIABLES
  slot,          (* the card in the slot, or NoCard                        *)
  ready,         (* it has been initialised since it was put in            *)
  sd_mode,
  initialized,   (* sd_storage.initialized                                 *)
  sd_mounted,
  is_sd_inited,
  pc,            (* "idle", "io": transferring, "failed": out of retries,  *)
                 (* "init", "retry": in sd_initialize                      *)
  mounting,      (* the call is sd_mount                                   *)
  sct_off, sct_total, retries, first_reinit,
  tried,         (* observation: the modes tried by sd_initialize          *)
  moved,         (* observation: the card each chunk was moved to or from  *)
  ret            (* the result of the last call that reached the card      *)

hwVars   == <<slot, ready>>
loopVars == <<sct_off, sct_total, retries, first_reinit>>
vars     == <<hwVars, sd_mode, initialized, sd_mounted, is_sd_inited, pc,
              mounting, loopVars, tried, moved, ret>>

Inserted == slot # NoCard
Chunk    == 0 .. Chunks - 1
Nothing  == [k \in Chunk |-> NoCard]

Init ==
  /\ slot \in Card \cup {NoCard} /\ ready = FALSE
  /\ sd_mode = SD_UHS_SDR82
  /\ initialized = FALSE /\ sd_mounted = FALSE /\ is_sd_inited = FALSE
  /\ pc = "idle" /\ mounting = FALSE
  /\ sct_off = 0 /\ sct_total = 0 /\ retries = 0 /\ first_reinit = FALSE
  /\ tried = {} /\ moved = Nothing /\ ret = FALSE

-----------------------------------------------------------------------------
(* The user's hands.                                                       *)
Remove ==
  /\ Inserted
  /\ slot' = NoCard /\ ready' = FALSE
  /\ UNCHANGED <<sd_mode, initialized, sd_mounted, is_sd_inited, pc, mounting,
                 loopVars, tried, moved, ret>>

Insert ==
  /\ ~Inserted
  /\ slot' \in Card /\ ready' = FALSE
  /\ UNCHANGED <<sd_mode, initialized, sd_mounted, is_sd_inited, pc, mounting,
                 loopVars, tried, moved, ret>>

-----------------------------------------------------------------------------
Return(res) ==
  /\ pc' = "idle" /\ mounting' = FALSE /\ ret' = res
  /\ sct_off' = 0 /\ sct_total' = 0 /\ retries' = 0 /\ first_reinit' = FALSE
  /\ tried' = {}

(* sdmmc_storage_end leaves everything as it is when the card does not     *)
(* answer.                                                                 *)
StorageEnd(ended) ==
  /\ ended => Inserted
  /\ initialized' = (initialized /\ ~ended)
  /\ ready' = (ready /\ ~ended)

(* sd_init_retry.  An attempt clears sd_storage before anything else.      *)
InitRetry(powerCycle, ok) ==
  LET lowered == IF powerCycle THEN sd_mode - 1 ELSE sd_mode IN
  IF lowered = SD_INIT_FAIL
  THEN /\ ~ok
       /\ sd_mode' = SD_INIT_FAIL
       /\ IF powerCycle THEN \E ended \in BOOLEAN : StorageEnd(ended)
                        ELSE UNCHANGED <<initialized, ready>>
  ELSE /\ ok => Inserted
       /\ sd_mode' = IF lowered \in Mode THEN lowered ELSE SD_UHS_SDR82
       /\ initialized' = ok
       /\ ready' = ok

NoteMode == tried' = tried \cup ({sd_mode'} \ {SD_INIT_FAIL})

(* A transfer starts from its first chunk.                                 *)
StartTransfer(total) ==
  /\ pc' = "io"
  /\ sct_off' = 0 /\ sct_total' = total
  /\ retries' = 5
  /\ first_reinit' = TRUE

(* Mutation: the restart goes on where the transfer stopped.               *)
RestartKeepsOffset ==
  /\ pc' = "io"
  /\ retries' = 3
  /\ first_reinit' = FALSE
  /\ UNCHANGED <<sct_off, sct_total, mounting, moved, ret>>

(* "If succesful reinit, restart xfer."                                    *)
Restart ==
  /\ pc' = "io"
  /\ sct_off' = 0 /\ sct_total' = sct_off + sct_total
  /\ retries' = 3
  /\ first_reinit' = FALSE
  /\ UNCHANGED <<mounting, moved, ret>>

(* What follows sd_initialize, in sd_mount and in a transfer.  f_mount     *)
(* reads the card.                                                         *)
Initialized ==
  IF sct_total = 0
  THEN /\ is_sd_inited' = TRUE
       /\ \E total \in 1 .. Chunks : StartTransfer(total)
       /\ moved' = Nothing
       /\ UNCHANGED <<mounting, ret>>
  ELSE Restart /\ UNCHANGED is_sd_inited

(* A mount that fails in f_mount leaves the card initialised.              *)
NotInitialized ==
  /\ is_sd_inited' = (is_sd_inited /\ sct_total # 0)
  /\ Return(FALSE)
  /\ UNCHANGED moved

-----------------------------------------------------------------------------
(* sd_mount, the card not being mounted.  A mounted card is no step: the   *)
(* answer is TRUE, and nothing asks the card.                              *)
Mount ==
  /\ pc = "idle"
  /\ ~sd_mounted
  /\ pc' = "init" /\ mounting' = TRUE /\ moved' = Nothing
  /\ UNCHANGED <<hwVars, sd_mode, initialized, sd_mounted, is_sd_inited, loopVars, tried, ret>>

(* The first attempt of sd_initialize.                                     *)
InitFirst(ok) ==
  /\ pc = "init"
  /\ InitRetry(FALSE, ok) /\ NoteMode
  /\ IF ok THEN Initialized
     ELSE /\ pc' = "retry"
          /\ UNCHANGED <<is_sd_inited, mounting, loopVars, moved, ret>>
  /\ UNCHANGED <<slot, sd_mounted>>

(* Its loop: the card is gone, every mode has failed, or the next lower    *)
(* mode is tried.                                                          *)
InitRemoved ==
  /\ pc = "retry"
  /\ ~Inserted
  /\ sd_mode' = SD_UHS_SDR82
  /\ NotInitialized
  /\ UNCHANGED <<hwVars, initialized, sd_mounted>>

(* Mutation: the first failure is the last.                                *)
InitGivesUp ==
  /\ pc = "retry"
  /\ Inserted
  /\ \E ended \in BOOLEAN : StorageEnd(ended)
  /\ NotInitialized
  /\ UNCHANGED <<slot, sd_mode, sd_mounted>>

InitExhausted ==
  /\ pc = "retry"
  /\ Inserted
  /\ sd_mode = SD_INIT_FAIL
  /\ \E ended \in BOOLEAN : StorageEnd(ended)
  /\ NotInitialized
  /\ UNCHANGED <<slot, sd_mode, sd_mounted>>

(* Mutation: the slowest mode is not told from the one below it.           *)
InitLowerAlways(ok) ==
  /\ pc = "retry"
  /\ Inserted
  /\ InitRetry(TRUE, ok) /\ NoteMode
  /\ IF ok THEN Initialized
     ELSE UNCHANGED <<pc, is_sd_inited, mounting, loopVars, moved, ret>>
  /\ UNCHANGED <<slot, sd_mounted>>

InitLower(ok) ==
  /\ pc = "retry"
  /\ Inserted
  /\ sd_mode # SD_INIT_FAIL
  /\ InitRetry(TRUE, ok) /\ NoteMode
  /\ IF ok THEN Initialized
     ELSE UNCHANGED <<pc, is_sd_inited, mounting, loopVars, moved, ret>>
  /\ UNCHANGED <<slot, sd_mounted>>

-----------------------------------------------------------------------------
(* sdmmc_storage_read or sdmmc_storage_write, by FatFs or by FormatSD.     *)
Transfer(total) ==
  /\ pc = "idle"
  /\ sd_mounted \/ is_sd_inited
  /\ IF initialized
     THEN StartTransfer(total) /\ UNCHANGED <<mounting, tried, ret>>
     ELSE Return(FALSE)
  /\ moved' = Nothing
  /\ UNCHANGED <<hwVars, sd_mode, initialized, sd_mounted, is_sd_inited>>

(* The last chunk: for f_mount, the card may hold no FAT file system.      *)
TransferDone ==
  IF mounting THEN \E fat \in BOOLEAN : sd_mounted' = fat /\ Return(fat)
  ELSE UNCHANGED sd_mounted /\ Return(TRUE)

MoveChunk ==
  /\ pc = "io"
  /\ ready
  /\ moved' = [moved EXCEPT ![sct_off] = slot]
  /\ IF sct_total = 1 THEN TransferDone
     ELSE /\ sct_off' = sct_off + 1 /\ sct_total' = sct_total - 1
          /\ retries' = 5
          /\ UNCHANGED <<pc, mounting, first_reinit, tried, sd_mounted, ret>>
  /\ UNCHANGED <<hwVars, sd_mode, initialized, is_sd_inited>>

MoveFails ==
  /\ pc = "io"
  /\ retries' = retries - 1
  /\ pc' = IF retries = 1 THEN "failed" ELSE "io"
  /\ UNCHANGED <<hwVars, sd_mode, initialized, sd_mounted, is_sd_inited, mounting,
                 sct_off, sct_total, first_reinit, tried, moved, ret>>

(* "Disk IO failure!"  The first time in a call the whole ladder is tried, *)
(* from the mode in use; afterwards only the next lower mode.              *)
ReinitFirst ==
  /\ pc = "failed"
  /\ first_reinit
  /\ \E ended \in BOOLEAN : StorageEnd(ended)
  /\ pc' = "init" /\ tried' = {}
  /\ UNCHANGED <<slot, sd_mode, sd_mounted, is_sd_inited, mounting, loopVars, moved, ret>>

ReinitLower(ok) ==
  /\ pc = "failed"
  /\ ~first_reinit
  /\ InitRetry(TRUE, ok)
  /\ IF ok THEN Restart /\ UNCHANGED tried
     ELSE Return(FALSE) /\ UNCHANGED moved
  /\ UNCHANGED <<slot, sd_mounted, is_sd_inited>>

(* Mutation: the card is ended, the volume stays mounted.                  *)
UnmountKeepsMounted ==
  /\ pc = "idle"
  /\ sd_mounted \/ is_sd_inited \/ ~Inserted
  /\ sd_mode' = IF sd_mode = SD_INIT_FAIL THEN SD_UHS_SDR82 ELSE sd_mode
  /\ IF sd_mounted
     THEN \E ended \in BOOLEAN : StorageEnd(ended) /\ is_sd_inited' = FALSE
     ELSE UNCHANGED <<initialized, ready, is_sd_inited>>
  /\ UNCHANGED <<slot, sd_mounted, pc, mounting, loopVars, tried, moved, ret>>

(* sd_unmount: from the menus when the card is mounted or has been taken   *)
(* out, and at the end of FormatSD.                                        *)
Unmount ==
  /\ pc = "idle"
  /\ sd_mounted \/ is_sd_inited \/ ~Inserted
  /\ sd_mode' = IF sd_mode = SD_INIT_FAIL THEN SD_UHS_SDR82 ELSE sd_mode
  /\ IF sd_mounted
     THEN \E ended \in BOOLEAN : StorageEnd(ended) /\ is_sd_inited' = FALSE
     ELSE UNCHANGED <<initialized, ready, is_sd_inited>>
  /\ sd_mounted' = FALSE
  /\ UNCHANGED <<slot, pc, mounting, loopVars, tried, moved, ret>>

Step ==
  \/ \E ok \in BOOLEAN : InitFirst(ok) \/ InitLower(ok) \/ ReinitLower(ok)
  \/ InitRemoved \/ InitExhausted
  \/ MoveChunk \/ MoveFails \/ ReinitFirst

Next ==
  \/ Remove \/ Insert
  \/ Mount \/ Unmount
  \/ \E total \in 1 .. Chunks : Transfer(total)
  \/ Step

Spec == Init /\ [][Next]_vars

(* The driver polls with time-outs: a call that is being executed keeps    *)
(* taking steps, whatever the card does.                                   *)
FairSpec == Spec /\ WF_vars(Step)

-----------------------------------------------------------------------------
(* In particular the counter of the retries, tested after the chunk has    *)
(* failed, is never decremented from 0.                                    *)
TypeOK ==
  /\ slot \in Card \cup {NoCard} /\ ready \in BOOLEAN
  /\ sd_mode \in Mode
  /\ initialized \in BOOLEAN /\ sd_mounted \in BOOLEAN /\ is_sd_inited \in BOOLEAN
  /\ pc \in {"idle", "io", "failed", "init", "retry"}
  /\ mounting \in BOOLEAN
  /\ sct_off \in 0 .. Chunks /\ sct_total \in 0 .. Chunks
  /\ retries \in 0 .. 5 /\ first_reinit \in BOOLEAN
  /\ tried \subseteq Mode
  /\ moved \in [Chunk -> Card \cup {NoCard}]
  /\ ret \in BOOLEAN

(* A transfer that succeeds has moved all of its chunks to or from one     *)
(* card, although cards may change hands between two retries: the restart  *)
(* after a re-initialisation throws the chunks of the other card away.     *)
TransferOnOneCard ==
  [][(pc = "io" /\ pc' = "idle") => \A k \in 0 .. sct_off : moved'[k] = slot]_vars

(* With a card in the slot, sd_initialize gives up only when all modes     *)
(* from the one in use down to the slowest have failed.  The one in use    *)
(* may be SD_INIT_FAIL, left there by a call that gave up: then it gives   *)
(* up without an attempt, although a comment there says "Reset to max.".   *)
DownToTheSlowest == \E m \in Mode : tried = 1 .. m

GivenUpLast ==
  [][(pc \in {"init", "retry"} /\ pc' = "idle" /\ Inserted) => DownToTheSlowest]_vars

(* A re-initialisation that fails leaves the card mounted over a cleared   *)
(* sd_storage, and every later transfer is refused.  Nothing says so but   *)
(* results: as long as sd_storage is lost under a mounted card, the last   *)
(* call that reached the card has reported a failure.                      *)
LossIsReported == sd_mounted /\ pc = "idle" /\ ~initialized => ~ret

(* Every call returns although cards come and go and every attempt fails:  *)
(* within a call the ladder is walked down once and never up.              *)
CallsReturn == pc # "idle" ~> pc = "idle"
=============================================================================
