---------------------------- MODULE SdCardProofs ----------------------------
(***************************************************************************)
(* Proofs about SdCard, for any cards and transfers of any length.         *)
(***************************************************************************)
EXTENDS SdCard, TLAPS

USE CardAssumption

(* Where the loops of a call stand, by the numbers.                        *)
Counts ==
  /\ slot \in Card \cup {NoCard}
  /\ sd_mode \in Mode
  /\ pc \in {"idle", "io", "failed", "init", "retry"}
  /\ sct_off \in 0 .. Chunks /\ sct_total \in 0 .. Chunks /\ retries \in 0 .. 5
  /\ tried \subseteq Mode
  /\ moved \in [Chunk -> Card \cup {NoCard}]
  /\ pc = "idle" => sct_total = 0 /\ sct_off = 0
  /\ pc \in {"io", "failed"} => sct_total # 0
  /\ sct_off + sct_total <= Chunks
  /\ pc = "io" => retries # 0

(* And by the flags.  A transfer with a count of nothing has not begun:    *)
(* that call is sd_mount, and the card is not mounted yet.                 *)
Flags ==
  /\ ready \in BOOLEAN /\ initialized \in BOOLEAN /\ sd_mounted \in BOOLEAN
  /\ is_sd_inited \in BOOLEAN /\ mounting \in BOOLEAN /\ first_reinit \in BOOLEAN
  /\ ret \in BOOLEAN
  /\ pc = "idle" => ~mounting
  /\ pc \in {"init", "retry"} /\ sct_total = 0 => mounting /\ ~sd_mounted
  /\ mounting /\ sct_total # 0 => is_sd_inited
  /\ sd_mounted => is_sd_inited

(* What has been moved so far was moved to or from the card that is in the *)
(* slot, as long as it answers.                                            *)
OneCard == ready => \A k \in 0 .. (sct_off - 1) : moved[k] = slot

(* The ladder of modes is walked down without a step left out.             *)
Ladder ==
  /\ pc \in {"idle", "init"} => tried = {}
  /\ pc = "retry" => \E m \in Mode :
       sd_mode <= m /\ tried = (IF sd_mode = SD_INIT_FAIL THEN 1 ELSE sd_mode) .. m

-----------------------------------------------------------------------------
LEMMA CountsInit == Init => Counts
<1> SUFFICES ASSUME Init PROVE Counts
  OBVIOUS
<1>1. moved \in [Chunk -> Card \cup {NoCard}] /\ tried \subseteq Mode
  BY DEF Init, Nothing
<1> QED BY <1>1 DEF Init, Counts, Mode, SD_UHS_SDR82, SD_INIT_FAIL

LEMMA AttemptCounts ==
  ASSUME Counts, NEW power \in BOOLEAN, NEW ok \in BOOLEAN, InitRetry(power, ok)
  PROVE  sd_mode' \in Mode
  BY DEF Counts, InitRetry, Mode, SD_INIT_FAIL, SD_UHS_SDR82

LEMMA InitializedCounts ==
  ASSUME Counts, pc \in {"init", "retry"}, Initialized, slot' = slot,
         sd_mode' \in Mode, tried' \subseteq Mode
  PROVE  Counts'
<1>1. CASE sct_total = 0
  <2>1. moved' \in [Chunk -> Card \cup {NoCard}]
    BY <1>1 DEF Initialized, Nothing
  <2> QED BY <1>1, <2>1 DEF Counts, Initialized, StartTransfer
<1>2. CASE sct_total # 0
  BY <1>2 DEF Counts, Initialized, Restart
<1> QED BY <1>1, <1>2

LEMMA NotInitializedCounts ==
  ASSUME Counts, NotInitialized, slot' = slot, sd_mode' \in Mode
  PROVE  Counts'
<1>1. tried' \subseteq Mode
  BY DEF NotInitialized, Return
<1> QED BY <1>1 DEF Counts, NotInitialized, Return

LEMMA CountsNext == Counts /\ [Next]_vars => Counts'
<1> SUFFICES ASSUME Counts, [Next]_vars PROVE Counts'
  OBVIOUS
<1>1. CASE Remove \/ Insert
  BY <1>1 DEF Remove, Insert, loopVars, Counts
<1>2. CASE Mount
  <2>1. moved' \in [Chunk -> Card \cup {NoCard}]
    BY <1>2 DEF Mount, Nothing
  <2> QED BY <1>2, <2>1 DEF Mount, hwVars, loopVars, Counts
<1>3. CASE Unmount
  BY <1>3 DEF Unmount, loopVars, Counts, Mode, SD_UHS_SDR82, SD_INIT_FAIL
<1>4. ASSUME NEW total \in 1 .. Chunks, Transfer(total) PROVE Counts'
  <2>1. moved' \in [Chunk -> Card \cup {NoCard}]
    BY <1>4 DEF Transfer, Nothing
  <2>2. CASE initialized
    BY <1>4, <2>1, <2>2 DEF Transfer, StartTransfer, hwVars, Counts
  <2>3. CASE ~initialized
    <3>1. tried' \subseteq Mode
      BY <1>4, <2>3 DEF Transfer, Return
    <3> QED BY <1>4, <2>1, <2>3, <3>1 DEF Transfer, Return, hwVars, Counts
  <2> QED BY <2>2, <2>3
<1>5. ASSUME NEW ok \in BOOLEAN, InitFirst(ok) PROVE Counts'
  <2>1. sd_mode' \in Mode
    BY <1>5, AttemptCounts DEF InitFirst
  <2>2. tried' \subseteq Mode
    BY <1>5, <2>1 DEF InitFirst, NoteMode, Counts
  <2>3. CASE ok
    BY <1>5, <2>1, <2>2, <2>3, InitializedCounts DEF InitFirst
  <2>4. CASE ~ok
    BY <1>5, <2>1, <2>2, <2>4 DEF InitFirst, loopVars, Counts
  <2> QED BY <2>3, <2>4
<1>6. ASSUME NEW ok \in BOOLEAN, InitLower(ok) PROVE Counts'
  <2>1. sd_mode' \in Mode
    BY <1>6, AttemptCounts DEF InitLower
  <2>2. tried' \subseteq Mode
    BY <1>6, <2>1 DEF InitLower, NoteMode, Counts
  <2>3. CASE ok
    BY <1>6, <2>1, <2>2, <2>3, InitializedCounts DEF InitLower
  <2>4. CASE ~ok
    BY <1>6, <2>1, <2>2, <2>4 DEF InitLower, loopVars, Counts
  <2> QED BY <2>3, <2>4
<1>7. ASSUME NEW ok \in BOOLEAN, ReinitLower(ok) PROVE Counts'
  <2>1. sd_mode' \in Mode
    BY <1>7, AttemptCounts DEF ReinitLower
  <2>2. CASE ok
    BY <1>7, <2>1, <2>2 DEF ReinitLower, Restart, Counts
  <2>3. CASE ~ok
    <3>1. tried' \subseteq Mode
      BY <1>7, <2>3 DEF ReinitLower, Return
    <3> QED BY <1>7, <2>1, <2>3, <3>1 DEF ReinitLower, Return, Counts
  <2> QED BY <2>2, <2>3
<1>8. CASE InitRemoved
  BY <1>8, NotInitializedCounts DEF InitRemoved, hwVars, Mode, SD_UHS_SDR82, SD_INIT_FAIL
<1>9. CASE InitExhausted
  BY <1>9, NotInitializedCounts DEF InitExhausted, Counts
<1>10. CASE MoveChunk
  <2>1. moved' \in [Chunk -> Card \cup {NoCard}]
    BY <1>10 DEF MoveChunk, Counts
  <2>2. CASE sct_total = 1
    <3>1. tried' \subseteq Mode
      BY <1>10, <2>2 DEF MoveChunk, TransferDone, Return
    <3> QED BY <1>10, <2>1, <2>2, <3>1 DEF MoveChunk, TransferDone, Return, hwVars, Counts
  <2>3. CASE sct_total # 1
    BY <1>10, <2>1, <2>3 DEF MoveChunk, hwVars, Counts
  <2> QED BY <2>2, <2>3
<1>11. CASE MoveFails
  BY <1>11 DEF MoveFails, hwVars, Counts
<1>12. CASE ReinitFirst
  <2>1. tried' \subseteq Mode
    BY <1>12 DEF ReinitFirst
  <2> QED BY <1>12, <2>1 DEF ReinitFirst, loopVars, Counts
<1>13. CASE UNCHANGED vars
  BY <1>13 DEF vars, hwVars, loopVars, Counts
<1> QED
  BY <1>1, <1>2, <1>3, <1>4, <1>5, <1>6, <1>7, <1>8, <1>9, <1>10, <1>11, <1>12, <1>13 DEF Next, Step

-----------------------------------------------------------------------------
LEMMA FlagsInit == Init => Flags
  BY DEF Init, Flags

LEMMA AttemptFlags ==
  ASSUME Flags, NEW power \in BOOLEAN, NEW ok \in BOOLEAN, InitRetry(power, ok)
  PROVE  initialized' \in BOOLEAN /\ ready' \in BOOLEAN
  BY DEF Flags, InitRetry, StorageEnd

LEMMA InitializedFlags ==
  ASSUME Counts, Flags, pc \in {"init", "retry"}, Initialized, sd_mounted' = sd_mounted,
         initialized' \in BOOLEAN, ready' \in BOOLEAN
  PROVE  Flags'
<1>1. CASE sct_total = 0
  BY <1>1 DEF Flags, Initialized, StartTransfer
<1>2. CASE sct_total # 0
  BY <1>2 DEF Flags, Initialized, Restart
<1> QED BY <1>1, <1>2

LEMMA NotInitializedFlags ==
  ASSUME Flags, pc = "retry", NotInitialized, sd_mounted' = sd_mounted,
         initialized' \in BOOLEAN, ready' \in BOOLEAN
  PROVE  Flags'
  BY DEF Flags, NotInitialized, Return

LEMMA FlagsNext == Counts /\ Flags /\ [Next]_vars => Flags'
<1> SUFFICES ASSUME Counts, Flags, [Next]_vars PROVE Flags'
  OBVIOUS
<1>1. CASE Remove \/ Insert
  <2>1. ready' \in BOOLEAN /\ UNCHANGED <<initialized, sd_mounted, is_sd_inited, pc, mounting, loopVars, ret>>
    BY <1>1 DEF Remove, Insert
  <2> QED BY <2>1 DEF loopVars, Flags
<1>2. CASE Mount
  BY <1>2 DEF Mount, hwVars, loopVars, Flags, Counts
<1>3. CASE Unmount
  BY <1>3 DEF Unmount, StorageEnd, loopVars, Flags
<1>4. ASSUME NEW total \in 1 .. Chunks, Transfer(total) PROVE Flags'
  BY <1>4 DEF Transfer, StartTransfer, Return, hwVars, Flags
<1>5. ASSUME NEW ok \in BOOLEAN, InitFirst(ok) PROVE Flags'
  <2>1. initialized' \in BOOLEAN /\ ready' \in BOOLEAN
    BY <1>5, AttemptFlags DEF InitFirst
  <2>2. CASE ok
    BY <1>5, <2>1, <2>2, InitializedFlags DEF InitFirst
  <2>3. CASE ~ok
    BY <1>5, <2>1, <2>3 DEF InitFirst, loopVars, Flags
  <2> QED BY <2>2, <2>3
<1>6. ASSUME NEW ok \in BOOLEAN, InitLower(ok) PROVE Flags'
  <2>1. initialized' \in BOOLEAN /\ ready' \in BOOLEAN
    BY <1>6, AttemptFlags DEF InitLower
  <2>2. CASE ok
    BY <1>6, <2>1, <2>2, InitializedFlags DEF InitLower
  <2>3. CASE ~ok
    BY <1>6, <2>1, <2>3 DEF InitLower, loopVars, Flags
  <2> QED BY <2>2, <2>3
<1>7. ASSUME NEW ok \in BOOLEAN, ReinitLower(ok) PROVE Flags'
  <2>1. initialized' \in BOOLEAN /\ ready' \in BOOLEAN
    BY <1>7, AttemptFlags DEF ReinitLower
  <2>2. CASE ok
    <3>1. sct_total # 0
      BY <1>7 DEF ReinitLower, Counts
    <3> QED BY <1>7, <2>1, <2>2, <3>1 DEF ReinitLower, Restart, Flags
  <2>3. CASE ~ok
    BY <1>7, <2>1, <2>3 DEF ReinitLower, Return, Flags
  <2> QED BY <2>2, <2>3
<1>8. CASE InitRemoved
  BY <1>8, NotInitializedFlags DEF InitRemoved, hwVars, Flags
<1>9. CASE InitExhausted
  BY <1>9, NotInitializedFlags DEF InitExhausted, StorageEnd, Flags
<1>10. CASE MoveChunk
  <2>1. sct_total # 0
    BY <1>10 DEF MoveChunk, Counts
  <2>2. CASE sct_total = 1
    BY <1>10, <2>1, <2>2 DEF MoveChunk, TransferDone, Return, hwVars, Flags
  <2>3. CASE sct_total # 1
    BY <1>10, <2>1, <2>3 DEF MoveChunk, hwVars, Flags
  <2> QED BY <2>2, <2>3
<1>11. CASE MoveFails
  BY <1>11 DEF MoveFails, hwVars, Flags
<1>12. CASE ReinitFirst
  <2>1. sct_total # 0
    BY <1>12 DEF ReinitFirst, Counts
  <2> QED BY <1>12, <2>1 DEF ReinitFirst, StorageEnd, loopVars, Flags
<1>13. CASE UNCHANGED vars
  BY <1>13 DEF vars, hwVars, loopVars, Flags
<1> QED
  BY <1>1, <1>2, <1>3, <1>4, <1>5, <1>6, <1>7, <1>8, <1>9, <1>10, <1>11, <1>12, <1>13 DEF Next, Step

Inv == Counts /\ Flags

LEMMA InvInit == Init => Inv
  BY CountsInit, FlagsInit DEF Inv

LEMMA InvNext == Inv /\ [Next]_vars => Inv'
  BY CountsNext, FlagsNext DEF Inv

(* The types of SdCard, the bounds of the retry counter among them         *)
(* (bdk/storage/sdmmc.c 230-300).                                          *)
THEOREM TypeCorrect == Spec => []TypeOK
<1>1. Inv => TypeOK
  BY Zenon DEF Inv, Counts, Flags, TypeOK
<1> QED BY InvInit, InvNext, <1>1, PTL DEF Spec

-----------------------------------------------------------------------------
(* While a transfer runs sd_storage is there; it is taken away by what     *)
(* ends in a failure or in another initialisation.                         *)
Held ==
  /\ pc \in {"io", "failed"} => initialized
  /\ sd_mounted /\ pc = "idle" /\ ~initialized => ~ret

LEMMA HeldNext == Inv /\ Held /\ [Next]_vars => Held'
<1> SUFFICES ASSUME Inv, Held, [Next]_vars PROVE Held'
  OBVIOUS
<1> USE DEF Inv
<1>1. CASE Remove \/ Insert \/ Mount \/ UNCHANGED vars
  BY <1>1 DEF Remove, Insert, Mount, vars, Held
<1>2. CASE Unmount
  BY <1>2 DEF Unmount, Held
<1>3. ASSUME NEW total \in 1 .. Chunks, Transfer(total) PROVE Held'
  BY <1>3 DEF Transfer, StartTransfer, Return, Held
<1>4. ASSUME NEW ok \in BOOLEAN, InitFirst(ok) PROVE Held'
  <2>1. CASE ok
    BY <1>4, <2>1 DEF InitFirst, InitRetry, Initialized, StartTransfer, Restart, Held
  <2>2. CASE ~ok
    BY <1>4, <2>2 DEF InitFirst, Held
  <2> QED BY <2>1, <2>2
<1>5. ASSUME NEW ok \in BOOLEAN, InitLower(ok) PROVE Held'
  <2>1. CASE ok
    BY <1>5, <2>1 DEF InitLower, InitRetry, Initialized, StartTransfer, Restart, Held
  <2>2. CASE ~ok
    BY <1>5, <2>2 DEF InitLower, Held
  <2> QED BY <2>1, <2>2
<1>6. ASSUME NEW ok \in BOOLEAN, ReinitLower(ok) PROVE Held'
  BY <1>6 DEF ReinitLower, InitRetry, Restart, Return, Held
<1>7. CASE InitRemoved \/ InitExhausted
  BY <1>7 DEF InitRemoved, InitExhausted, NotInitialized, Return, Held
<1>8. CASE MoveChunk
  BY <1>8 DEF MoveChunk, TransferDone, Return, Held
<1>9. CASE MoveFails
  BY <1>9 DEF MoveFails, Held
<1>10. CASE ReinitFirst
  BY <1>10 DEF ReinitFirst, Held
<1> QED
  BY <1>1, <1>2, <1>3, <1>4, <1>5, <1>6, <1>7, <1>8, <1>9, <1>10 DEF Next, Step

(* sd_storage is lost under a mounted card only by a call that fails,      *)
(* whatever the user does with the cards (nx_sd.c 101-131, and             *)
(* bdk/storage/sdmmc.c 267-300).                                           *)
THEOREM LossReported == Spec => []LossIsReported
<1>1. Init => Held
  BY DEF Init, Held
<1>2. Held => LossIsReported
  BY DEF Held, LossIsReported
<1> QED BY InvInit, InvNext, HeldNext, <1>1, <1>2, PTL DEF Spec

-----------------------------------------------------------------------------
LEMMA OneCardNext == Inv /\ OneCard /\ [Next]_vars => OneCard'
<1> SUFFICES ASSUME Inv, OneCard, [Next]_vars PROVE OneCard'
  OBVIOUS
<1> USE DEF Inv
<1>1. CASE Remove \/ Insert
  BY <1>1 DEF Remove, Insert, OneCard
<1>2. CASE Mount
  BY <1>2 DEF Mount, loopVars, OneCard, Counts
<1>3. CASE Unmount
  BY <1>3 DEF Unmount, StorageEnd, loopVars, OneCard, Counts
<1>4. ASSUME NEW total \in 1 .. Chunks, Transfer(total) PROVE OneCard'
  BY <1>4 DEF Transfer, StartTransfer, Return, OneCard
<1>5. ASSUME NEW ok \in BOOLEAN, InitFirst(ok) PROVE OneCard'
  <2>1. CASE ok
    BY <1>5, <2>1 DEF InitFirst, Initialized, StartTransfer, Restart, OneCard
  <2>2. CASE ~ok
    BY <1>5, <2>2 DEF InitFirst, InitRetry, loopVars, OneCard
  <2> QED BY <2>1, <2>2
<1>6. ASSUME NEW ok \in BOOLEAN, InitLower(ok) PROVE OneCard'
  <2>1. CASE ok
    BY <1>6, <2>1 DEF InitLower, Initialized, StartTransfer, Restart, OneCard
  <2>2. CASE ~ok
    BY <1>6, <2>2 DEF InitLower, InitRetry, StorageEnd, loopVars, OneCard
  <2> QED BY <2>1, <2>2
<1>7. ASSUME NEW ok \in BOOLEAN, ReinitLower(ok) PROVE OneCard'
  BY <1>7 DEF ReinitLower, Restart, Return, OneCard
<1>8. CASE InitRemoved \/ InitExhausted
  BY <1>8 DEF InitRemoved, InitExhausted, NotInitialized, Return, OneCard
<1>9. CASE MoveChunk
  BY <1>9 DEF MoveChunk, TransferDone, Return, hwVars, OneCard, Counts, Chunk
<1>10. CASE MoveFails \/ ReinitFirst
  BY <1>10 DEF MoveFails, ReinitFirst, StorageEnd, hwVars, loopVars, OneCard
<1>11. CASE UNCHANGED vars
  BY <1>11 DEF vars, hwVars, loopVars, OneCard
<1> QED
  BY <1>1, <1>2, <1>3, <1>4, <1>5, <1>6, <1>7, <1>8, <1>9, <1>10, <1>11 DEF Next, Step

LEMMA EndsOnOneCard ==
  ASSUME Inv, OneCard, [Next]_vars, pc = "io", pc' = "idle"
  PROVE  \A k \in 0 .. sct_off : moved'[k] = slot
<1>1. MoveChunk
  BY DEF Next, Step, vars, Remove, Insert, Mount, Unmount, Transfer, InitFirst, InitLower,
         ReinitLower, InitRemoved, InitExhausted, MoveFails, ReinitFirst
<1> QED BY <1>1 DEF MoveChunk, Inv, Counts, OneCard, Chunk

(* A transfer that succeeds has moved all of its chunks to or from one     *)
(* card: cards may be exchanged between any two chunks, retries and        *)
(* re-initialisations (bdk/storage/sdmmc.c 262-300).                       *)
THEOREM TransfersOnOneCard == Spec => TransferOnOneCard
<1>1. Init => OneCard
  BY DEF Init, OneCard
<1>2. Inv /\ OneCard /\ [Next]_vars =>
        [(pc = "io" /\ pc' = "idle") => \A k \in 0 .. sct_off : moved'[k] = slot]_vars
  BY EndsOnOneCard
<1> QED BY InvInit, InvNext, OneCardNext, <1>1, <1>2, PTL DEF Spec, TransferOnOneCard

-----------------------------------------------------------------------------
LEMMA LadderNext == Inv /\ Ladder /\ [Next]_vars => Ladder'
<1> SUFFICES ASSUME Inv, Ladder, [Next]_vars PROVE Ladder'
  OBVIOUS
<1> USE DEF Inv
<1>1. CASE Remove \/ Insert \/ Mount \/ UNCHANGED vars
  BY <1>1 DEF Remove, Insert, Mount, vars, Ladder
<1>2. CASE Unmount
  BY <1>2 DEF Unmount, Ladder
<1>3. ASSUME NEW total \in 1 .. Chunks, Transfer(total) PROVE Ladder'
  BY <1>3 DEF Transfer, StartTransfer, Return, Ladder
<1>4. ASSUME NEW ok \in BOOLEAN, InitFirst(ok) PROVE Ladder'
  <2>1. CASE ok
    BY <1>4, <2>1 DEF InitFirst, Initialized, StartTransfer, Restart, Ladder
  <2>2. CASE ~ok
    <3>1. sd_mode' \in Mode /\ tried' = {sd_mode'} \ {SD_INIT_FAIL} /\ pc' = "retry"
      BY <1>4, <2>2, AttemptCounts DEF InitFirst, NoteMode, Ladder
    <3>2. tried' = (IF sd_mode' = SD_INIT_FAIL THEN 1 ELSE sd_mode') .. sd_mode'
      BY <3>1 DEF Mode, SD_INIT_FAIL, SD_UHS_SDR82
    <3> QED BY <3>1, <3>2 DEF Ladder
  <2> QED BY <2>1, <2>2
<1>5. ASSUME NEW ok \in BOOLEAN, InitLower(ok) PROVE Ladder'
  <2>1. CASE ok
    BY <1>5, <2>1 DEF InitLower, Initialized, StartTransfer, Restart, Ladder
  <2>2. CASE ~ok
    <3>1. sd_mode \in 1 .. 3 /\ sd_mode' = sd_mode - 1 /\ pc = "retry" /\ pc' = "retry"
      BY <1>5, <2>2 DEF InitLower, InitRetry, Counts, Mode, SD_INIT_FAIL, SD_UHS_SDR82
    <3>2. PICK m \in Mode : sd_mode <= m /\ tried = sd_mode .. m
      BY <3>1 DEF Ladder, SD_INIT_FAIL
    <3>3. tried' = tried \cup ({sd_mode - 1} \ {0})
      BY <1>5, <3>1 DEF InitLower, NoteMode, SD_INIT_FAIL
    <3>4. CASE sd_mode = 1
      <4>1. tried' = 1 .. m /\ sd_mode' = 0
        BY <3>1, <3>2, <3>3, <3>4
      <4> QED BY <3>1, <4>1 DEF Ladder, Mode, SD_INIT_FAIL, SD_UHS_SDR82
    <3>5. CASE sd_mode # 1
      <4>1. tried' = sd_mode' .. m
        BY <3>1, <3>2, <3>3, <3>5 DEF Mode, SD_INIT_FAIL, SD_UHS_SDR82
      <4>2. sd_mode' <= m
        BY <3>1, <3>2 DEF Mode, SD_INIT_FAIL, SD_UHS_SDR82
      <4> QED BY <3>1, <3>5, <4>1, <4>2 DEF Ladder, SD_INIT_FAIL
    <3> QED BY <3>4, <3>5
  <2> QED BY <2>1, <2>2
<1>6. ASSUME NEW ok \in BOOLEAN, ReinitLower(ok) PROVE Ladder'
  BY <1>6 DEF ReinitLower, Restart, Return, Ladder
<1>7. CASE InitRemoved \/ InitExhausted
  BY <1>7 DEF InitRemoved, InitExhausted, NotInitialized, Return, Ladder
<1>8. CASE MoveChunk \/ MoveFails
  BY <1>8 DEF MoveChunk, TransferDone, Return, MoveFails, Ladder
<1>9. CASE ReinitFirst
  BY <1>9 DEF ReinitFirst, Ladder
<1> QED
  BY <1>1, <1>2, <1>3, <1>4, <1>5, <1>6, <1>7, <1>8, <1>9 DEF Next, Step

LEMMA GivesUpLast ==
  ASSUME Inv, Ladder, [Next]_vars, pc \in {"init", "retry"}, pc' = "idle", Inserted
  PROVE  DownToTheSlowest
<1>1. ASSUME NEW ok \in BOOLEAN, InitFirst(ok) \/ InitLower(ok) PROVE FALSE
  BY <1>1 DEF InitFirst, InitLower, Initialized, StartTransfer, Restart
<1>2. InitExhausted
  BY <1>1 DEF Next, Step, vars, Remove, Insert, Mount, Unmount, Transfer,
              ReinitLower, InitRemoved, MoveChunk, MoveFails, ReinitFirst
<1> QED BY <1>2 DEF InitExhausted, Ladder, DownToTheSlowest

(* With a card in the slot no mode from the one in use down to the slowest *)
(* is left out before sd_initialize gives up; there is none when the mode  *)
(* in use is SD_INIT_FAIL already (source/storage/nx_sd.c 96-135).         *)
THEOREM GivesUpLastOfAll == Spec => GivenUpLast
<1>1. Init => Ladder
  BY DEF Init, Ladder
<1>2. Inv /\ Ladder /\ [Next]_vars =>
        [(pc \in {"init", "retry"} /\ pc' = "idle" /\ Inserted) => DownToTheSlowest]_vars
  BY GivesUpLast
<1> QED BY InvInit, InvNext, LadderNext, <1>1, <1>2, PTL DEF Spec, GivenUpLast
=============================================================================
