----------------------------- MODULE EmmcFile -----------------------------
(***************************************************************************)
(* Dumping an area of the eMMC to a file and restoring it from one         *)
(* (source/storage/emmcfile.c 19-132), with the questions the partition    *)
(* menu asks in between (source/storage/gptmenu.c 83-155).                 *)
(*                                                                         *)
(* A step is a call up to its loop, one round of the loop, or the f_close  *)
(* behind it.  FatFs keeps the size of a file to itself until f_close: the *)
(* directory has the new file empty before.  FAT32 has no room for 4 GiB   *)
(* in a file; a write that would get there is cut off without an error.    *)
(* Which device and area are selected is the matter of MountManager; the   *)
(* cluster cache below is a disk, as BisCache shows.  The eMMC may be the  *)
(* image of one that is kept in files (source/storage/emummc.c): a request *)
(* is then one access to the file of its first sector.                     *)
(***************************************************************************)
EXTENDS Integers, SequencesExt

CONSTANTS
  Value,            (* contents of a sector                                *)
  EmmcSize,         (* sectors of the eMMC                                 *)
  First,            (* lba_start                                           *)
  LastLba,          (* lba_end                                             *)
  BufSectors,       (* TConf.FSBuffSize / NX_EMMC_BLOCKSIZE                *)
  PartSize,         (* emu_cfg.file_based_part_size, sectors of a file     *)
  Limits,           (* whole sectors that go into a file, by file system   *)
  MaxFile,          (* bound: sectors of a file                            *)
  MaxFaults,        (* bound: failing accesses                             *)
  MaxCalls          (* bound: dumps and restores                           *)

ASSUME AreaAssumption ==
  /\ First \in Nat /\ LastLba \in Nat /\ EmmcSize \in Nat
  /\ First <= LastLba /\ LastLba < EmmcSize
ASSUME BufAssumption == BufSectors \in Nat \ {0}
ASSUME PartAssumption == PartSize \in Nat \ {0}
ASSUME LimitsAssumption == Limits \subseteq Nat
ASSUME BoundsAssumption == {MaxFile, MaxFaults, MaxCalls} \subseteq Nat

VARIABLES
  emmc,             (* sector -> contents                                  *)
  file,             (* the file: whole sectors, and whether bytes follow   *)
  largest,          (* the limit of the card's file system                 *)
  pc,               (* what runs: a loop, f_close, or nothing              *)
  curLba,
  left,             (* totalSectors, totalSectorsSrc                       *)
  err,
  faults,
  calls,
  asked,            (* observation: the user has agreed, or a script said  *)
  found,            (* observation: the call, the eMMC and the file then   *)
  unsaved           (* observation: the size did not get into the directory *)

vars == <<emmc, file, largest, pc, curLba, left, err, faults, calls, asked, found, unsaved>>

-----------------------------------------------------------------------------
Lba     == 0..(EmmcSize - 1)
Area    == First..LastLba
AreaLen == LastLba - First + 1
NoFile  == [exists |-> FALSE, secs |-> <<>>, tail |-> FALSE]
FileOf(secs, tail) == [exists |-> TRUE, secs |-> secs, tail |-> tail]
Empty   == FileOf(<<>>, FALSE)
File    == [exists : BOOLEAN, secs : Seq(Value), tail : BOOLEAN]
Files   == {NoFile} \cup {FileOf(s, t) : s \in UNION {[1..n -> Value] : n \in 0..MaxFile},
                                         t \in BOOLEAN}
Errors  == {"none", "ok", "exists", "fat", "mem", "read", "write", "toobig", "toosmall", "declined"}

(* Mutation: only full buffers are moved.                                  *)
FullBuffersOnly(m, n) == IF m < n THEN 0 ELSE n

AtMost(m, n) == IF m <= n THEN m ELSE n
Num     == AtMost(left, BufSectors)

(* emummc_storage_read and emummc_storage_write: the sectors of a request  *)
(* that lie in the file of the first one.  A read stops at the end of that *)
(* file without an error, and the buffer keeps there what it held; what is *)
(* written behind it is found in no file.                                  *)
PartOf(l)  == l \div PartSize
Reached(n) == {l \in curLba..(curLba + n - 1) : PartOf(l) = PartOf(curLba)}

Buffers(n) == {b \in [1..n -> Value] :
                 \A l \in Reached(n) : b[l - curLba + 1] = emmc[l]}

(* f_write behind what the file has: of the first sector that does not fit *)
(* all bytes but the last go in.                                           *)
Grown(b) ==
  LET s == file.secs \o b IN
  FileOf(SubSeq(s, 1, AtMost(Len(s), largest)), file.tail \/ Len(s) > largest)

Fault   == faults < MaxFaults /\ faults' = faults + 1
NoFault == UNCHANGED faults

(* f_open or malloc fails, or what there is refuses the call.              *)
Return(result) == pc' = "idle" /\ err' = result /\ UNCHANGED <<curLba, left>>
Leave(result)  == pc' = "close" /\ err' = result /\ UNCHANGED <<curLba, left>>
Loop(which, n) == pc' = which /\ err' = "ok" /\ curLba' = First /\ left' = n

-----------------------------------------------------------------------------
(* Mutation: the file is opened before it is looked for.                   *)
DumpOpensFirst(forced) ==
  /\ UNCHANGED emmc
  /\ \/ file.exists /\ ~forced /\ NoFault /\ Return("exists") /\ file' = Empty
     \/ /\ ~file.exists \/ forced
        /\ NoFault /\ Loop("dump", AreaLen) /\ file' = Empty

(* EmmcDumpToFile.  The file is opened and emptied before the buffer is    *)
(* there.  To FileExists a failing f_stat means that the file is there.    *)
Dump(forced) ==
  /\ UNCHANGED emmc
  /\ \/ file.exists /\ ~forced /\ NoFault /\ Return("exists") /\ UNCHANGED file
     \/ ~forced /\ Fault /\ Return("exists") /\ UNCHANGED file
     \/ /\ ~file.exists \/ forced
        /\ \/ Fault /\ Return("fat") /\ UNCHANGED file
           \/ Fault /\ Return("mem") /\ file' = Empty
           \/ NoFault /\ Loop("dump", AreaLen) /\ file' = Empty

(* Mutation: a full buffer is taken also at the end.                       *)
DumpFullRound ==
  /\ pc = "dump" /\ left > 0
  /\ NoFault
  /\ file' = Grown([i \in 1..BufSectors |->
                      IF curLba + i - 1 \in Lba THEN emmc[curLba + i - 1] ELSE emmc[0]])
  /\ curLba' = curLba + Num /\ left' = left - Num
  /\ UNCHANGED <<emmc, largest, pc, err, calls, asked, found, unsaved>>

DumpRound ==
  /\ pc = "dump" /\ left > 0
  /\ \/ /\ NoFault
        /\ \E b \in Buffers(Num) : file' = Grown(b)
        /\ curLba' = curLba + Num /\ left' = left - Num
        /\ UNCHANGED <<pc, err>>
     \/ Fault /\ Leave("read") /\ UNCHANGED file
     \/ /\ Fault /\ Leave("fat")
        /\ \E n \in 0..(Num - 1), b \in Buffers(Num) : file' = Grown(SubSeq(b, 1, n))
  /\ UNCHANGED <<emmc, largest, calls, asked, found, unsaved>>

(* EmmcRestoreFromFile.  FA_OPEN_ALWAYS creates a file that is missing;    *)
(* bytes after the last whole sector do not count.                         *)
Restore(forced) ==
  LET src == IF file.exists THEN file ELSE Empty
      n   == Len(src.secs)
  IN
  /\ UNCHANGED emmc
  /\ \/ Fault /\ Return("fat") /\ UNCHANGED file
     \/ /\ file' = src
        /\ \/ n > AreaLen /\ NoFault /\ Return("toobig")
           \/ n < AreaLen /\ ~forced /\ NoFault /\ Return("toosmall")
           \/ /\ n = AreaLen \/ (n < AreaLen /\ forced)
              /\ \/ Fault /\ Return("mem")
                 \/ NoFault /\ Loop("restore", n)

(* The first n sectors of the round are on the eMMC.                       *)
Written(n) == [l \in Lba |-> IF l \in Reached(n)
                               THEN file.secs[l - First + 1] ELSE emmc[l]]

(* Mutation: a write that fails is not noticed.                            *)
RestoreRoundBlind ==
  /\ pc = "restore" /\ left > 0
  /\ \/ NoFault /\ emmc' = Written(Num)
     \/ Fault /\ emmc' = emmc
  /\ curLba' = curLba + Num /\ left' = left - Num
  /\ UNCHANGED <<file, largest, pc, err, calls, asked, found, unsaved>>

RestoreRound ==
  /\ pc = "restore" /\ left > 0
  /\ \/ /\ NoFault
        /\ emmc' = Written(Num)
        /\ curLba' = curLba + Num /\ left' = left - Num
        /\ UNCHANGED <<pc, err>>
     \/ Fault /\ Leave("fat") /\ UNCHANGED emmc
     \/ /\ Fault /\ Leave("write")
        /\ \E n \in 0..Num : emmc' = Written(n)
  /\ UNCHANGED <<file, largest, calls, asked, found, unsaved>>

LoopEnds ==
  /\ pc \in {"dump", "restore"} /\ left = 0
  /\ Leave("ok")
  /\ UNCHANGED <<emmc, file, largest, faults, calls, asked, found, unsaved>>

(* What f_close returns is not looked at.  It writes the size of a file    *)
(* that has been written to, which may fail; a file whose first f_write    *)
(* has failed does not count as written to.                                *)
Close ==
  /\ pc = "close" /\ pc' = "idle"
  /\ \/ NoFault /\ UNCHANGED <<file, unsaved>>
     \/ /\ found.op = "dump"
        /\ Fault \/ (NoFault /\ err = "fat" /\ curLba = First)
        /\ file' = Empty /\ unsaved' = TRUE
  /\ UNCHANGED <<emmc, largest, curLba, left, err, calls, asked, found>>

-----------------------------------------------------------------------------
Questions == {"exists", "toosmall"}

Begin(op, agreed) ==
  /\ pc = "idle" /\ err \notin Questions /\ calls < MaxCalls
  /\ calls' = calls + 1
  /\ asked' = agreed
  /\ found' = [op |-> op, emmc |-> emmc, file |-> file]
  /\ unsaved' = FALSE
  /\ UNCHANGED largest

(* The partition menu calls without force first; scripts with force.       *)
MenuDump    == Begin("dump", FALSE) /\ Dump(FALSE)
MenuFlash   == Begin("restore", FALSE) /\ Restore(FALSE)
ScriptRead  == Begin("dump", TRUE) /\ Dump(TRUE)
ScriptWrite == Begin("restore", TRUE) /\ Restore(TRUE)

(* "Overwrite?", "Flash anyway?"                                           *)
Agree ==
  /\ pc = "idle"
  /\ asked' = TRUE
  /\ \/ err = "exists" /\ Dump(TRUE)
     \/ err = "toosmall" /\ Restore(TRUE)
  /\ UNCHANGED <<largest, calls, found, unsaved>>

Decline ==
  /\ pc = "idle" /\ err \in Questions
  /\ err' = "declined"
  /\ UNCHANGED <<emmc, file, largest, pc, curLba, left, faults, calls, asked, found, unsaved>>

-----------------------------------------------------------------------------
Init ==
  /\ emmc \in [Lba -> Value]
  /\ largest \in Limits
  /\ file \in {f \in Files : Len(f.secs) <= largest}
  /\ pc = "idle" /\ err = "none"
  /\ curLba = 0 /\ left = 0
  /\ faults = 0 /\ calls = 0
  /\ asked = FALSE /\ unsaved = FALSE
  /\ found = [op |-> "none", emmc |-> emmc, file |-> file]

Rounds == DumpRound \/ RestoreRound \/ LoopEnds \/ Close

Next ==
  \/ MenuDump \/ MenuFlash \/ ScriptRead \/ ScriptWrite
  \/ Agree \/ Decline
  \/ Rounds

(* A call runs on its own until it is over.                                *)
Spec == Init /\ [][Next]_vars /\ WF_vars(Rounds)

-----------------------------------------------------------------------------
TypeOK ==
  /\ emmc \in [Lba -> Value]
  /\ file \in File
  /\ largest \in Limits
  /\ pc \in {"idle", "dump", "restore", "close"} /\ err \in Errors
  /\ curLba \in Nat /\ left \in 0..AreaLen
  /\ faults \in 0..MaxFaults /\ calls \in 0..MaxCalls
  /\ asked \in BOOLEAN /\ unsaved \in BOOLEAN
  /\ found \in [op : {"none", "dump", "restore"}, emmc : [Lba -> Value], file : File]

Succeeded(op) == pc = "idle" /\ err = "ok" /\ found.op = op

(* The sectors a request gets an answer for: those in the image file in    *)
(* which the round begins they are moved with.  With an eMMC that is not   *)
(* kept in files, or an area on the boundaries of the rounds, all of them. *)
RoundStart(s) == \E k \in 0..AreaLen : s = First + k * BufSectors
Answered(l) ==
  \A s \in Area : RoundStart(s) /\ l \in s..(s + BufSectors - 1) => PartOf(l) = PartOf(s)

(* A dump that reports success holds the whole area and nothing else, as   *)
(* far as it goes into a file, for any size of the buffer, and has not     *)
(* touched the eMMC (emmcfile.c 43-69).  It does not if f_close could not  *)
(* write the size of the file.                                             *)
DumpIsWhole ==
  /\ Succeeded("dump") /\ ~unsaved =>
       /\ Len(file.secs) = AtMost(AreaLen, largest)
       /\ (file.tail <=> AreaLen > largest)
       /\ \A i \in 1..Len(file.secs) :
            Answered(First + i - 1) => file.secs[i] = found.emmc[First + i - 1]
  /\ found.op = "dump" => emmc = found.emmc

(* A restore that reports success has put every sector of the file in its  *)
(* place; whether it does or fails half way, no other sector changes and   *)
(* the file stays what it is (emmcfile.c 102-131).                         *)
RestoreIsWhole ==
  LET Held == First..(First + Len(file.secs) - 1) IN
  found.op = "restore" =>
    /\ Succeeded("restore") =>
         \A l \in Held : Answered(l) => emmc[l] = file.secs[l - First + 1]
    /\ \A l \in Lba : l \notin Held \cap Area => emmc[l] = found.emmc[l]
    /\ found.file.exists => file = found.file

(* A file that was there is overwritten, and an area is filled in part,    *)
(* only after the user has agreed or when a script asks for it             *)
(* (gptmenu.c 93-105, 141-151, emmcfile.c 24-26, 89-90).                   *)
AsksFirst ==
  ~asked => /\ found.file.exists => file = found.file
            /\ emmc # found.emmc => Len(file.secs) = AreaLen

(* Every dump and restore comes back.                                      *)
CallsReturn == []<>(pc = "idle")
=============================================================================
