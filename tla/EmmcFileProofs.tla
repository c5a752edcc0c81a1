--------------------------- MODULE EmmcFileProofs ---------------------------
(***************************************************************************)
(* Proofs about EmmcFile, for areas, buffers and files of any size.        *)
(***************************************************************************)
EXTENDS EmmcFile, SequenceTheorems, TLAPS

USE AreaAssumption, BufAssumption, PartAssumption, BoundsAssumption, LimitsAssumption

(* Where a call stands, by the numbers.                                    *)
Counts ==
  /\ emmc \in [Lba -> Value]
  /\ file \in File
  /\ largest \in Limits
  /\ pc \in {"idle", "dump", "restore", "close"} /\ err \in Errors
  /\ curLba \in Nat /\ left \in 0..AreaLen
  /\ faults \in 0..MaxFaults /\ calls \in 0..MaxCalls
  /\ found \in [op : {"none", "dump", "restore"}, emmc : [Lba -> Value], file : File]
  /\ pc = "dump" => First <= curLba /\ curLba + left = LastLba + 1
  /\ pc = "restore" =>
       /\ First <= curLba /\ curLba + left = First + Len(file.secs)
       /\ Len(file.secs) <= AreaLen

(* And by the file and the question asked.                                 *)
Stand ==
  /\ asked \in BOOLEAN /\ unsaved \in BOOLEAN
  /\ ~file.exists => file.secs = <<>>
  /\ pc = "dump" => found.op = "dump" /\ file.exists
  /\ pc = "restore" => found.op = "restore" /\ file.exists
  /\ pc = "close" => err \in {"ok", "read", "write", "fat"}
  /\ pc = "idle" /\ err = "exists" => found.op = "dump"
  /\ pc = "idle" /\ err = "toosmall" => found.op = "restore"

Inv == Counts /\ Stand

(* A round begins at a multiple of the buffer.                             *)
Aligned == pc \in {"dump", "restore"} /\ left > 0 => RoundStart(curLba)

-----------------------------------------------------------------------------
LEMMA NumFits ==
  ASSUME Counts, left > 0
  PROVE  Num \in 1..left /\ Num <= BufSectors
  BY DEF Counts, Num, AtMost, AreaLen

LEMMA FilesTyped ==
  Empty \in File /\ Empty.exists /\ Empty.secs = <<>> /\ ~Empty.tail /\ Len(Empty.secs) = 0
  BY DEF Empty, FileOf, File

LEMMA Appended ==
  ASSUME NEW s \in Seq(Value), NEW b \in Seq(Value)
  PROVE  /\ s \o b \in Seq(Value)
         /\ Len(s) \in Nat /\ Len(s \o b) = Len(s) + Len(b)
         /\ \A i \in 1..(Len(s) + Len(b)) :
              /\ i <= Len(s) => (s \o b)[i] = s[i]
              /\ ~(i <= Len(s)) => (s \o b)[i] = b[i - Len(s)]
<1>1. s \o b \in Seq(Value) /\ Len(s \o b) = Len(s) + Len(b) /\ Len(s) \in Nat
  OBVIOUS
<1>2. ASSUME NEW i \in 1..(Len(s) + Len(b))
      PROVE  (s \o b)[i] = IF i <= Len(s) THEN s[i] ELSE b[i - Len(s)]
  BY ConcatProperties
<1> QED BY <1>1, <1>2

(* What a write leaves of the file and of the buffer.                      *)
LEMMA GrownFile ==
  ASSUME Inv, NEW b \in Seq(Value)
  PROVE  /\ Grown(b) \in File /\ Grown(b).exists
         /\ Len(file.secs) \in Nat
         /\ Len(Grown(b).secs) = AtMost(Len(file.secs) + Len(b), largest)
         /\ (Grown(b).tail <=> file.tail \/ Len(file.secs) + Len(b) > largest)
         /\ \A i \in 1..Len(Grown(b).secs) :
              /\ i <= Len(file.secs) => Grown(b).secs[i] = file.secs[i]
              /\ ~(i <= Len(file.secs)) => Grown(b).secs[i] = b[i - Len(file.secs)]
<1> DEFINE s == file.secs \o b
           m == AtMost(Len(s), largest)
           u == SubSeq(s, 1, m)
<1>1. file.secs \in Seq(Value) /\ largest \in Nat /\ file.tail \in BOOLEAN
  BY DEF Inv, Counts, File
<1>2. /\ s \in Seq(Value) /\ Len(file.secs) \in Nat /\ Len(s) = Len(file.secs) + Len(b)
      /\ \A i \in 1..(Len(file.secs) + Len(b)) :
           /\ i <= Len(file.secs) => s[i] = file.secs[i]
           /\ ~(i <= Len(file.secs)) => s[i] = b[i - Len(file.secs)]
  BY <1>1, Appended
<1>3. Grown(b) = [exists |-> TRUE, secs |-> u, tail |-> file.tail \/ Len(s) > largest]
  BY DEF Grown, FileOf
<1> HIDE DEF s
<1>4. Len(s) \in Nat
  BY <1>2
<1>5. m \in 0..Len(s)
  BY <1>1, <1>4 DEF AtMost
<1> HIDE DEF m
<1>6. u \in Seq(Value) /\ Len(u) = m /\ \A i \in 1..m : u[i] = s[i]
  BY <1>2, <1>5
<1> HIDE DEF u
<1>7. Grown(b).secs = u /\ Grown(b).exists
  BY <1>3
<1>12. Grown(b).tail <=> file.tail \/ Len(s) > largest
  <2> DEFINE w == file.tail \/ Len(s) > largest
  <2>1. w \in BOOLEAN
    OBVIOUS
  <2>2. Grown(b) = [exists |-> TRUE, secs |-> u, tail |-> w]
    BY <1>3
  <2> HIDE DEF w
  <2>3. Grown(b).tail = w
    BY <2>2
  <2>4. Grown(b).tail <=> w
    BY <2>1, <2>3, Zenon
  <2> QED BY <2>4 DEF w
<1>8. Grown(b) \in File
  BY <1>1, <1>3, <1>6 DEF File
<1>9. \A i \in 1..Len(u) : i \in 1..m /\ i \in 1..(Len(file.secs) + Len(b))
  BY <1>2, <1>5, <1>6
<1>10. Len(u) = AtMost(Len(file.secs) + Len(b), largest)
  BY <1>2, <1>6 DEF m
<1>11. \A i \in 1..Len(u) :
         /\ i <= Len(file.secs) => u[i] = file.secs[i]
         /\ ~(i <= Len(file.secs)) => u[i] = b[i - Len(file.secs)]
  BY <1>2, <1>6, <1>9
<1> QED BY <1>2, <1>7, <1>8, <1>10, <1>11, <1>12

LEMMA InitInv == Init => Inv
<1> SUFFICES ASSUME Init PROVE Inv
  OBVIOUS
<1>1. file \in File /\ (~file.exists => file.secs = <<>>)
  <2>1. CASE file = NoFile
    BY <2>1 DEF NoFile, File
  <2>2. CASE file # NoFile
    <3>1. PICK n \in 0..MaxFile : \E s \in [1..n -> Value], t \in BOOLEAN : file = FileOf(s, t)
      BY <2>2 DEF Init, Files
    <3>2. PICK s \in [1..n -> Value], t \in BOOLEAN : file = FileOf(s, t)
      BY <3>1
    <3>3. s \in Seq(Value)
      BY <3>1, <3>2
    <3> QED BY <3>2, <3>3 DEF FileOf, File
  <2> QED BY <2>1, <2>2
<1>2. Counts
  BY <1>1 DEF Init, Counts, AreaLen, Errors
<1>3. Stand
  BY <1>1 DEF Init, Stand
<1> QED BY <1>2, <1>3 DEF Inv

(* A dump up to its loop.                                                  *)
LEMMA DumpBegins ==
  ASSUME Inv, NEW forced \in BOOLEAN, Dump(forced), found'.op = "dump", pc = "idle",
         found' \in [op : {"none", "dump", "restore"}, emmc : [Lba -> Value], file : File],
         calls' \in 0..MaxCalls, asked' \in BOOLEAN, unsaved' \in BOOLEAN, largest' = largest
  PROVE  Inv'
<1> USE DEF Inv
<1>1. file' \in {file, Empty} /\ emmc' = emmc
  BY DEF Dump
<1>2. faults' \in 0..MaxFaults
  BY DEF Dump, Fault, NoFault, Counts
<1>3. \/ pc' = "idle" /\ err' \in Errors /\ err' # "toosmall" /\ UNCHANGED <<curLba, left>>
      \/ pc' = "dump" /\ err' = "ok" /\ file' = Empty /\ curLba' = First /\ left' = AreaLen
  BY DEF Dump, Return, Loop, Errors
<1>4. Counts'
  <2>1. file' \in File
    BY <1>1, FilesTyped DEF Counts
  <2> QED BY <1>1, <1>2, <1>3, <2>1, FilesTyped DEF Counts, AreaLen, Errors
<1>5. Stand'
  BY <1>1, <1>3, FilesTyped DEF Stand
<1> QED BY <1>4, <1>5

(* A restore up to its loop.                                               *)
LEMMA RestoreBegins ==
  ASSUME Inv, NEW forced \in BOOLEAN, Restore(forced), found'.op = "restore", pc = "idle",
         found' \in [op : {"none", "dump", "restore"}, emmc : [Lba -> Value], file : File],
         calls' \in 0..MaxCalls, asked' \in BOOLEAN, unsaved' \in BOOLEAN, largest' = largest
  PROVE  Inv'
<1> USE DEF Inv
<1> DEFINE src == IF file.exists THEN file ELSE Empty
           n   == Len(src.secs)
<1>1. src \in File /\ src.exists /\ n \in Nat
  <2>1. src \in File /\ src.exists
    BY FilesTyped DEF Counts
  <2> QED BY <2>1 DEF File
<1> HIDE DEF src
<1>2. file' \in {file, src} /\ emmc' = emmc
  BY DEF Restore, src
<1>3. faults' \in 0..MaxFaults
  BY DEF Restore, Fault, NoFault, Counts
<1>4. \/ pc' = "idle" /\ err' \in Errors /\ err' # "exists" /\ UNCHANGED <<curLba, left>>
      \/ pc' = "restore" /\ err' = "ok" /\ file' = src /\ curLba' = First /\ left' = n
         /\ (n = AreaLen \/ n < AreaLen)
  BY DEF Restore, Return, Loop, Errors, src
<1>5. Counts'
  <2>1. file' \in File
    BY <1>1, <1>2 DEF Counts
  <2>2. CASE pc' = "idle"
    BY <1>2, <1>3, <1>4, <2>1, <2>2 DEF Counts
  <2>3. CASE pc' = "restore"
    <3>1. curLba' = First /\ left' = n /\ n <= AreaLen /\ Len(file'.secs) = n /\ err' \in Errors
      BY <1>1, <1>4, <2>3 DEF Errors, AreaLen
    <3> HIDE DEF n
    <3> QED BY <1>1, <1>2, <1>3, <2>1, <2>3, <3>1 DEF Counts
  <2> QED BY <1>4, <2>2, <2>3
<1>6. Stand'
  BY <1>1, <1>2, <1>4 DEF Stand
<1> QED BY <1>5, <1>6

(* A round of a dump adds its buffer, or a part of it, to the file.        *)
LEMMA DumpRoundShape ==
  ASSUME Inv, DumpRound
  PROVE  /\ emmc' = emmc /\ found' = found /\ asked' = asked /\ calls' = calls
         /\ largest' = largest /\ unsaved' = unsaved
         /\ pc = "dump" /\ faults' \in 0..MaxFaults /\ file' \in File /\ file'.exists
         /\ Num \in 1..left /\ Num <= BufSectors
         /\ \/ /\ pc' = "dump" /\ err' = err /\ curLba' = curLba + Num /\ left' = left - Num
               /\ \E b \in Buffers(Num) : b \in Seq(Value) /\ Len(b) = Num /\ file' = Grown(b)
            \/ pc' = "close" /\ err' \in {"read", "fat"} /\ UNCHANGED <<curLba, left>>
<1>1. Num \in 1..left /\ Num <= BufSectors
  BY NumFits DEF DumpRound, Inv
<1>2. ASSUME NEW b \in Buffers(Num) PROVE b \in Seq(Value) /\ Len(b) = Num
  <2>1. b \in [1..Num -> Value]
    BY DEF Buffers
  <2> QED BY <1>1, <2>1
<1>3. faults' \in 0..MaxFaults
  <2>1. Fault \/ NoFault
    BY DEF DumpRound
  <2> QED BY <2>1 DEF Fault, NoFault, Inv, Counts
<1>4. /\ UNCHANGED <<emmc, found, asked, calls, largest, unsaved>> /\ pc = "dump"
  BY DEF DumpRound
<1>5. CASE pc' = "dump"
  <2>1. PICK b \in Buffers(Num) : file' = Grown(b)
    BY <1>5 DEF DumpRound, Leave
  <2>2. b \in Seq(Value) /\ Len(b) = Num
    BY <1>2, <2>1
  <2>3. file' \in File /\ file'.exists
    BY <2>1, <2>2, GrownFile
  <2>4. UNCHANGED err /\ curLba' = curLba + Num /\ left' = left - Num
    BY <1>5 DEF DumpRound, Leave
  <2> QED BY <1>1, <1>3, <1>4, <1>5, <2>1, <2>2, <2>3, <2>4
<1>6. CASE pc' # "dump"
  <2>1. pc' = "close" /\ err' \in {"read", "fat"} /\ UNCHANGED <<curLba, left>>
    BY <1>6 DEF DumpRound, Leave
  <2>2. file' \in File /\ file'.exists
    <3>1. CASE file' = file
      BY <1>4, <3>1 DEF Inv, Counts, Stand
    <3>2. CASE file' # file
      <4>1. PICK n \in 0..(Num - 1), b \in Buffers(Num) : file' = Grown(SubSeq(b, 1, n))
        BY <1>6, <3>2 DEF DumpRound
      <4>2. SubSeq(b, 1, n) \in Seq(Value)
        BY <1>1, <1>2, <4>1
      <4> QED BY <4>1, <4>2, GrownFile
    <3> QED BY <3>1, <3>2
  <2> QED BY <1>1, <1>3, <1>4, <2>1, <2>2
<1> QED BY <1>5, <1>6

(* A round of a restore puts its sectors, or the first of them, in place.  *)
LEMMA RestoreRoundShape ==
  ASSUME Inv, RestoreRound
  PROVE  /\ file' = file /\ found' = found /\ asked' = asked /\ calls' = calls
         /\ largest' = largest /\ unsaved' = unsaved
         /\ pc = "restore" /\ faults' \in 0..MaxFaults
         /\ Num \in 1..left /\ Num <= BufSectors
         /\ \A n \in 0..Num : Written(n) \in [Lba -> Value]
         /\ \/ /\ pc' = "restore" /\ err' = err /\ curLba' = curLba + Num /\ left' = left - Num
               /\ emmc' = Written(Num)
            \/ /\ pc' = "close" /\ err' \in {"write", "fat"} /\ UNCHANGED <<curLba, left>>
               /\ \/ emmc' = emmc
                  \/ \E n \in 0..Num : emmc' = Written(n)
<1> USE DEF Inv
<1>1. Num \in 1..left /\ Num <= BufSectors
  BY NumFits DEF RestoreRound
<1>2. file.secs \in Seq(Value) /\ Len(file.secs) \in Nat
  BY DEF Counts, File
<1>3. ASSUME NEW n \in 0..Num PROVE Written(n) \in [Lba -> Value]
  <2>1. ASSUME NEW l \in Reached(n) PROVE file.secs[l - First + 1] \in Value
    <3>1. l \in Int /\ curLba <= l /\ l < curLba + n
      BY <1>1 DEF Reached, Counts
    <3>2. l - First + 1 \in 1..Len(file.secs)
      BY <1>1, <1>2, <3>1 DEF RestoreRound, Counts
    <3> QED BY <1>2, <3>2
  <2>2. emmc \in [Lba -> Value]
    BY DEF Counts
  <2> QED BY <2>1, <2>2 DEF Written
<1>4. faults' \in 0..MaxFaults
  BY DEF RestoreRound, Fault, NoFault, Counts
<1> QED BY <1>1, <1>3, <1>4 DEF RestoreRound, Leave

(* The end of a call touches nothing but the file of a dump.               *)
LEMMA CloseShape ==
  ASSUME Inv, Close
  PROVE  /\ UNCHANGED <<emmc, largest, curLba, left, err, calls, asked, found>>
         /\ pc = "close" /\ pc' = "idle" /\ faults' \in 0..MaxFaults
         /\ \/ file' = file /\ unsaved' = unsaved
            \/ file' = Empty /\ unsaved' = TRUE /\ found.op = "dump"
  BY DEF Close, Fault, NoFault, Inv, Counts

LEMMA InvNext == Inv /\ [Next]_vars => Inv'
<1> SUFFICES ASSUME Inv, [Next]_vars PROVE Inv'
  OBVIOUS
<1> USE DEF Inv
<1>1. ASSUME NEW op \in {"dump", "restore"}, NEW agreed \in BOOLEAN, Begin(op, agreed)
      PROVE  /\ found' \in [op : {"none", "dump", "restore"}, emmc : [Lba -> Value], file : File]
             /\ found'.op = op /\ calls' \in 0..MaxCalls /\ asked' \in BOOLEAN /\ pc = "idle"
             /\ unsaved' \in BOOLEAN /\ largest' = largest
  <2>1. calls' \in 0..MaxCalls
    BY <1>1 DEF Begin, Counts
  <2> QED BY <1>1, <2>1 DEF Begin, Counts
<1>2. CASE MenuDump \/ ScriptRead
  BY <1>1, <1>2, DumpBegins DEF MenuDump, ScriptRead
<1>3. CASE MenuFlash \/ ScriptWrite
  BY <1>1, <1>3, RestoreBegins DEF MenuFlash, ScriptWrite
<1>4. CASE Agree
  <2>1. /\ found' = found /\ calls' = calls /\ asked' \in BOOLEAN /\ pc = "idle"
        /\ unsaved' \in BOOLEAN /\ largest' = largest
        /\ found' \in [op : {"none", "dump", "restore"}, emmc : [Lba -> Value], file : File]
        /\ calls' \in 0..MaxCalls
    BY <1>4 DEF Agree, Counts, Stand
  <2>2. CASE err = "exists" /\ Dump(TRUE)
    BY <2>1, <2>2, DumpBegins DEF Stand
  <2>3. CASE err = "toosmall" /\ Restore(TRUE)
    BY <2>1, <2>3, RestoreBegins DEF Stand
  <2> QED BY <1>4, <2>2, <2>3 DEF Agree
<1>5. CASE Decline
  <2>1. Counts'
    BY <1>5 DEF Decline, Counts, Errors
  <2>2. Stand'
    BY <1>5 DEF Decline, Stand
  <2> QED BY <2>1, <2>2
<1>6. CASE DumpRound
  <2>1. Counts'
    <3>1. /\ emmc' = emmc /\ found' = found /\ calls' = calls /\ pc = "dump" /\ largest' = largest
          /\ faults' \in 0..MaxFaults /\ file' \in File
      BY <1>6, DumpRoundShape
    <3>2. CASE pc' = "dump"
      <4>1. curLba' = curLba + Num /\ left' = left - Num /\ Num \in 1..left /\ err' = err
        BY <1>6, <3>2, DumpRoundShape
      <4> QED BY <3>1, <3>2, <4>1 DEF Counts, AreaLen
    <3>3. CASE pc' # "dump"
      <4>1. pc' = "close" /\ err' \in {"read", "fat"} /\ UNCHANGED <<curLba, left>>
        BY <1>6, <3>3, DumpRoundShape
      <4> QED BY <3>1, <4>1 DEF Counts, Errors
    <3> QED BY <3>2, <3>3
  <2>2. Stand'
    BY <1>6, DumpRoundShape DEF Stand
  <2> QED BY <2>1, <2>2
<1>7. CASE RestoreRound
  <2>1. emmc' \in [Lba -> Value]
    BY <1>7, RestoreRoundShape DEF Counts
  <2>2. Counts'
    <3>1. Len(file.secs) \in Nat
      BY DEF Counts, File
    <3>2. CASE pc' = "restore"
      <4>1. /\ curLba' = curLba + Num /\ left' = left - Num /\ Num \in 1..left
            /\ file' = file /\ found' = found /\ calls' = calls /\ err' = err /\ pc = "restore"
            /\ largest' = largest /\ faults' \in 0..MaxFaults
        BY <1>7, <3>2, RestoreRoundShape
      <4> QED BY <2>1, <3>1, <3>2, <4>1 DEF Counts, AreaLen
    <3>3. CASE pc' # "restore"
      <4>1. /\ file' = file /\ found' = found /\ calls' = calls /\ pc' = "close"
            /\ err' \in {"write", "fat"} /\ UNCHANGED <<curLba, left, largest>>
            /\ faults' \in 0..MaxFaults
        BY <1>7, <3>3, RestoreRoundShape
      <4> QED BY <2>1, <4>1 DEF Counts, Errors
    <3> QED BY <3>2, <3>3
  <2>3. Stand'
    BY <1>7, RestoreRoundShape DEF Stand
  <2> QED BY <2>2, <2>3
<1>8. CASE LoopEnds
  <2>1. Counts'
    BY <1>8 DEF LoopEnds, Leave, Counts, Errors
  <2>2. Stand'
    BY <1>8 DEF LoopEnds, Leave, Stand
  <2> QED BY <2>1, <2>2
<1>9. CASE Close
  <2>1. Counts'
    BY <1>9, CloseShape, FilesTyped DEF Counts
  <2>2. Stand'
    BY <1>9, CloseShape, FilesTyped DEF Stand
  <2> QED BY <2>1, <2>2
<1>10. CASE UNCHANGED vars
  <2>1. Counts'
    BY <1>10 DEF vars, Counts
  <2>2. Stand'
    BY <1>10 DEF vars, Stand
  <2> QED BY <2>1, <2>2
<1> QED
  BY <1>2, <1>3, <1>4, <1>5, <1>6, <1>7, <1>8, <1>9, <1>10 DEF Next, Rounds

(* The types of EmmcFile: no count or sector leaves its range              *)
(* (source/storage/emmcfile.c 19-132).                                     *)
THEOREM TypeCorrect == Spec => []TypeOK
<1>1. Inv => TypeOK
  BY Zenon DEF Inv, Counts, Stand, TypeOK
<1> QED BY InitInv, InvNext, <1>1, PTL DEF Spec
-----------------------------------------------------------------------------
(* What a call notes, and what it does before its first round.             *)
LEMMA BeginEffect ==
  ASSUME NEW op \in {"dump", "restore"}, NEW agreed \in BOOLEAN, Begin(op, agreed)
  PROVE  /\ found'.op = op /\ found'.emmc = emmc /\ found'.file = file
         /\ asked' = agreed /\ pc = "idle"
  BY DEF Begin

LEMMA DumpEffect ==
  ASSUME Inv, NEW forced \in BOOLEAN, Dump(forced)
  PROVE  /\ emmc' = emmc
         /\ \/ pc' = "idle" /\ err' \in {"exists", "fat", "mem"}
            \/ pc' = "dump" /\ file' = Empty /\ curLba' = First /\ left' = AreaLen
         /\ ~forced /\ file.exists => file' = file /\ pc' = "idle"
  BY DEF Dump, Return, Loop

LEMMA RestoreEffect ==
  ASSUME Inv, NEW forced \in BOOLEAN, Restore(forced)
  PROVE  /\ emmc' = emmc
         /\ file' = file \/ (file' = Empty /\ ~file.exists)
         /\ file'.secs = file.secs
         /\ \/ pc' = "idle" /\ err' \in {"fat", "mem", "toobig", "toosmall"}
            \/ /\ pc' = "restore" /\ curLba' = First
               /\ left' = Len(file.secs) /\ (forced \/ Len(file.secs) = AreaLen)
<1> DEFINE src == IF file.exists THEN file ELSE Empty
<1>1. file' = file \/ (file' = Empty /\ ~file.exists)
  BY DEF Restore
<1>2. src.secs = file.secs
  BY FilesTyped DEF Inv, Stand
<1>3. file'.secs = file.secs
  BY <1>1, FilesTyped DEF Inv, Stand
<1>4. Len(src.secs) \in Int /\ AreaLen \in Int
  BY <1>2 DEF Inv, Counts, File, AreaLen
<1> HIDE DEF src
<1>5. \/ pc' = "idle" /\ err' \in {"fat", "mem", "toobig", "toosmall"}
      \/ /\ pc' = "restore" /\ curLba' = First
         /\ left' = Len(src.secs) /\ (forced \/ Len(src.secs) = AreaLen)
  BY <1>4 DEF Restore, Return, Loop, src
<1> QED BY <1>1, <1>2, <1>3, <1>5 DEF Restore

-----------------------------------------------------------------------------
(* What has been asked, and what a dump leaves alone.                      *)
Consent ==
  /\ found.op = "dump" => emmc = found.emmc
  /\ ~asked /\ found.op = "dump" /\ pc \in {"dump", "close"} => ~found.file.exists
  /\ ~asked /\ pc = "restore" => Len(file.secs) = AreaLen
  /\ AsksFirst

LEMMA ConsentNext == Inv /\ Consent /\ [Next]_vars => Consent'
<1> SUFFICES ASSUME Inv, Consent, [Next]_vars PROVE Consent'
  OBVIOUS
<1>1. CASE MenuDump
  BY <1>1, DumpEffect DEF MenuDump, Begin, Consent, AsksFirst
<1>2. CASE ScriptRead
  BY <1>2, DumpEffect DEF ScriptRead, Begin, Consent, AsksFirst
<1>3. CASE MenuFlash
  BY <1>3, RestoreEffect DEF MenuFlash, Begin, Consent, AsksFirst
<1>4. CASE ScriptWrite
  BY <1>4, RestoreEffect DEF ScriptWrite, Begin, Consent, AsksFirst
<1>5. CASE Agree
  BY <1>5, DumpEffect, RestoreEffect DEF Agree, Consent, AsksFirst
<1>6. CASE Decline
  BY <1>6 DEF Decline, Consent, AsksFirst
<1>7. CASE DumpRound
  <2>1. /\ UNCHANGED <<emmc, found, asked>> /\ pc = "dump" /\ pc' \in {"close", "dump"}
        /\ found.op = "dump"
    BY <1>7, DumpRoundShape DEF Inv, Stand
  <2> QED BY <2>1 DEF Consent, AsksFirst
<1>8. CASE RestoreRound
  <2>1. /\ UNCHANGED <<file, found, asked>> /\ pc = "restore" /\ pc' \in {"close", "restore"}
        /\ found.op = "restore"
    BY <1>8, RestoreRoundShape DEF Inv, Stand
  <2> QED BY <2>1 DEF Consent, AsksFirst
<1>9. CASE LoopEnds
  BY <1>9 DEF LoopEnds, Leave, Consent, AsksFirst, Inv, Stand
<1>10. CASE Close
  BY <1>10, CloseShape, FilesTyped DEF Consent, AsksFirst
<1>11. CASE UNCHANGED vars
  BY <1>11 DEF vars, Consent, AsksFirst
<1> QED
  BY <1>1, <1>2, <1>3, <1>4, <1>5, <1>6, <1>7, <1>8, <1>9, <1>10, <1>11 DEF Next, Rounds

(* Nothing that was there is overwritten, and no area filled in part,      *)
(* before the user has agreed (source/storage/gptmenu.c 93-105, 141-151,   *)
(* emmcfile.c 24-26, 89-90).                                               *)
THEOREM AsksBeforeOverwriting == Spec => []AsksFirst
<1>1. Init => Consent
  BY DEF Init, Consent, AsksFirst
<1>2. Consent => AsksFirst
  BY DEF Consent
<1> QED BY InitInv, InvNext, ConsentNext, <1>1, <1>2, PTL DEF Spec

-----------------------------------------------------------------------------
LEMMA AlignedNext == Inv /\ Aligned /\ [Next]_vars => Aligned'
<1> SUFFICES ASSUME Inv, Aligned, [Next]_vars PROVE Aligned'
  OBVIOUS
<1>1. CASE MenuDump \/ MenuFlash \/ ScriptRead \/ ScriptWrite \/ Agree
  <2>1. pc' = "idle" \/ curLba' = First
    BY <1>1, DumpEffect, RestoreEffect DEF MenuDump, MenuFlash, ScriptRead, ScriptWrite, Agree
  <2>2. First = First + 0 * BufSectors /\ 0 \in 0..AreaLen
    BY DEF AreaLen
  <2> QED BY <2>1, <2>2 DEF Aligned, RoundStart
<1>2. CASE DumpRound \/ RestoreRound
  <2>1. CASE pc' \notin {"dump", "restore"} \/ ~(left' > 0)
    BY <2>1 DEF Aligned
  <2>2. CASE pc' \in {"dump", "restore"} /\ left' > 0
    <3>1. /\ pc \in {"dump", "restore"} /\ left > 0 /\ Num \in 1..left
          /\ curLba' = curLba + Num /\ left' = left - Num
      BY <1>2, <2>2, DumpRoundShape, RestoreRoundShape DEF DumpRound, RestoreRound
    <3>2. Num = BufSectors
      BY <2>2, <3>1 DEF Num, AtMost, Inv, Counts
    <3>3. PICK k \in 0..AreaLen : curLba = First + k * BufSectors
      BY <3>1 DEF Aligned, RoundStart
    <3>4. curLba \in Nat /\ left \in Nat /\ AreaLen \in Nat /\ k \in Nat
      BY <3>3 DEF Inv, Counts, AreaLen
    <3>5. curLba + left <= First + AreaLen
      <4>1. Len(file.secs) \in Nat
        BY DEF Inv, Counts, File
      <4> QED BY <3>1, <3>4, <4>1 DEF Inv, Counts, AreaLen
    <3>6. curLba' = First + (k + 1) * BufSectors
      BY <3>1, <3>2, <3>3, <3>4
    <3>7. (k + 1) * BufSectors <= AreaLen
      <4>1. (k + 1) * BufSectors \in Nat /\ curLba + BufSectors = First + (k + 1) * BufSectors
        BY <3>3, <3>4
      <4> QED BY <2>2, <3>1, <3>2, <3>4, <3>5, <4>1
    <3>8. k + 1 <= (k + 1) * BufSectors
      BY <3>4
    <3>9. k + 1 \in 0..AreaLen
      BY <3>4, <3>7, <3>8
    <3> QED BY <3>6, <3>9 DEF Aligned, RoundStart
  <2> QED BY <2>1, <2>2
<1>3. CASE Decline \/ LoopEnds \/ Close \/ UNCHANGED vars
  BY <1>3 DEF Decline, LoopEnds, Leave, Close, vars, Aligned
<1> QED
  BY <1>1, <1>2, <1>3 DEF Next, Rounds

(* Then a request reaches the sectors that get an answer.                  *)
LEMMA AnsweredReached ==
  ASSUME Inv, Aligned, pc \in {"dump", "restore"}, left > 0,
         NEW l \in curLba..(curLba + Num - 1), Answered(l)
  PROVE  l \in Reached(Num)
<1>1. Num \in 1..left /\ Num <= BufSectors /\ curLba \in Nat /\ left \in Nat
      /\ First <= curLba /\ curLba + left <= LastLba + 1
  <2>1. Len(file.secs) \in Nat
    BY DEF Inv, Counts, File
  <2> QED BY <2>1, NumFits DEF Inv, Counts, AreaLen
<1>2. curLba \in Area /\ l \in curLba..(curLba + BufSectors - 1)
  BY <1>1 DEF Area
<1>3. RoundStart(curLba)
  BY DEF Aligned
<1>4. PartOf(l) = PartOf(curLba)
  BY <1>2, <1>3 DEF Answered
<1> QED BY <1>4 DEF Reached

-----------------------------------------------------------------------------
(* The file holds the sectors a dump has passed, as far as they go into it. *)
Recorded ==
  /\ Len(file.secs) = AtMost(curLba - First, largest)
  /\ (file.tail <=> curLba - First > largest)
  /\ \A i \in 1..Len(file.secs) :
       Answered(First + i - 1) => file.secs[i] = emmc[First + i - 1]

DumpImage ==
  /\ pc = "dump" => Recorded
  /\ pc = "close" /\ err = "ok" /\ found.op = "dump" => Recorded /\ curLba = LastLba + 1
  /\ DumpIsWhole

(* A round keeps it.                                                       *)
LEMMA RoundRecorded ==
  ASSUME Inv, Aligned, Recorded, pc = "dump", left > 0,
         NEW b \in Buffers(Num), b \in Seq(Value), Len(b) = Num,
         file' = Grown(b), curLba' = curLba + Num, emmc' = emmc, largest' = largest
  PROVE  Recorded'
<1> DEFINE n == Len(file.secs)
<1>1. /\ curLba \in Nat /\ First <= curLba /\ Num \in Nat /\ Num > 0 /\ largest \in Nat
      /\ file.tail \in BOOLEAN /\ n \in Nat
  <2>1. Num \in 1..left /\ left \in Nat
    BY NumFits DEF Inv, Counts
  <2> QED BY <2>1, GrownFile DEF Inv, Counts, File
<1>2. n = AtMost(curLba - First, largest) /\ (file.tail <=> curLba - First > largest)
  BY DEF Recorded
<1>3. /\ Len(file'.secs) = AtMost(n + Num, largest)
      /\ (file'.tail <=> file.tail \/ n + Num > largest)
      /\ \A i \in 1..Len(file'.secs) :
           /\ i <= n => file'.secs[i] = file.secs[i]
           /\ ~(i <= n) => file'.secs[i] = b[i - n]
  BY GrownFile
<1> HIDE DEF n
<1>4. Len(file'.secs) = AtMost(curLba + Num - First, largest)
  BY <1>1, <1>2, <1>3 DEF AtMost
<1>5. file'.tail <=> curLba + Num - First > largest
  <2>1. CASE curLba - First > largest
    <3>1. curLba + Num - First > largest
      BY <1>1, <2>1
    <3> QED BY <1>2, <1>3, <2>1, <3>1
  <2>2. CASE ~(curLba - First > largest)
    <3>1. n = curLba - First
      BY <1>1, <1>2, <2>2 DEF AtMost
    <3>2. n + Num = curLba + Num - First
      BY <1>1, <3>1
    <3> QED BY <1>2, <1>3, <2>2, <3>2
  <2> QED BY <2>1, <2>2
<1>6. ASSUME NEW i \in 1..Len(file'.secs), Answered(First + i - 1)
      PROVE  file'.secs[i] = emmc[First + i - 1]
  <2>1. i \in Nat /\ i >= 1 /\ i <= AtMost(n + Num, largest)
    BY <1>1, <1>3 DEF AtMost
  <2>2. CASE i <= n
    <3>1. i \in 1..n
      BY <1>1, <2>1, <2>2
    <3> QED BY <1>3, <1>6, <2>2, <3>1 DEF Recorded, n
  <2>3. CASE ~(i <= n)
    <3>1. i <= n + Num /\ i <= largest
      BY <1>1, <2>1 DEF AtMost
    <3>2. n = curLba - First
      BY <1>1, <1>2, <2>1, <2>3, <3>1 DEF AtMost
    <3> DEFINE l == First + i - 1
    <3>3. l \in curLba..(curLba + Num - 1) /\ l - curLba + 1 = i - n
      BY <1>1, <2>1, <2>3, <3>1, <3>2
    <3>4. Answered(l)
      BY <1>6
    <3> HIDE DEF l
    <3>5. l \in Reached(Num)
      BY <3>3, <3>4, AnsweredReached
    <3>6. b[l - curLba + 1] = emmc[l]
      BY <3>5 DEF Buffers
    <3> QED BY <1>3, <1>6, <2>3, <3>3, <3>6 DEF l
  <2> QED BY <2>2, <2>3
<1>7. curLba' - First = curLba + Num - First
  BY <1>1
<1> QED BY <1>4, <1>5, <1>6, <1>7 DEF Recorded

LEMMA DumpImageNext ==
  ASSUME Inv, Aligned, DumpImage, [Next]_vars
  PROVE  DumpImage'
<1>1. ASSUME emmc' = emmc, largest' = largest,
             found'.emmc = emmc \/ (found' = found /\ found.op = "dump"),
             \/ pc' = "idle" /\ err' \in {"exists", "fat", "mem"}
             \/ pc' = "dump" /\ file' = Empty /\ curLba' = First
      PROVE  DumpImage'
  <2>1. pc' = "dump" => Recorded'
    <3>1. largest \in Nat
      BY DEF Inv, Counts
    <3> QED BY <1>1, <3>1, FilesTyped DEF Recorded, AtMost
  <2>2. ~Succeeded("dump")'
    BY <1>1 DEF Succeeded
  <2>3. DumpIsWhole'
    BY <1>1, <2>2 DEF DumpImage, DumpIsWhole
  <2> QED BY <1>1, <2>1, <2>3 DEF DumpImage
<1>2. ASSUME found'.op = "restore", pc' # "dump" PROVE DumpImage'
  BY <1>2 DEF DumpImage, DumpIsWhole, Succeeded
<1>3. CASE MenuDump \/ ScriptRead
  <2>1. largest' = largest
    BY <1>3 DEF MenuDump, ScriptRead, Begin
  <2> QED BY <1>1, <1>3, <2>1, DumpEffect, BeginEffect DEF MenuDump, ScriptRead
<1>4. CASE MenuFlash \/ ScriptWrite
  BY <1>2, <1>4, BeginEffect, RestoreEffect DEF MenuFlash, ScriptWrite
<1>5. CASE Agree
  <2>1. CASE err = "exists" /\ Dump(TRUE)
    <3>1. found' = found /\ found.op = "dump" /\ largest' = largest
      BY <1>5, <2>1 DEF Agree, Inv, Stand
    <3> QED BY <1>1, <2>1, <3>1, DumpEffect
  <2>2. CASE err = "toosmall" /\ Restore(TRUE)
    <3>1. found' = found /\ found.op = "restore"
      BY <1>5, <2>2 DEF Agree, Inv, Stand
    <3> QED BY <1>2, <2>2, <3>1, RestoreEffect
  <2> QED BY <1>5, <2>1, <2>2 DEF Agree
<1>6. CASE Decline
  BY <1>6 DEF Decline, DumpImage, DumpIsWhole, Succeeded
<1>7. CASE DumpRound
  <2>1. /\ emmc' = emmc /\ found' = found /\ largest' = largest /\ unsaved' = unsaved
        /\ pc = "dump" /\ left > 0 /\ pc' \in {"dump", "close"}
    BY <1>7, DumpRoundShape DEF DumpRound
  <2>2. DumpIsWhole'
    BY <2>1 DEF DumpImage, DumpIsWhole, Succeeded
  <2>3. CASE pc' = "dump"
    <3>1. PICK b \in Buffers(Num) : b \in Seq(Value) /\ Len(b) = Num /\ file' = Grown(b)
      BY <1>7, <2>3, DumpRoundShape
    <3>2. curLba' = curLba + Num
      BY <1>7, <2>3, DumpRoundShape
    <3>3. Recorded'
      BY <2>1, <3>1, <3>2, RoundRecorded DEF DumpImage
    <3> QED BY <2>2, <2>3, <3>3 DEF DumpImage
  <2>4. CASE pc' = "close"
    <3>1. err' # "ok"
      BY <1>7, <2>4, DumpRoundShape
    <3> QED BY <2>2, <2>4, <3>1 DEF DumpImage
  <2> QED BY <2>1, <2>3, <2>4
<1>8. CASE RestoreRound
  <2>1. found'.op = "restore" /\ pc' # "dump"
    BY <1>8, RestoreRoundShape DEF Inv, Stand
  <2> QED BY <1>2, <2>1
<1>9. CASE LoopEnds
  <2>1. /\ UNCHANGED <<emmc, file, largest, found, unsaved, curLba>> /\ pc' = "close"
        /\ left = 0 /\ pc \in {"dump", "restore"}
    BY <1>9 DEF LoopEnds, Leave
  <2>2. DumpIsWhole'
    BY <2>1 DEF DumpImage, DumpIsWhole, Succeeded
  <2>3. CASE pc = "dump"
    <3>1. curLba = LastLba + 1
      BY <2>1, <2>3 DEF Inv, Counts
    <3>2. Recorded'
      BY <2>1, <2>3 DEF DumpImage, Recorded
    <3> QED BY <2>1, <2>2, <3>1, <3>2 DEF DumpImage
  <2>4. CASE pc = "restore"
    BY <2>1, <2>2, <2>4 DEF DumpImage, Inv, Stand
  <2> QED BY <2>1, <2>3, <2>4
<1>10. CASE Close
  <2>1. /\ UNCHANGED <<emmc, largest, curLba, err, found>> /\ pc = "close" /\ pc' = "idle"
        /\ (file' = file /\ unsaved' = unsaved) \/ unsaved' = TRUE
    BY <1>10, CloseShape
  <2>2. found.op = "dump" => emmc = found.emmc
    BY DEF DumpImage, DumpIsWhole
  <2>3. CASE err = "ok" /\ found.op = "dump" /\ file' = file
    <3>1. Recorded /\ curLba = LastLba + 1
      BY <2>1, <2>3 DEF DumpImage
    <3>2. curLba - First = AreaLen
      BY <3>1 DEF AreaLen
    <3> QED BY <2>1, <2>2, <2>3, <3>1, <3>2 DEF DumpImage, DumpIsWhole, Succeeded, Recorded
  <2>4. CASE ~(err = "ok" /\ found.op = "dump" /\ file' = file)
    BY <2>1, <2>2, <2>4 DEF DumpImage, DumpIsWhole, Succeeded
  <2> QED BY <2>3, <2>4
<1>11. CASE UNCHANGED vars
  BY <1>11 DEF vars, DumpImage, DumpIsWhole, Succeeded, Recorded
<1> QED
  BY <1>3, <1>4, <1>5, <1>6, <1>7, <1>8, <1>9, <1>10, <1>11 DEF Next, Rounds

(* A dump that reports success, and whose f_close has succeeded, holds the *)
(* whole area and nothing else as far as it goes into a file, for areas,   *)
(* buffers and files of any size (source/storage/emmcfile.c 43-69); of an  *)
(* eMMC kept in files it holds the sectors its requests reach.             *)
THEOREM DumpsAreWhole == Spec => []DumpIsWhole
<1>1. Init => Aligned /\ DumpImage
  BY DEF Init, Aligned, DumpImage, DumpIsWhole, Succeeded
<1>2. Inv /\ Aligned /\ DumpImage /\ [Next]_vars => DumpImage'
  BY DumpImageNext
<1>3. DumpImage => DumpIsWhole
  BY DEF DumpImage
<1> QED BY InitInv, InvNext, AlignedNext, <1>1, <1>2, <1>3, PTL DEF Spec

-----------------------------------------------------------------------------
(* The sectors a restore has passed are in their places.                   *)
Passed ==
  \A l \in First..(curLba - 1) : Answered(l) => emmc[l] = file.secs[l - First + 1]

RestoreImage ==
  /\ pc = "restore" => Passed
  /\ pc = "close" /\ err = "ok" /\ found.op = "restore" =>
       Passed /\ curLba = First + Len(file.secs)
  /\ RestoreIsWhole

(* Up to its loop a call changes nothing on the eMMC, and of the file only *)
(* whether it is there.                                                    *)
LEMMA RestoreImageKept ==
  ASSUME Inv, RestoreImage, emmc' = emmc, file'.secs = file.secs,
         file' = file \/ ~file.exists,
         found' = found \/ (found'.emmc = emmc /\ found'.file = file),
         pc' = "restore" => curLba' = First, pc' # "close", ~Succeeded("restore")'
  PROVE  RestoreImage'
<1>1. First \in Int
  OBVIOUS
<1>2. pc' = "restore" => Passed'
  BY <1>1 DEF Passed
<1>3. found' = found => RestoreIsWhole'
  BY DEF RestoreImage, RestoreIsWhole, Succeeded
<1>4. found'.emmc = emmc /\ found'.file = file => RestoreIsWhole'
  BY DEF RestoreIsWhole, Succeeded
<1> QED BY <1>2, <1>3, <1>4 DEF RestoreImage

(* The sectors a round has written, all of them or the first ones, belong  *)
(* to the file, and the others stay.                                       *)
LEMMA WrittenInHeld ==
  ASSUME Inv, RestoreImage, pc = "restore", left > 0, NEW n \in 0..Num
  PROVE  \A l \in Lba :
           l \notin First..(First + Len(file.secs) - 1) \cap Area => Written(n)[l] = emmc[l]
<1>1. /\ Len(file.secs) \in Nat /\ curLba \in Nat /\ First <= curLba /\ left \in Nat
      /\ curLba + left = First + Len(file.secs) /\ Len(file.secs) <= AreaLen
  BY DEF Inv, Counts, File
<1>2. Num \in 1..left
  BY NumFits DEF Inv
<1>3. ASSUME NEW l \in Reached(n) PROVE l \in First..(First + Len(file.secs) - 1) \cap Area
  <2>1. l \in curLba..(curLba + n - 1)
    BY <1>3 DEF Reached
  <2> QED BY <1>1, <1>2, <2>1 DEF Area, AreaLen
<1> QED BY <1>3 DEF Written

LEMMA RestoreImageNext ==
  ASSUME Inv, Aligned, RestoreImage, [Next]_vars
  PROVE  RestoreImage'
<1>1. CASE MenuDump \/ ScriptRead
  <2>1. found'.op = "dump" /\ pc' # "restore"
    BY <1>1, BeginEffect, DumpEffect DEF MenuDump, ScriptRead
  <2> QED BY <2>1 DEF RestoreImage, RestoreIsWhole, Succeeded
<1>2. CASE MenuFlash \/ ScriptWrite
  <2>1. /\ emmc' = emmc /\ file'.secs = file.secs /\ (file' = file \/ ~file.exists)
        /\ \/ pc' = "idle" /\ err' \in {"fat", "mem", "toobig", "toosmall"}
           \/ pc' = "restore" /\ curLba' = First
    BY <1>2, RestoreEffect DEF MenuFlash, ScriptWrite
  <2>2. found'.emmc = emmc /\ found'.file = file
    BY <1>2, BeginEffect DEF MenuFlash, ScriptWrite
  <2>3. ~Succeeded("restore")'
    BY <2>1 DEF Succeeded
  <2> QED BY <2>1, <2>2, <2>3, RestoreImageKept
<1>3. CASE Agree
  <2>1. CASE err = "exists" /\ Dump(TRUE)
    <3>1. found'.op = "dump" /\ pc' # "restore"
      BY <1>3, <2>1, DumpEffect DEF Agree, Inv, Stand
    <3> QED BY <3>1 DEF RestoreImage, RestoreIsWhole, Succeeded
  <2>2. CASE err = "toosmall" /\ Restore(TRUE)
    <3>1. /\ emmc' = emmc /\ file'.secs = file.secs /\ (file' = file \/ ~file.exists)
          /\ \/ pc' = "idle" /\ err' \in {"fat", "mem", "toobig", "toosmall"}
             \/ pc' = "restore" /\ curLba' = First
      BY <2>2, RestoreEffect
    <3>2. found' = found
      BY <1>3 DEF Agree
    <3>3. ~Succeeded("restore")'
      BY <3>1 DEF Succeeded
    <3> QED BY <3>1, <3>2, <3>3, RestoreImageKept
  <2> QED BY <1>3, <2>1, <2>2 DEF Agree
<1>4. CASE Decline
  BY <1>4 DEF Decline, RestoreImage, RestoreIsWhole, Succeeded
<1>5. CASE DumpRound
  <2>1. found'.op = "dump" /\ pc' # "restore"
    BY <1>5, DumpRoundShape DEF Inv, Stand
  <2> QED BY <2>1 DEF RestoreImage, RestoreIsWhole, Succeeded
<1>6. CASE RestoreRound
  <2>1. /\ file' = file /\ found' = found /\ found.op = "restore" /\ pc = "restore" /\ left > 0
    BY <1>6, RestoreRoundShape DEF RestoreRound, Inv, Stand
  <2>2. emmc' = emmc \/ \E n \in 0..Num : emmc' = Written(n)
    <3>1. Num \in 0..Num
      BY <2>1, NumFits DEF Inv
    <3> QED BY <1>6, <3>1, RestoreRoundShape
  <2>3. ASSUME NEW l \in Lba, l \notin First..(First + Len(file.secs) - 1) \cap Area
        PROVE  emmc'[l] = found.emmc[l]
    <3>1. emmc'[l] = emmc[l]
      BY <2>1, <2>2, <2>3, WrittenInHeld
    <3> QED BY <2>1, <2>3, <3>1 DEF RestoreImage, RestoreIsWhole
  <2>4. ~Succeeded("restore")'
    BY <1>6, RestoreRoundShape DEF Succeeded
  <2>5. RestoreIsWhole'
    BY <2>1, <2>3, <2>4 DEF RestoreImage, RestoreIsWhole
  <2>6. CASE pc' = "restore"
    <3>1. emmc' = Written(Num) /\ curLba' = curLba + Num
      BY <1>6, <2>6, RestoreRoundShape
    <3>2. ASSUME NEW l \in curLba..(curLba + Num - 1), Answered(l) PROVE l \in Reached(Num)
      BY <2>1, <3>2, AnsweredReached
    <3>3. ASSUME NEW l \in First..(curLba' - 1), Answered(l) PROVE emmc'[l] = file.secs[l - First + 1]
      <4>1. /\ curLba \in Nat /\ Num \in 1..left /\ First <= curLba /\ left \in Nat
            /\ Len(file.secs) \in Nat
            /\ curLba + left = First + Len(file.secs) /\ Len(file.secs) <= AreaLen
        BY <2>1, NumFits DEF Inv, Counts, File
      <4>2. l \in Lba /\ l \in First..(curLba + Num - 1)
        BY <3>1, <4>1 DEF Lba, AreaLen
      <4>3. CASE l \in Reached(Num)
        BY <3>1, <4>2, <4>3 DEF Written
      <4>4. CASE l \notin Reached(Num)
        <5>1. l \in First..(curLba - 1)
          BY <3>2, <3>3, <4>1, <4>2, <4>4
        <5> QED BY <2>1, <3>1, <3>3, <4>2, <4>4, <5>1 DEF Written, RestoreImage, Passed
      <4> QED BY <4>3, <4>4
    <3> QED BY <2>1, <2>5, <2>6, <3>3 DEF RestoreImage, Passed
  <2>7. CASE pc' # "restore"
    <3>1. pc' = "close" /\ err' # "ok"
      BY <1>6, <2>7, RestoreRoundShape
    <3> QED BY <2>5, <3>1 DEF RestoreImage
  <2> QED BY <2>6, <2>7
<1>7. CASE LoopEnds
  <2>1. /\ UNCHANGED <<emmc, file, found, curLba>> /\ pc' = "close" /\ left = 0
        /\ pc \in {"dump", "restore"}
    BY <1>7 DEF LoopEnds, Leave
  <2>2. RestoreIsWhole'
    BY <2>1 DEF RestoreImage, RestoreIsWhole, Succeeded
  <2>3. CASE pc = "restore"
    <3>1. curLba = First + Len(file.secs) /\ Passed
      <4>1. curLba \in Nat /\ curLba + left = First + Len(file.secs)
        BY <2>3 DEF Inv, Counts
      <4> QED BY <2>1, <2>3, <4>1 DEF RestoreImage
    <3> QED BY <2>1, <2>2, <3>1 DEF RestoreImage, Passed
  <2>4. CASE pc = "dump"
    BY <2>1, <2>2, <2>4 DEF RestoreImage, Inv, Stand
  <2> QED BY <2>1, <2>3, <2>4
<1>8. CASE Close
  <2>1. /\ UNCHANGED <<emmc, curLba, err, found>> /\ pc = "close" /\ pc' = "idle"
        /\ found.op = "restore" => file' = file
    BY <1>8, CloseShape
  <2>2. CASE found.op = "restore" /\ err = "ok"
    <3>1. Passed /\ curLba = First + Len(file.secs) /\ RestoreIsWhole
      BY <2>1, <2>2 DEF RestoreImage
    <3> QED BY <2>1, <2>2, <3>1 DEF RestoreImage, RestoreIsWhole, Succeeded, Passed
  <2>3. CASE ~(found.op = "restore" /\ err = "ok")
    BY <2>1, <2>3 DEF RestoreImage, RestoreIsWhole, Succeeded
  <2> QED BY <2>2, <2>3
<1>9. CASE UNCHANGED vars
  BY <1>9 DEF vars, RestoreImage, RestoreIsWhole, Passed, Succeeded
<1> QED
  BY <1>1, <1>2, <1>3, <1>4, <1>5, <1>6, <1>7, <1>8, <1>9 DEF Next, Rounds

(* A restore that reports success has put every sector of the file in its  *)
(* place, as far as its requests reach, and whether it does or fails half  *)
(* way no other sector changes (source/storage/emmcfile.c 102-131).        *)
THEOREM RestoresAreWhole == Spec => []RestoreIsWhole
<1>1. Init => Aligned /\ RestoreImage
  BY DEF Init, Aligned, RestoreImage, RestoreIsWhole, Succeeded
<1>2. Inv /\ Aligned /\ RestoreImage /\ [Next]_vars => RestoreImage'
  BY RestoreImageNext
<1>3. RestoreImage => RestoreIsWhole
  BY DEF RestoreImage
<1> QED BY InitInv, InvNext, AlignedNext, <1>1, <1>2, <1>3, PTL DEF Spec
=============================================================================
