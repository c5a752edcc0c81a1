------------------------------ MODULE BisCache ------------------------------
(***************************************************************************)
(* The cluster cache of the encrypted eMMC partitions, as implemented in   *)
(* source/storage/nx_emmc_bis.c, below FatFs drive "bis:" (disk_read and   *)
(* disk_write of source/libs/fatfs/diskio.c) and below the loops of        *)
(* source/storage/emmcfile.c.                                              *)
(*                                                                         *)
(* A step of this model is one call of nx_emmc_bis_read_block or           *)
(* nx_emmc_bis_write_block, or one iteration of nx_emmc_bis_finalize; the  *)
(* console may lose power between any two of them.  Sector contents are    *)
(* the decrypted ones: AES-XTS is the identity on them as long as the      *)
(* key slots belong to the partition.                                      *)
(*                                                                         *)
(* nx_emmc_bis_cache_lock has no caller, so lock_cluster_cache is always   *)
(* false and the uncached read path is never reached.                      *)
(***************************************************************************)
EXTENDS Integers, FiniteSets

CONSTANTS
  NumClusters,   (* clusters per partition                                 *)
  SectorsPerCluster,
  MaxEntries,    (* MAX_CLUSTER_CACHE_ENTRIES                              *)
  Part,          (* the partitions nx_emmc_bis_init is called with         *)
  NoPart,        (* system_part == NULL                                    *)
  Value,         (* contents a caller writes to a sector                   *)
  Garbage,       (* contents nobody wrote: uninitialised DRAM              *)
  Empty,         (* CLUSTER_LOOKUP_EMPTY_ENTRY                             *)
  MaxCount,      (* longest request, in sectors                            *)
  MaxDirty,      (* bound: no call begins with a larger dirty_cluster_count *)
  ReadsMayFail,  (* whether the eMMC may fail a read                       *)
  WritesMayFail  (* whether the eMMC may fail a write                      *)

PartSize == NumClusters * SectorsPerCluster   (* sectors per partition     *)
Cluster  == 0 .. NumClusters - 1
Slot     == 0 .. MaxEntries - 1
Offset   == 0 .. SectorsPerCluster - 1
Sector   == 0 .. PartSize - 1
Content  == Value \cup {Garbage}

ASSUME GeometryAssumption ==
  /\ NumClusters \in Nat \ {0}
  /\ SectorsPerCluster \in Nat \ {0}
  /\ MaxEntries \in Nat \ {0}
  /\ MaxCount \in Nat \ {0}
  /\ MaxDirty \in Nat

ASSUME NamesAssumption ==
  /\ NoPart \notin Part
  /\ Garbage \notin Value
  /\ Empty \notin Slot

ASSUME FaultAssumption == ReadsMayFail \in BOOLEAN /\ WritesMayFail \in BOOLEAN

VARIABLES
  emmc,                     (* emmc[p][x]: sector x of partition p         *)
  system_part,
  cluster_lookup,           (* cluster -> slot, or Empty                   *)
  slot_cluster,             (* cluster_cache[i].cluster_num                *)
  slot_dirty,               (* cluster_cache[i].dirty                      *)
  slot_data,                (* cluster_cache[i].cluster                    *)
  cluster_cache_end_index,
  cache_filled,
  dirty_cluster_count,
  pc,                       (* the public function being executed          *)
  curr_sct, count,          (* its loop variables                          *)
  fin_i, clusters_to_flush, (* the loop variables of nx_emmc_bis_finalize  *)
  out,                      (* the block the last step copied to buff      *)
  ret                       (* what the last public call returned          *)

cacheVars == <<cluster_lookup, slot_cluster, slot_dirty, slot_data,
               cluster_cache_end_index, cache_filled, dirty_cluster_count>>
loopVars  == <<curr_sct, count, fin_i, clusters_to_flush>>
vars      == <<emmc, system_part, cacheVars, pc, loopVars, out, ret>>

-----------------------------------------------------------------------------
ClusterOf(x)       == x \div SectorsPerCluster
OffsetOf(x)        == x % SectorsPerCluster
SectorsOf(c)       == {x \in Sector : ClusterOf(x) = c}
Outcomes(mayFail)  == IF mayFail THEN BOOLEAN ELSE {TRUE}
MinOf(a, b)        == IF a <= b THEN a ELSE b

(* The block the loops of nx_emmc_bis_read and nx_emmc_bis_write hand to   *)
(* the block functions next.                                               *)
ChunkCount   == MinOf(count, SectorsPerCluster)
ChunkSectors == curr_sct .. curr_sct + ChunkCount - 1

(* The requests FatFs and the dump loops issue: no chunk of 0x20 sectors   *)
(* crosses the end of a cluster.                                           *)
AlignedRequest(sector, n) ==
  /\ sector + n <= PartSize
  /\ OffsetOf(sector) = 0 \/ OffsetOf(sector) + n <= SectorsPerCluster

(* nx_emmc_part_write: a write that fails may have stored some sectors.    *)
EmmcWrite(S, content, ok) ==
  \E stored \in IF ok THEN {S} ELSE SUBSET S :
    emmc' = [emmc EXCEPT ![system_part] =
               [x \in Sector |-> IF x \in stored THEN content[x] ELSE @[x]]]

SlotContent(i, S) == [x \in S |-> slot_data[i][OffsetOf(x)]]

(* _nx_emmc_bis_flush_cluster: nx_emmc_bis_write_block with no buffer and  *)
(* force_flush, its result ignored.  The slot written back is the one the  *)
(* lookup table names; with no such slot the buffer would be NULL.         *)
FlushedSlot(i) == cluster_lookup[slot_cluster[i]]

FlushToEmmc(i, ok) ==
  LET j == FlushedSlot(i)
      S == SectorsOf(slot_cluster[i])
  IN EmmcWrite(S, IF j = Empty THEN [x \in S |-> Garbage] ELSE SlotContent(j, S), ok)

DirtyAfterFlush(i, ok) ==
  LET j == FlushedSlot(i)
  IN IF j = Empty THEN slot_dirty ELSE [slot_dirty EXCEPT ![j] = ~ok]

(* Mutation: the count drops although the write-back failed.               *)
CountDropsOnFailure(i, ok) ==
  LET j == FlushedSlot(i)
  IN IF j = Empty THEN dirty_cluster_count
     ELSE dirty_cluster_count + (IF slot_dirty[j] THEN 0 ELSE 1) - 1

CountAfterFlush(i, ok) ==
  LET j == FlushedSlot(i)
  IN IF j = Empty THEN dirty_cluster_count
     ELSE dirty_cluster_count + (IF slot_dirty[j] THEN 0 ELSE 1) - (IF ok THEN 1 ELSE 0)

(* The slot the next miss takes.  The index rolls over once, from then on  *)
(* every slot has been in use.                                             *)
Wraps    == cluster_cache_end_index >= MaxEntries
NextSlot == IF Wraps THEN 0 ELSE cluster_cache_end_index
Filled   == cache_filled \/ Wraps
Evicts   == Filled /\ slot_dirty[NextSlot]

(* The lookup table once that slot has been taken from its old cluster.    *)
LookupFreed ==
  IF Filled THEN [cluster_lookup EXCEPT ![slot_cluster[NextSlot]] = Empty]
            ELSE cluster_lookup

-----------------------------------------------------------------------------
NoBlock == [x \in {} |-> x]

(* The cache lives in DRAM that nothing clears.                            *)
EmptyLookup  == [c \in Cluster |-> Empty]
NoisyDirty   == {[i \in Slot |-> d] : d \in BOOLEAN}
NoisyCluster == [i \in Slot |-> 0]
NoisyData    == [i \in Slot |-> [o \in Offset |-> Garbage]]

Init ==
  /\ emmc \in [Part -> [Sector -> Value]]
  /\ system_part = NoPart
  /\ cluster_lookup = EmptyLookup
  /\ slot_dirty \in NoisyDirty /\ slot_cluster = NoisyCluster /\ slot_data = NoisyData
  /\ cluster_cache_end_index = 0
  /\ cache_filled = FALSE
  /\ dirty_cluster_count = 0
  /\ pc = "idle"
  /\ curr_sct = 0 /\ count = 0
  /\ fin_i = 0 /\ clusters_to_flush = 0
  /\ out = NoBlock
  /\ ret = 0

-----------------------------------------------------------------------------
(* Mutation: the lookup table of the previous partition is not cleared.    *)
BisInitKeepsLookup(p) ==
  /\ pc = "idle"
  /\ system_part' = p
  /\ cluster_cache_end_index' = 0
  /\ dirty_cluster_count' = 0
  /\ cache_filled' = FALSE
  /\ out' = NoBlock
  /\ UNCHANGED <<emmc, cluster_lookup, slot_cluster, slot_dirty, slot_data, pc, loopVars, ret>>

(* Mutation: the cache of the previous partition still counts as filled.   *)
BisInitKeepsFilled(p) ==
  /\ pc = "idle"
  /\ system_part' = p
  /\ cluster_lookup' = EmptyLookup
  /\ cluster_cache_end_index' = 0
  /\ dirty_cluster_count' = 0
  /\ out' = NoBlock
  /\ UNCHANGED <<emmc, cache_filled, slot_cluster, slot_dirty, slot_data, pc, loopVars, ret>>

(* nx_emmc_bis_init and nx_emmc_bis_cluster_cache_init: the slots keep     *)
(* their old contents.                                                     *)
BisInit(p) ==
  /\ pc = "idle"
  /\ system_part' = p
  /\ cluster_lookup' = EmptyLookup
  /\ cluster_cache_end_index' = 0
  /\ dirty_cluster_count' = 0
  /\ cache_filled' = FALSE
  /\ out' = NoBlock
  /\ UNCHANGED <<emmc, slot_cluster, slot_dirty, slot_data, pc, loopVars, ret>>

BeginCall(kind, sector, n) ==
  /\ pc = "idle"
  /\ AlignedRequest(sector, n)
  /\ dirty_cluster_count <= MaxDirty
  /\ pc' = kind
  /\ curr_sct' = sector
  /\ count' = n
  /\ ret' = 1
  /\ out' = NoBlock
  /\ UNCHANGED <<emmc, system_part, cacheVars, fin_i, clusters_to_flush>>

BeginRead(sector, n)  == BeginCall("read", sector, n)
BeginWrite(sector, n) == BeginCall("write", sector, n)

Return(res) ==
  /\ pc' = "idle"
  /\ ret' = res
  /\ curr_sct' = 0 /\ count' = 0
  /\ fin_i' = 0 /\ clusters_to_flush' = 0

(* Any non-zero result of a block makes the call return 1 at once.         *)
FailCall == Return(1) /\ out' = NoBlock

NotReady ==
  /\ pc \in {"read", "write"}
  /\ system_part = NoPart
  /\ FailCall
  /\ UNCHANGED <<emmc, system_part, cacheVars>>

NextChunk ==
  /\ curr_sct' = curr_sct + ChunkCount
  /\ count' = count - ChunkCount

ReadNext ==
  IF count = ChunkCount THEN Return(0)
  ELSE NextChunk /\ UNCHANGED <<pc, fin_i, clusters_to_flush, ret>>

-----------------------------------------------------------------------------
(* nx_emmc_bis_read_block, the cluster being cached.                       *)
ReadHit ==
  /\ pc = "read" /\ system_part # NoPart
  /\ cluster_lookup[ClusterOf(curr_sct)] # Empty
  /\ out' = SlotContent(cluster_lookup[ClusterOf(curr_sct)], ChunkSectors)
  /\ ReadNext
  /\ UNCHANGED <<emmc, system_part, cacheVars>>

(* nx_emmc_bis_read_block, the cluster not being cached: take the next     *)
(* slot, write it back if it is in use and dirty, point the lookup table   *)
(* to it, and only then read the cluster from the eMMC.                    *)
ReadMiss(flushOk, readOk) ==
  LET c == ClusterOf(curr_sct)
      e == NextSlot
  IN
  /\ pc = "read" /\ system_part # NoPart
  /\ cluster_lookup[c] = Empty
  /\ cache_filled' = Filled
  /\ IF Evicts THEN FlushToEmmc(e, flushOk) ELSE flushOk /\ UNCHANGED emmc
  /\ dirty_cluster_count' = IF Evicts THEN CountAfterFlush(e, flushOk)
                                      ELSE dirty_cluster_count
  /\ slot_dirty' = [(IF Evicts THEN DirtyAfterFlush(e, flushOk) ELSE slot_dirty)
                      EXCEPT ![e] = FALSE]
  /\ cluster_lookup' = [LookupFreed EXCEPT ![c] = e]
  /\ slot_cluster' = [slot_cluster EXCEPT ![e] = c]
  /\ \/ /\ readOk
        /\ slot_data' = [slot_data EXCEPT ![e] =
             [o \in Offset |-> emmc'[system_part][c * SectorsPerCluster + o]]]
        /\ out' = [x \in ChunkSectors |-> emmc'[system_part][x]]
        /\ cluster_cache_end_index' = e + 1
        /\ ReadNext
     \/ /\ ~readOk
        /\ cluster_cache_end_index' = e
        /\ FailCall
        /\ UNCHANGED slot_data
  /\ UNCHANGED system_part

ReadBlock ==
  \/ ReadHit
  \/ \E flushOk \in Outcomes(WritesMayFail), readOk \in Outcomes(ReadsMayFail) :
       ReadMiss(flushOk, readOk)

-----------------------------------------------------------------------------
(* Mutation: nx_emmc_bis_write does not call nx_emmc_bis_finalize.         *)
WriteNextNoFinalize ==
  IF count # ChunkCount
  THEN NextChunk /\ UNCHANGED <<pc, fin_i, clusters_to_flush, ret>>
  ELSE Return(0)

(* After the last block nx_emmc_bis_write calls nx_emmc_bis_finalize,      *)
(* which has nothing to do when no slot is counted dirty.                  *)
WriteNext ==
  IF count # ChunkCount
  THEN NextChunk /\ UNCHANGED <<pc, fin_i, clusters_to_flush, ret>>
  ELSE IF dirty_cluster_count' = 0
  THEN Return(0)
  ELSE /\ pc' = "finalize"
       /\ fin_i' = 0
       /\ clusters_to_flush' = dirty_cluster_count'
       /\ curr_sct' = 0 /\ count' = 0
       /\ UNCHANGED ret

(* nx_emmc_bis_write_block without force_flush, the cluster being cached:  *)
(* the slot takes the data and nothing is written back yet.                *)
WriteCached(data) ==
  LET i == cluster_lookup[ClusterOf(curr_sct)] IN
  /\ pc = "write" /\ system_part # NoPart
  /\ i # Empty
  /\ slot_data' = [slot_data EXCEPT ![i] =
       [o \in Offset |-> LET x == ClusterOf(curr_sct) * SectorsPerCluster + o
                         IN IF x \in ChunkSectors THEN data[x] ELSE @[o]]]
  /\ dirty_cluster_count' = IF slot_dirty[i] THEN dirty_cluster_count
                                             ELSE dirty_cluster_count + 1
  /\ slot_dirty' = [slot_dirty EXCEPT ![i] = TRUE]
  /\ WriteNext
  /\ out' = NoBlock
  /\ UNCHANGED <<emmc, system_part, cluster_lookup, slot_cluster,
                 cluster_cache_end_index, cache_filled>>

(* The cluster not being cached: the sectors go straight to the eMMC.      *)
WriteThrough(data, ok) ==
  /\ pc = "write" /\ system_part # NoPart
  /\ cluster_lookup[ClusterOf(curr_sct)] = Empty
  /\ EmmcWrite(ChunkSectors, data, ok)
  /\ UNCHANGED <<system_part, cacheVars>>
  /\ IF ok THEN WriteNext /\ out' = NoBlock ELSE FailCall

WriteBlock ==
  \E data \in [ChunkSectors -> Value] :
    \/ WriteCached(data)
    \/ \E ok \in Outcomes(WritesMayFail) : WriteThrough(data, ok)

-----------------------------------------------------------------------------
(* nx_emmc_bis_finalize: one flush per step.                               *)
InUse == IF cache_filled THEN MaxEntries ELSE cluster_cache_end_index

NextDirty(i) ==
  /\ i \in fin_i .. InUse - 1
  /\ slot_dirty[i]
  /\ \A k \in fin_i .. i - 1 : ~slot_dirty[k]

FinalizeFlush(i, ok) ==
  /\ pc = "finalize"
  /\ clusters_to_flush > 0
  /\ NextDirty(i)
  /\ FlushToEmmc(i, ok)
  /\ slot_dirty' = DirtyAfterFlush(i, ok)
  /\ dirty_cluster_count' = CountAfterFlush(i, ok)
  /\ fin_i' = i + 1
  /\ clusters_to_flush' = clusters_to_flush - 1
  /\ out' = NoBlock
  /\ UNCHANGED <<system_part, cluster_lookup, slot_cluster, slot_data,
                 cluster_cache_end_index, cache_filled, pc, curr_sct, count, ret>>

(* Mutation: the loop trusts the counter and has no limit.                 *)
FinalizeDoneUnlimited ==
  /\ pc = "finalize"
  /\ clusters_to_flush = 0
  /\ Return(0)
  /\ out' = NoBlock
  /\ UNCHANGED <<emmc, system_part, cacheVars>>

(* The loop ends; finalize returns nothing, so its caller reports the      *)
(* result of the last block, which was 0.                                  *)
FinalizeDone ==
  /\ pc = "finalize"
  /\ clusters_to_flush = 0 \/ \A i \in Slot : ~NextDirty(i)
  /\ Return(0)
  /\ out' = NoBlock
  /\ UNCHANGED <<emmc, system_part, cacheVars>>

Finalize ==
  \/ \E i \in Slot, ok \in Outcomes(WritesMayFail) : FinalizeFlush(i, ok)
  \/ FinalizeDone

-----------------------------------------------------------------------------
(* A reset or a power cut: the static variables return to their            *)
(* initialisers and the DRAM holds noise.                                  *)
PowerLoss ==
  /\ system_part' = NoPart
  /\ cluster_lookup' = EmptyLookup
  /\ slot_dirty' \in NoisyDirty /\ slot_cluster' = NoisyCluster /\ slot_data' = NoisyData
  /\ cluster_cache_end_index' = 0
  /\ cache_filled' = FALSE
  /\ dirty_cluster_count' = 0
  /\ pc' = "idle"
  /\ curr_sct' = 0 /\ count' = 0 /\ fin_i' = 0 /\ clusters_to_flush' = 0
  /\ out' = NoBlock
  /\ ret' = 0
  /\ UNCHANGED emmc

Step == NotReady \/ ReadBlock \/ WriteBlock \/ Finalize

Next ==
  \/ \E p \in Part : BisInit(p)
  \/ \E x \in Sector, n \in 1 .. MaxCount : BeginRead(x, n) \/ BeginWrite(x, n)
  \/ Step
  \/ PowerLoss

Spec == Init /\ [][Next]_vars

(* The driver runs on one core with nothing to wait for: a call that is    *)
(* being executed keeps taking steps.                                      *)
FairSpec == Spec /\ WF_vars(Step)

-----------------------------------------------------------------------------
TypeOK ==
  /\ emmc \in [Part -> [Sector -> Content]]
  /\ system_part \in Part \cup {NoPart}
  /\ cluster_lookup \in [Cluster -> Slot \cup {Empty}]
  /\ slot_cluster \in [Slot -> Cluster]
  /\ slot_dirty \in [Slot -> BOOLEAN]
  /\ slot_data \in [Slot -> [Offset -> Content]]
  /\ cluster_cache_end_index \in 0 .. MaxEntries
  /\ cache_filled \in BOOLEAN
  /\ dirty_cluster_count \in Int
  /\ pc \in {"idle", "read", "write", "finalize"}
  /\ curr_sct \in 0 .. PartSize
  /\ count \in 0 .. MaxCount
  /\ fin_i \in 0 .. MaxEntries
  /\ clusters_to_flush \in Int
  /\ ret \in {0, 1}

(* What a read of sector x of partition p returns to a caller.             *)
Seen(p, x) ==
  LET i == cluster_lookup[ClusterOf(x)]
  IN IF p = system_part /\ i # Empty THEN slot_data[i][OffsetOf(x)] ELSE emmc[p][x]

View == [p \in Part |-> [x \in Sector |-> Seen(p, x)]]

-----------------------------------------------------------------------------
(* Every slot in use is the one the lookup table names for its cluster,    *)
(* whatever the eMMC does.  A write-back finds its buffer through the      *)
(* table: were the entry empty it would encrypt from address NULL.         *)
SlotsOwned ==
  \A i \in 0 .. InUse - 1 : cluster_lookup[slot_cluster[i]] = i

DirtySlots(from) == {i \in from .. InUse - 1 : slot_dirty[i]}

(* The counter never falls below the number of dirty slots: finalize       *)
(* returns early at 0 and stops flushing when it has counted down, so an   *)
(* undercount would leave a written cluster in DRAM.                       *)
DirtyCounted ==
  /\ Cardinality(DirtySlots(0)) <= dirty_cluster_count
  /\ pc = "finalize" => Cardinality(DirtySlots(fin_i)) <= clusters_to_flush

(* A cluster is served from the slot that was filled for it.               *)
ServedFromOwnSlot ==
  \A c \in Cluster :
    cluster_lookup[c] # Empty => slot_cluster[cluster_lookup[c]] = c

(* The table and the slots in use name each other.  (While no read of the  *)
(* eMMC fails.)                                                            *)
LookupExact ==
  /\ ServedFromOwnSlot
  /\ \A c \in Cluster : cluster_lookup[c] # Empty => cluster_lookup[c] < InUse

(* A slot that is not flagged dirty holds what the eMMC holds, although    *)
(* write-backs may fail half way.  (While no read of the eMMC fails.)      *)
CleanSlotsMatchEmmc ==
  \A i \in 0 .. InUse - 1 : ~slot_dirty[i] =>
    \A x \in SectorsOf(slot_cluster[i]) :
      slot_data[i][OffsetOf(x)] = emmc[system_part][x]

(* Contents only come from the client.  A sector of the eMMC changes only  *)
(* to what a read would have returned, or as part of the block being       *)
(* written, although writing one sector back drags its whole cluster       *)
(* along; and what a read would return changes only as part of that block, *)
(* or to what the eMMC holds, although slots move from cluster to cluster. *)
(* (While no read of the eMMC fails; a write may fail half way.)           *)
BeingWritten(p, x) == pc = "write" /\ p = system_part /\ x \in ChunkSectors

OnlyClientData ==
  [][\A p \in Part, x \in Sector :
       /\ emmc'[p][x] # emmc[p][x] =>
            (p = system_part /\ emmc'[p][x] = Seen(p, x)) \/ BeingWritten(p, x)
       /\ Seen(p, x)' # Seen(p, x) =>
            Seen(p, x)' = emmc'[p][x] \/ BeingWritten(p, x)]_vars

(* nx_emmc_bis_write leaves nothing behind in the cache: between two calls *)
(* every slot has been written back.  (While no write of the eMMC fails.)  *)
NothingDirtyBetweenCalls ==
  pc # "finalize" /\ pc # "write" => dirty_cluster_count = 0 /\ DirtySlots(0) = {}

(* The driver implements the plain disk: reads return the latest write, a  *)
(* write that has returned survives a reset, and selecting another         *)
(* partition loses nothing.  (While the eMMC does not fail.)               *)
Disk == INSTANCE BisDisk WITH
  part    <- system_part,
  disk    <- View,
  durable <- emmc,
  op      <- IF pc = "finalize" THEN "write" ELSE pc,
  todo    <- curr_sct .. curr_sct + count - 1

ImplementsDisk == Disk!Spec

(* Every call returns, even when every access to the eMMC fails.           *)
CallsReturn == pc # "idle" ~> pc = "idle"

-----------------------------------------------------------------------------
(* What the comments of the code say, and failing accesses to the eMMC     *)
(* contradict.                                                             *)

(* The slot the table names is "the cached cluster itself" (line 41): a    *)
(* block read from a slot that is not dirty is what the eMMC holds.        *)
ReadsServeTheCluster ==
  [][\A x \in DOMAIN out' :
       ~slot_dirty'[cluster_lookup'[ClusterOf(x)]] => out'[x] = emmc[system_part][x]]_vars
=============================================================================
