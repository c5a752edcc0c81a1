--------------------------- MODULE BisCacheProofs ---------------------------
(***************************************************************************)
(* Proofs about BisCache: what the cluster cache keeps in any case; then,  *)
(* while no read of the eMMC fails, that the lookup table is exact and     *)
(* that a slot that is not dirty holds its cluster; and, while the eMMC    *)
(* obeys, that the cache implements the plain disk of BisDisk.             *)
(***************************************************************************)
EXTENDS BisCache, FiniteSetTheorems, WellFoundedInduction, TLAPS

LEMMA PartSizeNat == PartSize \in Nat
  BY GeometryAssumption DEF PartSize

LEMMA DivMod ==
  ASSUME NEW x \in Sector
  PROVE  /\ ClusterOf(x) \in Cluster
         /\ OffsetOf(x) \in Offset
         /\ x = ClusterOf(x) * SectorsPerCluster + OffsetOf(x)
<1> DEFINE q == x \div SectorsPerCluster
           r == x % SectorsPerCluster
<1>1. NumClusters \in Nat \ {0} /\ SectorsPerCluster \in Nat \ {0} /\ x \in Nat
      /\ x < PartSize
  BY GeometryAssumption, PartSizeNat DEF Sector
<1>2. q \in Int /\ r \in 0 .. SectorsPerCluster - 1 /\ x = q * SectorsPerCluster + r
  BY <1>1
<1>3. q \in 0 .. NumClusters - 1
  BY <1>1, <1>2 DEF PartSize
<1> QED BY <1>1, <1>2, <1>3 DEF ClusterOf, OffsetOf, Cluster, Offset

LEMMA SectorAt ==
  ASSUME NEW c \in Cluster, NEW o \in Offset
  PROVE  c * SectorsPerCluster + o \in Sector
  BY GeometryAssumption DEF Cluster, Offset, Sector, PartSize

-----------------------------------------------------------------------------
(* What the loops of nx_emmc_bis_read and nx_emmc_bis_write keep: while a  *)
(* block is still to be transferred, the rest of the request lies inside   *)
(* the partition.                                                          *)
LoopOK ==
  pc \in {"read", "write"} =>
    /\ count \in 1 .. MaxCount
    /\ curr_sct + count <= PartSize

Typed == TypeOK /\ LoopOK

LEMMA ChunkFacts ==
  ASSUME Typed, pc \in {"read", "write"}
  PROVE  /\ curr_sct \in Sector
         /\ ChunkCount \in 1 .. count
         /\ ChunkCount <= SectorsPerCluster
         /\ ChunkSectors \in SUBSET Sector
  BY GeometryAssumption, PartSizeNat
  DEF Typed, TypeOK, LoopOK, ChunkCount, ChunkSectors, MinOf, Sector

LEMMA EmmcWriteType ==
  ASSUME TypeOK, NEW S \in SUBSET Sector, NEW content, NEW ok \in BOOLEAN,
         \A x \in S : content[x] \in Content,
         EmmcWrite(S, content, ok)
  PROVE  emmc' \in [Part -> [Sector -> Content]]
<1>1. PICK stored \in SUBSET S :
        emmc' = [emmc EXCEPT ![system_part] =
                   [x \in Sector |-> IF x \in stored THEN content[x] ELSE @[x]]]
  BY DEF EmmcWrite
<1>2. CASE system_part \in Part
  <2>1. [x \in Sector |-> IF x \in stored THEN content[x] ELSE emmc[system_part][x]]
          \in [Sector -> Content]
    BY <1>2 DEF TypeOK
  <2> QED BY <1>1, <1>2, <2>1 DEF TypeOK
<1>3. CASE system_part \notin Part
  BY <1>1, <1>3 DEF TypeOK
<1> QED BY <1>2, <1>3

LEMMA FlushType ==
  ASSUME TypeOK, NEW i \in Slot, NEW ok \in BOOLEAN, FlushToEmmc(i, ok)
  PROVE  emmc' \in [Part -> [Sector -> Content]]
<1> DEFINE j == FlushedSlot(i)
           S == SectorsOf(slot_cluster[i])
           content == IF j = Empty THEN [x \in S |-> Garbage] ELSE SlotContent(j, S)
<1>1. j \in Slot \cup {Empty} /\ S \in SUBSET Sector
  BY DEF TypeOK, FlushedSlot, SectorsOf
<1>2. \A x \in S : content[x] \in Content
  BY <1>1, DivMod DEF TypeOK, SlotContent, Content
<1>3. EmmcWrite(S, content, ok)
  BY DEF FlushToEmmc
<1> HIDE DEF content, S
<1> QED BY <1>1, <1>2, <1>3, EmmcWriteType

LEMMA AfterFlushType ==
  ASSUME TypeOK, NEW i \in Slot, NEW ok \in BOOLEAN
  PROVE  /\ DirtyAfterFlush(i, ok) \in [Slot -> BOOLEAN]
         /\ CountAfterFlush(i, ok) \in Int
<1>1. FlushedSlot(i) \in Slot \cup {Empty}
  BY DEF TypeOK, FlushedSlot
<1> QED BY <1>1 DEF TypeOK, DirtyAfterFlush, CountAfterFlush

LEMMA LookupFreedType ==
  ASSUME TypeOK
  PROVE  LookupFreed \in [Cluster -> Slot \cup {Empty}]
  BY DEF TypeOK, LookupFreed

LEMMA NextSlotFacts ==
  ASSUME TypeOK
  PROVE  /\ NextSlot \in Slot
         /\ Filled \in BOOLEAN
         /\ Filled => InUse = MaxEntries
         /\ ~Filled => InUse = NextSlot
  BY GeometryAssumption DEF TypeOK, Slot, NextSlot, Filled, Wraps, InUse

-----------------------------------------------------------------------------
(* What the tail of a call does to the loop variables.                     *)
LoopTyped ==
  /\ pc \in {"idle", "read", "write", "finalize"}
  /\ curr_sct \in 0 .. PartSize
  /\ count \in 0 .. MaxCount
  /\ fin_i \in 0 .. MaxEntries
  /\ clusters_to_flush \in Int
  /\ ret \in {0, 1}
  /\ LoopOK

LEMMA ReturnType ==
  ASSUME Typed, NEW res \in {0, 1}, Return(res)
  PROVE  LoopTyped'
  BY GeometryAssumption, PartSizeNat DEF Typed, TypeOK, LoopTyped, LoopOK, Return

LEMMA NextChunkType ==
  ASSUME Typed, pc \in {"read", "write"}, count # ChunkCount, NextChunk,
         UNCHANGED <<pc, fin_i, clusters_to_flush, ret>>
  PROVE  LoopTyped'
<1>1. PartSize \in Nat
  BY PartSizeNat
<1>2. /\ curr_sct \in Nat /\ count \in 1 .. MaxCount
      /\ curr_sct + count <= PartSize
  BY DEF Typed, TypeOK, LoopOK
<1>3. ChunkCount \in 1 .. count - 1
  BY <1>2, ChunkFacts DEF Typed
<1>4. curr_sct' = curr_sct + ChunkCount /\ count' = count - ChunkCount
  BY DEF NextChunk
<1>5. /\ curr_sct' \in 0 .. PartSize /\ count' \in 1 .. MaxCount
      /\ curr_sct' + count' <= PartSize
  BY <1>1, <1>2, <1>3, <1>4, GeometryAssumption, PartSizeNat
<1> QED BY <1>5 DEF Typed, TypeOK, LoopTyped, LoopOK

LEMMA ReadNextType ==
  ASSUME Typed, pc = "read", ReadNext
  PROVE  LoopTyped'
<1>1. CASE count = ChunkCount
  BY <1>1, ReturnType DEF ReadNext
<1>2. CASE count # ChunkCount
  BY <1>2, NextChunkType DEF ReadNext
<1> QED BY <1>1, <1>2

LEMMA WriteNextType ==
  ASSUME Typed, pc = "write", WriteNext, dirty_cluster_count' \in Int
  PROVE  LoopTyped'
<1>1. CASE count # ChunkCount
  BY <1>1, NextChunkType DEF WriteNext
<1>2. CASE count = ChunkCount /\ dirty_cluster_count' = 0
  BY <1>2, ReturnType DEF WriteNext
<1>3. CASE count = ChunkCount /\ dirty_cluster_count' # 0
  BY <1>3, GeometryAssumption, PartSizeNat DEF Typed, TypeOK, LoopTyped, LoopOK, WriteNext
<1> QED BY <1>1, <1>2, <1>3

-----------------------------------------------------------------------------
LEMMA ReadMissType ==
  ASSUME Typed, NEW flushOk \in BOOLEAN, NEW readOk \in BOOLEAN,
         ReadMiss(flushOk, readOk)
  PROVE  Typed'
<1> DEFINE c == ClusterOf(curr_sct)
           e == NextSlot
<1>1. e \in Slot /\ e + 1 \in 0 .. MaxEntries /\ Filled \in BOOLEAN
  BY NextSlotFacts, GeometryAssumption DEF Typed, Slot
<1>2. c \in Cluster /\ pc = "read"
  BY ChunkFacts, DivMod DEF ReadMiss
<1>3. emmc' \in [Part -> [Sector -> Content]]
  <2>1. CASE Evicts
    BY <2>1, <1>1, FlushType DEF ReadMiss, Typed
  <2>2. CASE ~Evicts
    BY <2>2 DEF ReadMiss, Typed, TypeOK
  <2> QED BY <2>1, <2>2
<1>4. dirty_cluster_count' \in Int /\ slot_dirty' \in [Slot -> BOOLEAN]
  <2>1. CASE Evicts
    BY <2>1, <1>1, AfterFlushType DEF ReadMiss, Typed
  <2>2. CASE ~Evicts
    BY <2>2, <1>1 DEF ReadMiss, Typed, TypeOK
  <2> QED BY <2>1, <2>2
<1>5. /\ cluster_lookup' \in [Cluster -> Slot \cup {Empty}]
      /\ slot_cluster' \in [Slot -> Cluster]
      /\ cache_filled' \in BOOLEAN /\ system_part' = system_part
  BY <1>1, <1>2, LookupFreedType DEF ReadMiss, Typed, TypeOK
<1>6. CASE readOk
  <2>1. slot_data' \in [Slot -> [Offset -> Content]]
    <3>1. system_part \in Part
      BY DEF ReadMiss, Typed, TypeOK
    <3>2. [o \in Offset |-> emmc'[system_part][c * SectorsPerCluster + o]]
            \in [Offset -> Content]
      BY <1>2, <1>3, <3>1, SectorAt
    <3>3. slot_data' = [slot_data EXCEPT ![e] =
            [o \in Offset |-> emmc'[system_part][c * SectorsPerCluster + o]]]
      BY <1>6 DEF ReadMiss
    <3> QED BY <3>2, <3>3, <1>1 DEF Typed, TypeOK
  <2>2. LoopTyped'
    BY <1>6, ReadNextType DEF ReadMiss
  <2>3. cluster_cache_end_index' \in 0 .. MaxEntries
    BY <1>1, <1>6 DEF ReadMiss
  <2> QED BY <1>3, <1>4, <1>5, <2>1, <2>2, <2>3 DEF Typed, TypeOK, LoopTyped
<1>7. CASE ~readOk
  <2>1. LoopTyped'
    BY <1>7, ReturnType DEF ReadMiss, FailCall
  <2>2. cluster_cache_end_index' \in 0 .. MaxEntries
    BY <1>1, <1>7, GeometryAssumption, PartSizeNat DEF ReadMiss, Slot
  <2>3. slot_data' = slot_data
    BY <1>7 DEF ReadMiss
  <2> QED BY <1>3, <1>4, <1>5, <2>1, <2>2, <2>3 DEF Typed, TypeOK, LoopTyped
<1> QED BY <1>6, <1>7

LEMMA WriteCachedType ==
  ASSUME Typed, NEW data \in [ChunkSectors -> Value], WriteCached(data)
  PROVE  Typed'
<1> DEFINE i == cluster_lookup[ClusterOf(curr_sct)]
<1>1. pc = "write" /\ ClusterOf(curr_sct) \in Cluster /\ i \in Slot
  BY ChunkFacts, DivMod DEF WriteCached, Typed, TypeOK
<1>2. slot_data' \in [Slot -> [Offset -> Content]]
  <2> DEFINE new == [o \in Offset |->
               LET x == ClusterOf(curr_sct) * SectorsPerCluster + o
               IN IF x \in ChunkSectors THEN data[x] ELSE slot_data[i][o]]
  <2>1. new \in [Offset -> Content]
    BY <1>1 DEF Typed, TypeOK, Content
  <2>2. slot_data' = [slot_data EXCEPT ![i] = new]
    BY <1>1 DEF WriteCached, Typed, TypeOK
  <2> QED BY <1>1, <2>1, <2>2 DEF Typed, TypeOK
<1>3. dirty_cluster_count' \in Int /\ slot_dirty' \in [Slot -> BOOLEAN]
  BY <1>1 DEF WriteCached, Typed, TypeOK
<1>4. LoopTyped'
  BY <1>1, <1>3, WriteNextType DEF WriteCached
<1> QED BY <1>2, <1>3, <1>4 DEF WriteCached, Typed, TypeOK, LoopTyped

LEMMA WriteThroughType ==
  ASSUME Typed, NEW data \in [ChunkSectors -> Value], NEW ok \in BOOLEAN,
         WriteThrough(data, ok)
  PROVE  Typed'
<1>1. pc = "write" /\ ChunkSectors \in SUBSET Sector
  BY ChunkFacts DEF WriteThrough
<1>2. emmc' \in [Part -> [Sector -> Content]]
  BY <1>1, EmmcWriteType DEF WriteThrough, Typed, Content
<1>3. UNCHANGED <<system_part, cacheVars>>
  BY DEF WriteThrough
<1>4. dirty_cluster_count' \in Int
  BY <1>3 DEF cacheVars, Typed, TypeOK
<1>5. LoopTyped'
  <2>1. CASE ok
    BY <1>1, <1>4, <2>1, WriteNextType DEF WriteThrough
  <2>2. CASE ~ok
    BY <2>2, ReturnType DEF WriteThrough, FailCall
  <2> QED BY <2>1, <2>2
<1> QED BY <1>2, <1>3, <1>5 DEF cacheVars, Typed, TypeOK, LoopTyped

LEMMA FinalizeFlushType ==
  ASSUME Typed, NEW i \in Slot, NEW ok \in BOOLEAN, FinalizeFlush(i, ok)
  PROVE  Typed'
<1>1. emmc' \in [Part -> [Sector -> Content]]
  BY FlushType DEF FinalizeFlush, Typed
<1>2. dirty_cluster_count' \in Int /\ slot_dirty' \in [Slot -> BOOLEAN]
  BY AfterFlushType DEF FinalizeFlush, Typed
<1>3. fin_i' \in 0 .. MaxEntries /\ clusters_to_flush' \in Int
  BY GeometryAssumption, PartSizeNat DEF FinalizeFlush, Typed, TypeOK, Slot
<1> QED BY <1>1, <1>2, <1>3 DEF FinalizeFlush, Typed, TypeOK, LoopOK

LEMMA ZeroInBounds ==
  /\ 0 \in 0 .. PartSize
  /\ 0 \in 0 .. MaxCount
  /\ 0 \in 0 .. MaxEntries
  /\ 0 \in Cluster
  BY GeometryAssumption, PartSizeNat DEF Cluster

LEMMA NoiseType ==
  /\ NoisyDirty \subseteq [Slot -> BOOLEAN]
  /\ NoisyCluster \in [Slot -> Cluster]
  /\ NoisyData \in [Slot -> [Offset -> Content]]
  /\ EmptyLookup \in [Cluster -> Slot \cup {Empty}]
  BY ZeroInBounds DEF EmptyLookup, NoisyDirty, NoisyCluster, NoisyData, Content

LEMMA InitType ==
  ASSUME Init
  PROVE  Typed
<1>1. emmc \in [Part -> [Sector -> Content]]
  BY DEF Init, Content
<1>2. cache_filled \in BOOLEAN
  BY Zenon DEF Init
<1> QED BY <1>1, <1>2, NoiseType, GeometryAssumption, PartSizeNat DEF Init, Typed, TypeOK, LoopOK

LEMMA StepType ==
  ASSUME Typed, [Next]_vars
  PROVE  Typed'
<1>1. ASSUME NEW p \in Part, BisInit(p)
      PROVE  Typed'
  <2>1. cache_filled' \in BOOLEAN
    BY <1>1, Zenon DEF BisInit
  <2> QED
    BY <1>1, <2>1, NoiseType, GeometryAssumption, PartSizeNat
    DEF BisInit, loopVars, Typed, TypeOK, LoopOK
<1>2. ASSUME NEW x \in Sector, NEW n \in 1 .. MaxCount, NEW kind \in {"read", "write"},
             BeginCall(kind, x, n)
      PROVE  Typed'
  BY <1>2, GeometryAssumption, PartSizeNat
  DEF BeginCall, cacheVars, AlignedRequest, Typed, TypeOK, LoopOK, Sector
<1>3. CASE NotReady
  BY <1>3, ReturnType DEF NotReady, FailCall, cacheVars, Typed, TypeOK, LoopTyped
<1>4. CASE ReadHit
  BY <1>4, ReadNextType DEF ReadHit, cacheVars, Typed, TypeOK, LoopTyped
<1>5. ASSUME NEW flushOk \in BOOLEAN, NEW readOk \in BOOLEAN, ReadMiss(flushOk, readOk)
      PROVE  Typed'
  BY <1>5, ReadMissType
<1>6. CASE WriteBlock
  BY <1>6, WriteCachedType, WriteThroughType, FaultAssumption DEF WriteBlock, Outcomes
<1>7. CASE Finalize
  <2>1. CASE FinalizeDone
    BY <2>1, ReturnType DEF FinalizeDone, cacheVars, Typed, TypeOK, LoopTyped
  <2> QED BY <1>7, <2>1, FinalizeFlushType, FaultAssumption DEF Finalize, Outcomes
<1>8. CASE PowerLoss
  <2>1. cache_filled' \in BOOLEAN
    BY <1>8, Zenon DEF PowerLoss
  <2> QED
    BY <1>8, <2>1, NoiseType, GeometryAssumption, PartSizeNat
    DEF PowerLoss, Typed, TypeOK, LoopOK
<1>9. CASE UNCHANGED vars
  BY <1>9 DEF vars, cacheVars, loopVars, Typed, TypeOK, LoopOK
<1> QED
  BY <1>1, <1>2, <1>3, <1>4, <1>5, <1>6, <1>7, <1>8, <1>9, FaultAssumption
  DEF Next, Step, ReadBlock, BeginRead, BeginWrite, Outcomes

(* Every reachable state is typed, however many partitions, clusters and   *)
(* slots there are and whatever the eMMC does: no lookup or loop variable  *)
(* of nx_emmc_bis.c ever leaves its table.                                 *)
THEOREM TypeCorrect == Spec => []TypeOK
<1>1. Init => Typed
  BY InitType
<1>2. Typed /\ [Next]_vars => Typed'
  BY StepType
<1>3. Typed => TypeOK
  BY DEF Typed
<1> QED BY <1>1, <1>2, <1>3, PTL DEF Spec

-----------------------------------------------------------------------------
(* The table and the slots in use.  Only a miss and a reset change them.   *)
LEMMA InUseSlots ==
  ASSUME TypeOK
  PROVE  0 .. InUse - 1 \subseteq Slot
  BY GeometryAssumption DEF TypeOK, InUse, Slot

LEMMA InitOwned ==
  ASSUME Init
  PROVE  SlotsOwned
  BY DEF Init, SlotsOwned, InUse

(* Two slots in use never hold the same cluster.                           *)
LEMMA OwnersDiffer ==
  ASSUME SlotsOwned, NEW i \in 0 .. InUse - 1, NEW k \in 0 .. InUse - 1, i # k
  PROVE  slot_cluster[i] # slot_cluster[k]
  BY DEF SlotsOwned

(* The slots in use before and after a miss.                               *)
LEMMA ReadMissFacts ==
  ASSUME Typed, NEW flushOk \in BOOLEAN, NEW readOk \in BOOLEAN,
         ReadMiss(flushOk, readOk)
  PROVE  /\ NextSlot \in Slot /\ ClusterOf(curr_sct) \in Cluster
         /\ cluster_lookup[ClusterOf(curr_sct)] = Empty
         /\ cluster_lookup' = [LookupFreed EXCEPT ![ClusterOf(curr_sct)] = NextSlot]
         /\ slot_cluster' = [slot_cluster EXCEPT ![NextSlot] = ClusterOf(curr_sct)]
         /\ Filled => InUse = MaxEntries /\ InUse' = MaxEntries
         /\ ~Filled => InUse = NextSlot /\ InUse' = IF readOk THEN NextSlot + 1 ELSE NextSlot
<1>1. NextSlot \in Slot /\ ClusterOf(curr_sct) \in Cluster
  BY NextSlotFacts, ChunkFacts, DivMod DEF ReadMiss, Typed
<1>2. cluster_cache_end_index' = IF readOk THEN NextSlot + 1 ELSE NextSlot
  BY DEF ReadMiss
<1>3. InUse' = IF Filled THEN MaxEntries ELSE cluster_cache_end_index'
  BY Zenon DEF ReadMiss, InUse
<1>4. /\ Filled => InUse = MaxEntries
      /\ ~Filled => InUse = NextSlot
  BY NextSlotFacts DEF Typed
<1> QED BY <1>1, <1>2, <1>3, <1>4 DEF ReadMiss

LEMMA ReadMissOwned ==
  ASSUME Typed, SlotsOwned, NEW flushOk \in BOOLEAN, NEW readOk \in BOOLEAN,
         ReadMiss(flushOk, readOk), NEW i \in 0 .. InUse' - 1
  PROVE  /\ cluster_lookup'[slot_cluster'[i]] = i
         /\ i # NextSlot => /\ i \in 0 .. InUse - 1
                            /\ slot_cluster'[i] = slot_cluster[i]
<1> DEFINE c == ClusterOf(curr_sct)
           e == NextSlot
<1>1. i \in Slot
  BY ReadMissFacts, GeometryAssumption DEF Slot
<1>2. CASE i = e
  BY <1>2, ReadMissFacts, LookupFreedType DEF Typed, TypeOK
<1>3. CASE i # e
  <2>1. i \in 0 .. InUse - 1
    BY <1>1, <1>3, ReadMissFacts DEF Slot
  <2>2. slot_cluster'[i] = slot_cluster[i] /\ slot_cluster[i] \in Cluster
    BY <1>1, <1>3, ReadMissFacts DEF Typed, TypeOK
  <2>3. cluster_lookup[slot_cluster[i]] = i
    BY <2>1 DEF SlotsOwned
  <2>4. slot_cluster[i] # c
    BY <1>1, <2>3, ReadMissFacts, NamesAssumption
  <2>5. Filled => slot_cluster[i] # slot_cluster[e]
    BY <1>3, <2>1, ReadMissFacts, OwnersDiffer DEF Slot
  <2>6. LookupFreed[slot_cluster[i]] = i
    BY <2>2, <2>3, <2>5 DEF LookupFreed, Typed, TypeOK
  <2> QED
    BY <1>3, <2>1, <2>2, <2>4, <2>6, ReadMissFacts, LookupFreedType DEF Typed
<1> QED BY <1>2, <1>3

(* What the other steps leave alone.                                       *)
tableVars == <<cluster_lookup, slot_cluster, cluster_cache_end_index, cache_filled>>

LEMMA TableSteps ==
  ASSUME Next
  PROVE  \/ \E p \in Part : BisInit(p)
         \/ \E flushOk \in BOOLEAN, readOk \in BOOLEAN : ReadMiss(flushOk, readOk)
         \/ PowerLoss
         \/ UNCHANGED tableVars
  BY FaultAssumption
  DEF Next, BeginRead, BeginWrite, BeginCall, Step, NotReady, ReadBlock, ReadHit,
      WriteBlock, WriteCached, WriteThrough, Finalize, FinalizeFlush, FinalizeDone,
      Outcomes, cacheVars, tableVars

LEMMA StepOwned ==
  ASSUME Typed, SlotsOwned, [Next]_vars
  PROVE  SlotsOwned'
<1>1. ASSUME NEW p \in Part, BisInit(p)
      PROVE  SlotsOwned'
  BY <1>1 DEF BisInit, SlotsOwned, InUse
<1>2. CASE PowerLoss
  BY <1>2 DEF PowerLoss, SlotsOwned, InUse
<1>3. CASE UNCHANGED tableVars
  BY <1>3 DEF tableVars, SlotsOwned, InUse
<1>4. CASE UNCHANGED vars
  BY <1>4 DEF vars, cacheVars, SlotsOwned, InUse
<1>5. ASSUME NEW flushOk \in BOOLEAN, NEW readOk \in BOOLEAN, ReadMiss(flushOk, readOk)
      PROVE  SlotsOwned'
  BY <1>5, ReadMissOwned DEF SlotsOwned
<1> QED BY <1>1, <1>2, <1>3, <1>4, <1>5, TableSteps

(* Every slot in use is the slot its cluster is looked up in, even when    *)
(* every access to the eMMC may fail: _nx_emmc_bis_flush_cluster always    *)
(* finds its buffer and never encrypts from address NULL.                  *)
THEOREM SlotOwnership == Spec => []SlotsOwned
<1>1. Init => Typed /\ SlotsOwned
  BY InitType, InitOwned
<1>2. Typed /\ SlotsOwned /\ [Next]_vars => (Typed /\ SlotsOwned)'
  BY StepType, StepOwned
<1> QED BY <1>1, <1>2, PTL DEF Spec

-----------------------------------------------------------------------------
(* Counting the dirty slots.                                               *)
LEMMA CardinalityAfter ==
  ASSUME NEW S, IsFiniteSet(S), NEW T, NEW x
  PROVE  /\ Cardinality(S) \in Nat
         /\ T \subseteq S => /\ Cardinality(T) \in Nat
                             /\ Cardinality(T) <= Cardinality(S)
         /\ T \subseteq S \cup {x} => /\ Cardinality(T) \in Nat
                                     /\ Cardinality(T) <= Cardinality(S) + 1
         /\ T \subseteq S \ {x} /\ x \in S => /\ Cardinality(T) \in Nat
                                            /\ Cardinality(T) <= Cardinality(S) - 1
<1>1. Cardinality(S) \in Nat
  BY FS_CardinalityType
<1>2. ASSUME NEW U, IsFiniteSet(U), T \subseteq U
      PROVE  Cardinality(T) \in Nat /\ Cardinality(U) \in Nat
             /\ Cardinality(T) <= Cardinality(U)
  <2>1. T \in SUBSET U
    BY <1>2
  <2> QED BY <1>2, <2>1, FS_Subset, FS_CardinalityType
<1>3. /\ IsFiniteSet(S \cup {x})
      /\ Cardinality(S \cup {x}) \in {Cardinality(S), Cardinality(S) + 1}
  BY FS_AddElement
<1>4. /\ IsFiniteSet(S \ {x})
      /\ x \in S => Cardinality(S \ {x}) = Cardinality(S) - 1
  BY FS_RemoveElement
<1>5. T \subseteq S \cup {x} =>
        Cardinality(T) \in Nat /\ Cardinality(T) <= Cardinality(S) + 1
  BY <1>1, <1>2, <1>3
<1>6. T \subseteq S \ {x} /\ x \in S =>
        Cardinality(T) \in Nat /\ Cardinality(T) <= Cardinality(S) - 1
  BY <1>1, <1>2, <1>4
<1>7. T \subseteq S => Cardinality(T) \in Nat /\ Cardinality(T) <= Cardinality(S)
  BY <1>2
<1> QED BY <1>1, <1>5, <1>6, <1>7

LEMMA DirtyFinite ==
  ASSUME TypeOK, NEW from \in Nat
  PROVE  IsFiniteSet(DirtySlots(from))
<1>1. InUse - 1 \in Int
  BY GeometryAssumption DEF TypeOK, InUse
<1>2. IsFiniteSet(from .. InUse - 1)
  BY <1>1, FS_Interval
<1>3. DirtySlots(from) \in SUBSET (from .. InUse - 1)
  BY DEF DirtySlots
<1> QED BY <1>2, <1>3, FS_Subset

LEMMA FlushOfDirtySlot ==
  ASSUME TypeOK, SlotsOwned, NEW i \in 0 .. InUse - 1, slot_dirty[i],
         NEW ok \in BOOLEAN
  PROVE  /\ FlushedSlot(i) = i
         /\ DirtyAfterFlush(i, ok) = [slot_dirty EXCEPT ![i] = ~ok]
         /\ CountAfterFlush(i, ok) = IF ok THEN dirty_cluster_count - 1
                                           ELSE dirty_cluster_count
<1>1. FlushedSlot(i) = i /\ i # Empty
  BY InUseSlots, NamesAssumption DEF SlotsOwned, FlushedSlot
<1>2. dirty_cluster_count \in Int
  BY DEF TypeOK
<1> QED BY <1>1, <1>2 DEF DirtyAfterFlush, CountAfterFlush

Counted == Typed /\ SlotsOwned /\ DirtyCounted

LEMMA ReadMissCounted ==
  ASSUME Counted, NEW flushOk \in BOOLEAN, NEW readOk \in BOOLEAN,
         ReadMiss(flushOk, readOk)
  PROVE  DirtyCounted'
<1> DEFINE e == NextSlot
<1>1. Typed /\ SlotsOwned /\ DirtyCounted /\ TypeOK
  BY DEF Counted, Typed
<1>2. e \in Slot
  BY <1>1, NextSlotFacts
<1>3. Evicts => e \in DirtySlots(0)
  BY <1>1, <1>2, NextSlotFacts DEF Evicts, DirtySlots, Slot
<1>4. /\ slot_dirty' = [(IF Evicts THEN [slot_dirty EXCEPT ![e] = ~flushOk]
                                  ELSE slot_dirty) EXCEPT ![e] = FALSE]
      /\ dirty_cluster_count' = IF Evicts /\ flushOk THEN dirty_cluster_count - 1
                                                     ELSE dirty_cluster_count
  BY <1>1, <1>3, FlushOfDirtySlot DEF ReadMiss, DirtySlots
<1>5. DirtySlots(0)' \subseteq DirtySlots(0) \ {e}
  <2>1. SUFFICES ASSUME NEW i \in 0 .. InUse' - 1, slot_dirty'[i]
                 PROVE  i \in DirtySlots(0) \ {e}
    BY DEF DirtySlots
  <2>2. i # e
    BY <1>1, <1>2, <1>4, <2>1 DEF TypeOK
  <2>3. i \in 0 .. InUse - 1
    BY <1>1, <2>1, <2>2, ReadMissOwned
  <2>4. slot_dirty[i]
    BY <1>1, <1>2, <1>4, <2>1, <2>2, <2>3, InUseSlots DEF TypeOK
  <2> QED BY <2>2, <2>3, <2>4 DEF DirtySlots
<1>6. pc' # "finalize"
  BY DEF ReadMiss, ReadNext, Return, FailCall
<1>7. Cardinality(DirtySlots(0)') <= dirty_cluster_count'
  <2>1. IsFiniteSet(DirtySlots(0)) /\ Cardinality(DirtySlots(0)) <= dirty_cluster_count
        /\ dirty_cluster_count \in Int
    BY <1>1, DirtyFinite DEF DirtyCounted, TypeOK
  <2>2. CASE Evicts
    <3>1. /\ Cardinality(DirtySlots(0)) \in Nat /\ Cardinality(DirtySlots(0)') \in Nat
          /\ Cardinality(DirtySlots(0)') <= Cardinality(DirtySlots(0)) - 1
      BY <1>3, <1>5, <2>1, <2>2, CardinalityAfter
    <3> QED BY <1>4, <2>1, <3>1
  <2>3. CASE ~Evicts
    <3>1. /\ Cardinality(DirtySlots(0)) \in Nat /\ Cardinality(DirtySlots(0)') \in Nat
          /\ Cardinality(DirtySlots(0)') <= Cardinality(DirtySlots(0))
      <4>1. DirtySlots(0)' \subseteq DirtySlots(0)
        BY <1>5
      <4> QED BY <2>1, <4>1, CardinalityAfter
    <3> QED BY <1>4, <2>1, <2>3, <3>1
  <2> QED BY <2>2, <2>3
<1> QED BY <1>6, <1>7 DEF DirtyCounted

LEMMA WriteNextFinalize ==
  ASSUME WriteNext, pc = "write", pc' = "finalize"
  PROVE  fin_i' = 0 /\ clusters_to_flush' = dirty_cluster_count'
  BY DEF WriteNext, Return

LEMMA WriteCachedCounted ==
  ASSUME Counted, NEW data, WriteCached(data)
  PROVE  DirtyCounted'
<1> DEFINE i == cluster_lookup[ClusterOf(curr_sct)]
<1>1. Typed /\ TypeOK /\ DirtyCounted
  BY DEF Counted, Typed
<1>2. i \in Slot
  BY <1>1, ChunkFacts, DivMod DEF WriteCached, TypeOK
<1>3. /\ slot_dirty' = [slot_dirty EXCEPT ![i] = TRUE]
      /\ dirty_cluster_count' = IF slot_dirty[i] THEN dirty_cluster_count
                                                 ELSE dirty_cluster_count + 1
      /\ WriteNext /\ pc = "write"
  BY DEF WriteCached
<1>4. InUse' = InUse
  BY DEF WriteCached, InUse
<1>5. /\ DirtySlots(0)' \subseteq DirtySlots(0) \cup {i}
      /\ slot_dirty[i] => DirtySlots(0)' \subseteq DirtySlots(0)
  BY <1>1, <1>2, <1>3, <1>4, InUseSlots DEF DirtySlots, TypeOK
<1>6. Cardinality(DirtySlots(0)') <= dirty_cluster_count'
  <2>1. IsFiniteSet(DirtySlots(0)) /\ Cardinality(DirtySlots(0)) <= dirty_cluster_count
        /\ dirty_cluster_count \in Int
    BY <1>1, DirtyFinite DEF DirtyCounted, TypeOK
  <2>2. /\ Cardinality(DirtySlots(0)) \in Nat /\ Cardinality(DirtySlots(0)') \in Nat
        /\ Cardinality(DirtySlots(0)') <= Cardinality(DirtySlots(0)) + 1
        /\ slot_dirty[i] => Cardinality(DirtySlots(0)') <= Cardinality(DirtySlots(0))
    BY <1>5, <2>1, CardinalityAfter
  <2> QED BY <1>3, <2>1, <2>2
<1>7. pc' = "finalize" => fin_i' = 0 /\ clusters_to_flush' = dirty_cluster_count'
  BY <1>3, WriteNextFinalize
<1> QED BY <1>6, <1>7 DEF DirtyCounted

LEMMA FinalizeFlushCounted ==
  ASSUME Counted, NEW i \in Slot, NEW ok \in BOOLEAN, FinalizeFlush(i, ok)
  PROVE  DirtyCounted'
<1>1. Typed /\ TypeOK /\ SlotsOwned /\ DirtyCounted
  BY DEF Counted, Typed
<1>2. /\ fin_i \in Nat /\ dirty_cluster_count \in Int /\ clusters_to_flush \in Int
      /\ i \in fin_i .. InUse - 1 /\ slot_dirty[i] /\ pc = "finalize"
      /\ \A k \in fin_i .. i - 1 : ~slot_dirty[k]
  BY <1>1 DEF TypeOK, FinalizeFlush, NextDirty
<1>3. i \in 0 .. InUse - 1
  BY <1>2
<1>4. /\ slot_dirty' = [slot_dirty EXCEPT ![i] = ~ok]
      /\ dirty_cluster_count' = IF ok THEN dirty_cluster_count - 1 ELSE dirty_cluster_count
      /\ fin_i' = i + 1 /\ clusters_to_flush' = clusters_to_flush - 1
  BY <1>1, <1>2, <1>3, FlushOfDirtySlot DEF FinalizeFlush
<1>5. InUse' = InUse
  BY DEF FinalizeFlush, InUse
<1>6. /\ DirtySlots(0)' \subseteq DirtySlots(0)
      /\ ok => DirtySlots(0)' \subseteq DirtySlots(0) \ {i}
      /\ i \in DirtySlots(0)
  BY <1>1, <1>3, <1>2, <1>4, <1>5, InUseSlots DEF DirtySlots, TypeOK
<1>6b. DirtySlots(fin_i)' \subseteq DirtySlots(fin_i) \ {i} /\ i \in DirtySlots(fin_i)
  <2>1. SUFFICES ASSUME NEW k \in fin_i' .. InUse' - 1, slot_dirty'[k]
                 PROVE  k \in DirtySlots(fin_i) \ {i}
    BY <1>2 DEF DirtySlots
  <2>2. k \in fin_i .. InUse - 1 /\ k # i
    BY <1>2, <1>4, <1>5, <2>1
  <2>3. slot_dirty[k]
    BY <1>1, <1>2, <1>4, <2>1, <2>2, InUseSlots DEF TypeOK
  <2> QED BY <2>2, <2>3 DEF DirtySlots
<1>7. /\ IsFiniteSet(DirtySlots(0)) /\ IsFiniteSet(DirtySlots(fin_i))
      /\ Cardinality(DirtySlots(0)) <= dirty_cluster_count
      /\ Cardinality(DirtySlots(fin_i)) <= clusters_to_flush
  BY <1>1, <1>2, DirtyFinite DEF DirtyCounted
<1>8. Cardinality(DirtySlots(0)') <= dirty_cluster_count'
  <2>1. /\ Cardinality(DirtySlots(0)) \in Nat /\ Cardinality(DirtySlots(0)') \in Nat
        /\ Cardinality(DirtySlots(0)') <= Cardinality(DirtySlots(0))
        /\ ok => Cardinality(DirtySlots(0)') <= Cardinality(DirtySlots(0)) - 1
    BY <1>6, <1>7, CardinalityAfter
  <2> QED BY <1>2, <1>4, <1>7, <2>1
<1>9. Cardinality(DirtySlots(fin_i)') <= clusters_to_flush'
  <2>1. /\ Cardinality(DirtySlots(fin_i)) \in Nat /\ Cardinality(DirtySlots(fin_i)') \in Nat
        /\ Cardinality(DirtySlots(fin_i)') <= Cardinality(DirtySlots(fin_i)) - 1
    BY <1>7, <1>6b, CardinalityAfter
  <2> QED BY <1>2, <1>4, <1>7, <2>1
<1> QED BY <1>8, <1>9 DEF DirtyCounted

LEMMA EmptyCounted ==
  ASSUME dirty_cluster_count = 0, ~cache_filled, cluster_cache_end_index = 0,
         pc = "idle"
  PROVE  DirtyCounted
<1>1. DirtySlots(0) = {}
  BY DEF DirtySlots, InUse
<1>2. Cardinality(DirtySlots(0)) = 0
  BY <1>1, FS_EmptySet
<1> QED BY <1>2 DEF DirtyCounted

dirtyVars == <<slot_dirty, dirty_cluster_count, cluster_cache_end_index, cache_filled>>

LEMMA QuietCounted ==
  ASSUME Counted, UNCHANGED dirtyVars,
         pc' = "finalize" => \/ UNCHANGED <<pc, fin_i, clusters_to_flush>>
                             \/ fin_i' = 0 /\ clusters_to_flush' = dirty_cluster_count'
  PROVE  DirtyCounted'
<1>1. UNCHANGED InUse
  BY DEF dirtyVars, InUse
<1>2. DirtySlots(0)' = DirtySlots(0)
  BY <1>1 DEF dirtyVars, DirtySlots
<1>3. UNCHANGED fin_i => DirtySlots(fin_i)' = DirtySlots(fin_i)
  BY <1>1 DEF dirtyVars, DirtySlots
<1>4. fin_i' = 0 => DirtySlots(fin_i)' = DirtySlots(0)
  BY <1>1 DEF dirtyVars, DirtySlots
<1> QED BY <1>2, <1>3, <1>4 DEF Counted, DirtyCounted, dirtyVars

LEMMA StepCounted ==
  ASSUME Counted, [Next]_vars
  PROVE  DirtyCounted'
<1>1. ASSUME NEW p \in Part, BisInit(p)
      PROVE  DirtyCounted'
  <2>1. (dirty_cluster_count = 0 /\ ~cache_filled /\ cluster_cache_end_index = 0
         /\ pc = "idle")'
    BY <1>1 DEF BisInit
  <2>2. DirtySlots(0)' = {}
    BY <2>1 DEF DirtySlots, InUse
  <2> QED BY <2>1, <2>2, FS_EmptySet DEF DirtyCounted
<1>2. CASE PowerLoss
  <2>1. (dirty_cluster_count = 0 /\ ~cache_filled /\ cluster_cache_end_index = 0
         /\ pc = "idle")'
    BY <1>2 DEF PowerLoss
  <2>2. DirtySlots(0)' = {}
    BY <2>1 DEF DirtySlots, InUse
  <2> QED BY <2>1, <2>2, FS_EmptySet DEF DirtyCounted
<1>3. ASSUME NEW x, NEW n, NEW kind \in {"read", "write"}, BeginCall(kind, x, n)
      PROVE  DirtyCounted'
  BY <1>3, QuietCounted DEF BeginCall, cacheVars, dirtyVars
<1>4. CASE NotReady
  BY <1>4, QuietCounted DEF NotReady, FailCall, Return, cacheVars, dirtyVars
<1>5. CASE ReadHit
  BY <1>5, QuietCounted DEF ReadHit, ReadNext, Return, cacheVars, dirtyVars
<1>6. ASSUME NEW flushOk \in BOOLEAN, NEW readOk \in BOOLEAN, ReadMiss(flushOk, readOk)
      PROVE  DirtyCounted'
  BY <1>6, ReadMissCounted
<1>7. ASSUME NEW data, NEW ok \in BOOLEAN, WriteThrough(data, ok)
      PROVE  DirtyCounted'
  <2>1. pc = "write" /\ UNCHANGED dirtyVars
    BY <1>7 DEF WriteThrough, cacheVars, dirtyVars
  <2>2. pc' = "finalize" => fin_i' = 0 /\ clusters_to_flush' = dirty_cluster_count'
    BY <1>7, <2>1, WriteNextFinalize DEF WriteThrough, FailCall, Return
  <2> QED BY <2>1, <2>2, QuietCounted
<1>8. CASE WriteBlock
  BY <1>7, <1>8, WriteCachedCounted, FaultAssumption DEF WriteBlock, Outcomes
<1>9. CASE Finalize
  <2>1. CASE FinalizeDone
    BY <2>1, QuietCounted DEF FinalizeDone, Return, cacheVars, dirtyVars
  <2> QED BY <1>9, <2>1, FinalizeFlushCounted, FaultAssumption DEF Finalize, Outcomes
<1>10. CASE UNCHANGED vars
  BY <1>10 DEF vars, cacheVars, loopVars, Counted, DirtyCounted, DirtySlots, InUse
<1> QED
  BY <1>1, <1>2, <1>3, <1>4, <1>5, <1>6, <1>8, <1>9, <1>10, FaultAssumption
  DEF Next, BeginRead, BeginWrite, Step, ReadBlock, Outcomes

(* dirty_cluster_count never falls below the number of dirty slots, and    *)
(* never below zero, whatever the eMMC does: the early return of           *)
(* nx_emmc_bis_finalize and its countdown never skip a dirty cluster.      *)
THEOREM DirtyCounting == Spec => []DirtyCounted
<1>1. Init => Counted
  BY InitType, InitOwned, EmptyCounted, Zenon DEF Init, Counted
<1>2. Counted /\ [Next]_vars => Counted'
  BY StepType, StepOwned, StepCounted DEF Counted
<1>3. Counted => DirtyCounted
  BY DEF Counted
<1> QED BY <1>1, <1>2, <1>3, PTL DEF Spec

-----------------------------------------------------------------------------
(* While no read of the eMMC fails.                                        *)

Located == Typed /\ SlotsOwned /\ LookupExact

LEMMA ReadMissExact ==
  ASSUME Located, NEW flushOk \in BOOLEAN, ReadMiss(flushOk, TRUE)
  PROVE  LookupExact'
<1> DEFINE c == ClusterOf(curr_sct)
           e == NextSlot
<1>1. Typed /\ TypeOK /\ SlotsOwned /\ LookupExact
  BY DEF Located, Typed
<1>2. /\ e \in Slot /\ c \in Cluster
      /\ cluster_lookup' = [LookupFreed EXCEPT ![c] = e]
      /\ slot_cluster' = [slot_cluster EXCEPT ![e] = c]
      /\ Filled => InUse = MaxEntries /\ InUse' = MaxEntries
      /\ ~Filled => InUse = e /\ InUse' = e + 1
  BY <1>1, ReadMissFacts
<1>3. SUFFICES ASSUME NEW d \in Cluster, cluster_lookup'[d] # Empty
               PROVE  /\ slot_cluster'[cluster_lookup'[d]] = d
                      /\ cluster_lookup'[d] < InUse'
  BY DEF LookupExact, ServedFromOwnSlot
<1>4. CASE d = c
  <2>1. cluster_lookup'[d] = e /\ slot_cluster'[e] = c
    BY <1>1, <1>2, <1>4, LookupFreedType DEF TypeOK
  <2> QED BY <1>2, <1>4, <2>1, GeometryAssumption DEF Slot
<1>5. CASE d # c
  <2>1. cluster_lookup'[d] = LookupFreed[d]
    BY <1>1, <1>2, <1>5, LookupFreedType
  <2>2. cluster_lookup'[d] = cluster_lookup[d]
    BY <1>1, <1>3, <2>1 DEF LookupFreed, TypeOK
  <2>3. /\ cluster_lookup[d] \in Slot /\ cluster_lookup[d] < InUse
        /\ slot_cluster[cluster_lookup[d]] = d
    BY <1>1, <1>3, <2>2 DEF LookupExact, ServedFromOwnSlot, TypeOK
  <2>4. cluster_lookup[d] # e
    <3>1. CASE Filled
      BY <1>1, <1>3, <2>1, <2>2, <2>3, <3>1 DEF LookupFreed, TypeOK
    <3>2. CASE ~Filled
      BY <1>2, <2>3, <3>2 DEF Slot
    <3> QED BY <3>1, <3>2
  <2>5. slot_cluster'[cluster_lookup[d]] = slot_cluster[cluster_lookup[d]]
    BY <1>1, <1>2, <2>3, <2>4 DEF TypeOK
  <2>6. cluster_lookup[d] < InUse'
    BY <1>2, <2>3, GeometryAssumption DEF Slot
  <2> QED BY <2>2, <2>3, <2>5, <2>6
<1> QED BY <1>4, <1>5

LEMMA EmptyTableExact ==
  ASSUME cluster_lookup = EmptyLookup
  PROVE  LookupExact
  BY DEF EmptyLookup, LookupExact, ServedFromOwnSlot

LEMMA StepExact ==
  ASSUME ReadsMayFail = FALSE, Located, [Next]_vars
  PROVE  LookupExact'
<1>1. ASSUME NEW p \in Part, BisInit(p)
      PROVE  LookupExact'
  BY <1>1 DEF BisInit, EmptyLookup, LookupExact, ServedFromOwnSlot
<1>2. CASE PowerLoss
  BY <1>2 DEF PowerLoss, EmptyLookup, LookupExact, ServedFromOwnSlot
<1>3. CASE UNCHANGED tableVars
  BY <1>3 DEF tableVars, Located, LookupExact, ServedFromOwnSlot, InUse
<1>4. CASE UNCHANGED vars
  BY <1>4 DEF vars, cacheVars, Located, LookupExact, ServedFromOwnSlot, InUse
<1>5. CASE ReadBlock
  <2>1. CASE ReadHit
    BY <1>3, <2>1 DEF ReadHit, cacheVars, tableVars
  <2>2. ASSUME NEW flushOk \in BOOLEAN, ReadMiss(flushOk, TRUE)
        PROVE  LookupExact'
    BY <2>2, ReadMissExact
  <2> QED BY <1>5, <2>1, <2>2, FaultAssumption DEF ReadBlock, Outcomes
<1>6. \/ \E p \in Part : BisInit(p)
      \/ PowerLoss \/ UNCHANGED tableVars \/ UNCHANGED vars \/ ReadBlock
  BY DEF Next, BeginRead, BeginWrite, BeginCall, Step, NotReady, WriteBlock,
         WriteCached, WriteThrough, Finalize, FinalizeFlush, FinalizeDone,
         cacheVars, tableVars
<1> QED BY <1>1, <1>2, <1>3, <1>4, <1>5, <1>6

(* While no read of the eMMC fails, nx_emmc_bis_read_block serves every    *)
(* cluster from the slot filled for it, for any geometry of the cache.     *)
THEOREM LookupIsExact ==
  ASSUME ReadsMayFail = FALSE
  PROVE  Spec => []LookupExact
<1>1. Init => Located
  BY InitType, InitOwned, EmptyTableExact DEF Init, Located
<1>2. Located /\ [Next]_vars => Located'
  BY StepType, StepOwned, StepExact DEF Located
<1>3. Located => LookupExact
  BY DEF Located
<1> QED BY <1>1, <1>2, <1>3, PTL DEF Spec

-----------------------------------------------------------------------------
(* A block never crosses the end of a cluster.                             *)
LoopAligned ==
  pc \in {"read", "write"} =>
    OffsetOf(curr_sct) = 0 \/ OffsetOf(curr_sct) + count <= SectorsPerCluster

LEMMA DivUnique ==
  ASSUME NEW x \in Nat, NEW q \in Nat, NEW r \in Offset,
         x = q * SectorsPerCluster + r
  PROVE  ClusterOf(x) = q /\ OffsetOf(x) = r
<1>1. SectorsPerCluster \in Nat \ {0} /\ r \in 0 .. SectorsPerCluster - 1
  BY GeometryAssumption DEF Offset
<1>2. /\ ClusterOf(x) \in Int /\ OffsetOf(x) \in 0 .. SectorsPerCluster - 1
      /\ x = ClusterOf(x) * SectorsPerCluster + OffsetOf(x)
  BY <1>1 DEF ClusterOf, OffsetOf
<1>3. (q - ClusterOf(x)) * SectorsPerCluster = OffsetOf(x) - r
  BY <1>1, <1>2
<1>4. q - ClusterOf(x) = 0
  <2> DEFINE k == q - ClusterOf(x)
  <2>1. k \in Int /\ k * SectorsPerCluster < SectorsPerCluster
        /\ k * SectorsPerCluster > 0 - SectorsPerCluster
    BY <1>1, <1>2, <1>3
  <2>2. k >= 1 => k * SectorsPerCluster >= SectorsPerCluster
    BY <1>1, <2>1
  <2>3. k <= -1 => k * SectorsPerCluster <= 0 - SectorsPerCluster
    BY <1>1, <2>1
  <2> QED BY <1>1, <2>1, <2>2, <2>3
<1>5. ClusterOf(x) = q
  BY <1>2, <1>4
<1>6. OffsetOf(x) - r = 0
  BY <1>1, <1>3, <1>4
<1> QED BY <1>1, <1>2, <1>5, <1>6

LEMMA NextClusterAligned ==
  ASSUME NEW x \in Nat, OffsetOf(x) = 0
  PROVE  OffsetOf(x + SectorsPerCluster) = 0
<1>1. SectorsPerCluster \in Nat \ {0} /\ 0 \in Offset
  BY GeometryAssumption DEF Offset
<1>2. x = ClusterOf(x) * SectorsPerCluster /\ ClusterOf(x) \in Nat
  BY <1>1 DEF ClusterOf, OffsetOf
<1>3. x + SectorsPerCluster = (ClusterOf(x) + 1) * SectorsPerCluster + 0
  BY <1>1, <1>2
<1> QED BY <1>1, <1>2, <1>3, DivUnique

LEMMA ChunkInCluster ==
  ASSUME Typed, LoopAligned, pc \in {"read", "write"}
  PROVE  /\ ChunkSectors \subseteq SectorsOf(ClusterOf(curr_sct))
         /\ ClusterOf(curr_sct) \in Cluster
<1>1. /\ curr_sct \in Sector /\ ChunkCount \in Nat /\ ChunkSectors \subseteq Sector
      /\ ChunkCount <= SectorsPerCluster /\ ChunkCount <= count
      /\ count \in Nat
  BY ChunkFacts DEF Typed, LoopOK
<1>2. /\ ClusterOf(curr_sct) \in Cluster /\ OffsetOf(curr_sct) \in Offset
      /\ curr_sct = ClusterOf(curr_sct) * SectorsPerCluster + OffsetOf(curr_sct)
  BY <1>1, DivMod
<1>3. OffsetOf(curr_sct) + ChunkCount <= SectorsPerCluster
  BY <1>1, <1>2, GeometryAssumption DEF LoopAligned, Offset
<1>4. ASSUME NEW x \in ChunkSectors
      PROVE  x \in SectorsOf(ClusterOf(curr_sct))
  <2> DEFINE r == OffsetOf(curr_sct) + (x - curr_sct)
  <2>1. x \in Nat /\ x \in Sector /\ curr_sct \in Nat /\ ClusterOf(curr_sct) \in Nat
        /\ x >= curr_sct /\ x < curr_sct + ChunkCount
    BY <1>1, <1>2, <1>4 DEF ChunkSectors, Sector, Cluster
  <2>2. r \in Offset
    BY <1>1, <1>2, <1>3, <2>1, GeometryAssumption DEF Offset
  <2>3. x = ClusterOf(curr_sct) * SectorsPerCluster + r
    <3> DEFINE p == ClusterOf(curr_sct) * SectorsPerCluster
    <3>1. p \in Nat
      BY <2>1, GeometryAssumption
    <3>2. curr_sct = p + OffsetOf(curr_sct) /\ OffsetOf(curr_sct) \in Nat
      BY <1>2, GeometryAssumption DEF Offset
    <3> HIDE DEF p
    <3>3. x = p + r
      BY <2>1, <3>1, <3>2
    <3> QED BY <3>3 DEF p
  <2>4. ClusterOf(x) = ClusterOf(curr_sct)
    BY <2>1, <2>2, <2>3, DivUnique
  <2> QED BY <2>1, <2>4 DEF SectorsOf
<1> QED BY <1>2, <1>4

LEMMA StepAligned ==
  ASSUME Typed, LoopAligned, [Next]_vars
  PROVE  LoopAligned'
<1>1. ASSUME pc \in {"read", "write"}, NextChunk, count # ChunkCount
      PROVE  OffsetOf(curr_sct') = 0
  <2>1. count \in Nat /\ ChunkCount < count /\ curr_sct \in Nat
    BY <1>1, ChunkFacts DEF Typed, LoopOK, Sector
  <2>2. ChunkCount = SectorsPerCluster /\ count > SectorsPerCluster
    BY <2>1, GeometryAssumption DEF ChunkCount, MinOf
  <2>3. OffsetOf(curr_sct) = 0
    <3>1. OffsetOf(curr_sct) \in Nat
      BY <2>1, GeometryAssumption DEF OffsetOf
    <3> QED BY <1>1, <2>1, <2>2, <3>1, GeometryAssumption DEF LoopAligned
  <2> QED BY <1>1, <2>1, <2>2, <2>3, NextClusterAligned DEF NextChunk
<1>2. ASSUME NEW x \in Sector, NEW n \in 1 .. MaxCount, NEW kind \in {"read", "write"},
             BeginCall(kind, x, n)
      PROVE  LoopAligned'
  BY <1>2 DEF BeginCall, AlignedRequest, LoopAligned
<1>3. CASE pc \in {"read", "write"} /\ NextChunk /\ count # ChunkCount
  BY <1>1, <1>3 DEF LoopAligned
<1>4. CASE pc' \in {"idle", "finalize"}
  BY <1>4 DEF LoopAligned
<1>5. CASE UNCHANGED <<pc, curr_sct, count>>
  BY <1>5 DEF LoopAligned
<1>6. CASE ReadBlock
  BY <1>3, <1>4, <1>6 DEF ReadBlock, ReadHit, ReadMiss, ReadNext, Return, FailCall
<1>7. CASE WriteBlock
  BY <1>3, <1>4, <1>7 DEF WriteBlock, WriteCached, WriteThrough, WriteNext, Return, FailCall
<1>8. CASE Finalize
  BY <1>4, <1>5, <1>8 DEF Finalize, FinalizeFlush, FinalizeDone, Return
<1>9. \/ \E p \in Part : BisInit(p)
      \/ \E x \in Sector, n \in 1 .. MaxCount, kind \in {"read", "write"} : BeginCall(kind, x, n)
      \/ NotReady \/ ReadBlock \/ WriteBlock \/ Finalize \/ PowerLoss \/ UNCHANGED vars
  BY DEF Next, Step, BeginRead, BeginWrite
<1> QED
  BY <1>2, <1>4, <1>5, <1>6, <1>7, <1>8, <1>9
  DEF BisInit, NotReady, FailCall, Return, PowerLoss, vars, loopVars

-----------------------------------------------------------------------------
(* The contents of the clean slots.                                        *)
Selected == InUse # 0 => system_part \in Part

Clean == Located /\ LoopAligned /\ Selected /\ CleanSlotsMatchEmmc

LEMMA CleanFacts ==
  ASSUME Clean
  PROVE  Typed /\ TypeOK /\ SlotsOwned /\ LookupExact /\ LoopAligned
         /\ Selected /\ CleanSlotsMatchEmmc /\ Located
  BY DEF Clean, Located, Typed

LEMMA StepSelected ==
  ASSUME Clean, [Next]_vars
  PROVE  Selected'
<1>1. ASSUME NEW p \in Part, BisInit(p)
      PROVE  Selected'
  BY <1>1 DEF BisInit, Selected
<1>2. CASE PowerLoss
  BY <1>2 DEF PowerLoss, Selected, InUse
<1>3. CASE UNCHANGED <<system_part, cluster_cache_end_index, cache_filled>>
  BY <1>3, CleanFacts DEF Selected, InUse
<1>4. ASSUME NEW flushOk \in BOOLEAN, NEW readOk \in BOOLEAN, ReadMiss(flushOk, readOk)
      PROVE  Selected'
  BY <1>4, CleanFacts DEF ReadMiss, Selected, TypeOK
<1>5. CASE UNCHANGED vars
  BY <1>3, <1>5 DEF vars, cacheVars
<1>6. CASE Next /\ ~(\E p \in Part : BisInit(p)) /\ ~PowerLoss
           /\ ~\E flushOk \in BOOLEAN, readOk \in BOOLEAN : ReadMiss(flushOk, readOk)
  BY <1>3, <1>6, FaultAssumption
  DEF Next, BeginRead, BeginWrite, BeginCall, Step, NotReady, ReadBlock, ReadHit,
      WriteBlock, WriteCached, WriteThrough, Finalize, FinalizeFlush, FinalizeDone,
      Outcomes, cacheVars
<1> QED BY <1>1, <1>2, <1>4, <1>5, <1>6

(* A write changes nothing outside the sectors it is given.                *)
LEMMA EmmcWriteFrame ==
  ASSUME TypeOK, system_part \in Part, NEW S \in SUBSET Sector, NEW content,
         NEW ok \in BOOLEAN, EmmcWrite(S, content, ok)
  PROVE  /\ \A x \in Sector : emmc'[system_part][x] \in {emmc[system_part][x], content[x]}
         /\ \A x \in Sector \ S : emmc'[system_part][x] = emmc[system_part][x]
         /\ ok => \A x \in S : emmc'[system_part][x] = content[x]
         /\ \A p \in Part : p # system_part => emmc'[p] = emmc[p]
<1>1. PICK stored \in IF ok THEN {S} ELSE SUBSET S :
        emmc' = [emmc EXCEPT ![system_part] =
                   [x \in Sector |-> IF x \in stored THEN content[x] ELSE @[x]]]
  BY DEF EmmcWrite
<1>2. emmc'[system_part] =
        [x \in Sector |-> IF x \in stored THEN content[x] ELSE emmc[system_part][x]]
  BY <1>1 DEF TypeOK
<1>3. stored \subseteq S /\ (ok => stored = S)
  BY <1>1
<1> QED BY <1>1, <1>2, <1>3 DEF TypeOK

(* Writing a dirty slot in use back changes its own cluster only, and      *)
(* only towards what the slot holds.                                       *)
LEMMA FlushFrame ==
  ASSUME Clean, NEW i \in 0 .. InUse - 1, slot_dirty[i], NEW ok \in BOOLEAN,
         FlushToEmmc(i, ok)
  PROVE  /\ system_part \in Part
         /\ \A x \in Sector : emmc'[system_part][x] # emmc[system_part][x] =>
              x \in SectorsOf(slot_cluster[i])
              /\ emmc'[system_part][x] = slot_data[i][OffsetOf(x)]
         /\ ok => \A x \in SectorsOf(slot_cluster[i]) :
                    emmc'[system_part][x] = slot_data[i][OffsetOf(x)]
         /\ \A p \in Part : p # system_part => emmc'[p] = emmc[p]
<1> DEFINE S == SectorsOf(slot_cluster[i])
<1>1. system_part \in Part /\ i \in Slot /\ S \in SUBSET Sector
  BY CleanFacts, InUseSlots DEF Selected, SectorsOf
<1>2. FlushedSlot(i) = i /\ i # Empty
  BY <1>1, CleanFacts, FlushOfDirtySlot, NamesAssumption
<1>3. EmmcWrite(S, SlotContent(i, S), ok)
  BY <1>2 DEF FlushToEmmc
<1>4. \A x \in S : SlotContent(i, S)[x] = slot_data[i][OffsetOf(x)]
  BY DEF SlotContent
<1> HIDE DEF S
<1>5. /\ \A x \in Sector : emmc'[system_part][x] \in {emmc[system_part][x], SlotContent(i, S)[x]}
      /\ \A x \in Sector \ S : emmc'[system_part][x] = emmc[system_part][x]
      /\ ok => \A x \in S : emmc'[system_part][x] = SlotContent(i, S)[x]
      /\ \A p \in Part : p # system_part => emmc'[p] = emmc[p]
  BY <1>1, <1>3, CleanFacts, EmmcWriteFrame
<1> QED BY <1>1, <1>4, <1>5 DEF S

(* Sectors of another slot in use are not touched by a write-back.         *)
LEMMA OtherClusters ==
  ASSUME Clean, NEW i \in 0 .. InUse - 1, NEW k \in 0 .. InUse - 1, i # k,
         NEW x \in SectorsOf(slot_cluster[k])
  PROVE  x \in Sector /\ x \notin SectorsOf(slot_cluster[i])
  BY CleanFacts, OwnersDiffer DEF SectorsOf

LEMMA ReadMissClean ==
  ASSUME Clean, NEW flushOk \in BOOLEAN, ReadMiss(flushOk, TRUE)
  PROVE  CleanSlotsMatchEmmc'
<1> DEFINE c == ClusterOf(curr_sct)
           e == NextSlot
<1>1. /\ Typed /\ TypeOK /\ e \in Slot /\ c \in Cluster
      /\ slot_cluster' = [slot_cluster EXCEPT ![e] = c]
      /\ system_part' = system_part
  BY CleanFacts, ReadMissFacts DEF ReadMiss
<1>2. SUFFICES ASSUME NEW i \in 0 .. InUse' - 1, ~slot_dirty'[i],
                      NEW x \in SectorsOf(slot_cluster'[i])
               PROVE  slot_data'[i][OffsetOf(x)] = emmc'[system_part][x]
  BY <1>1 DEF CleanSlotsMatchEmmc
<1>3. slot_data' = [slot_data EXCEPT ![e] =
        [o \in Offset |-> emmc'[system_part][c * SectorsPerCluster + o]]]
  BY DEF ReadMiss
<1>4. CASE i = e
  <2>1. x \in Sector /\ ClusterOf(x) = c
    BY <1>1, <1>2, <1>4 DEF SectorsOf, TypeOK
  <2>2. OffsetOf(x) \in Offset /\ x = c * SectorsPerCluster + OffsetOf(x)
    BY <2>1, DivMod
  <2> QED BY <1>1, <1>3, <1>4, <2>2 DEF TypeOK
<1>5. CASE i # e
  <2>1. i \in 0 .. InUse - 1 /\ slot_cluster'[i] = slot_cluster[i]
    BY <1>2, <1>5, CleanFacts, ReadMissOwned
  <2>2. i \in Slot
    BY <1>1, <2>1, InUseSlots
  <2>3. slot_data'[i] = slot_data[i]
    BY <1>1, <1>3, <1>5, <2>2 DEF TypeOK
  <2>4. Evicts => e \in 0 .. InUse - 1 /\ slot_dirty[e]
    BY <1>1, NextSlotFacts, GeometryAssumption DEF Evicts, Slot
  <2>5. ~slot_dirty[i]
    <3>1. Evicts => DirtyAfterFlush(e, flushOk) = [slot_dirty EXCEPT ![e] = ~flushOk]
      BY <2>4, CleanFacts, FlushOfDirtySlot
    <3>2. slot_dirty' = [(IF Evicts THEN DirtyAfterFlush(e, flushOk) ELSE slot_dirty)
                           EXCEPT ![e] = FALSE]
      BY DEF ReadMiss
    <3> QED BY <1>1, <1>2, <1>5, <2>2, <3>1, <3>2 DEF TypeOK
  <2>6. slot_data[i][OffsetOf(x)] = emmc[system_part][x] /\ x \in SectorsOf(slot_cluster[i])
    BY <1>2, <2>1, <2>5, CleanFacts DEF CleanSlotsMatchEmmc
  <2>7. emmc'[system_part][x] = emmc[system_part][x]
    <3>1. CASE Evicts
      <4>1. FlushToEmmc(e, flushOk)
        BY <3>1 DEF ReadMiss
      <4>2. x \in Sector /\ x \notin SectorsOf(slot_cluster[e])
        BY <1>5, <2>1, <2>4, <2>6, <3>1, OtherClusters
      <4> QED BY <2>4, <3>1, <4>1, <4>2, FlushFrame
    <3>2. CASE ~Evicts
      BY <3>2 DEF ReadMiss
    <3> QED BY <3>1, <3>2
  <2> QED BY <2>3, <2>6, <2>7
<1> QED BY <1>4, <1>5

LEMMA WriteCachedClean ==
  ASSUME Clean, NEW data, WriteCached(data)
  PROVE  CleanSlotsMatchEmmc'
<1> DEFINE i == cluster_lookup[ClusterOf(curr_sct)]
<1>1. TypeOK /\ i \in Slot
  BY CleanFacts, ChunkFacts, DivMod DEF WriteCached, TypeOK
<1>2. /\ slot_dirty' = [slot_dirty EXCEPT ![i] = TRUE]
      /\ UNCHANGED <<emmc, system_part, slot_cluster, cluster_cache_end_index, cache_filled>>
      /\ \A k \in Slot : k # i => slot_data'[k] = slot_data[k]
  BY <1>1 DEF WriteCached, TypeOK
<1>3. InUse' = InUse
  BY <1>2 DEF InUse
<1>4. \A k \in 0 .. InUse - 1 : ~slot_dirty'[k] => ~slot_dirty[k] /\ slot_data'[k] = slot_data[k]
  BY <1>1, <1>2, InUseSlots DEF TypeOK
<1> QED BY <1>2, <1>3, <1>4, CleanFacts DEF CleanSlotsMatchEmmc, SectorsOf

LEMMA WriteThroughClean ==
  ASSUME Clean, NEW data, NEW ok \in BOOLEAN, WriteThrough(data, ok)
  PROVE  CleanSlotsMatchEmmc'
<1> DEFINE c == ClusterOf(curr_sct)
<1>1. /\ cluster_lookup[c] = Empty /\ system_part \in Part
      /\ EmmcWrite(ChunkSectors, data, ok)
      /\ UNCHANGED <<system_part, cacheVars>>
      /\ pc = "write"
  BY CleanFacts DEF WriteThrough, TypeOK
<1>2. ChunkSectors \subseteq SectorsOf(c) /\ ChunkSectors \in SUBSET Sector
  BY <1>1, CleanFacts, ChunkInCluster DEF SectorsOf
<1>3. \A x \in Sector \ ChunkSectors : emmc'[system_part][x] = emmc[system_part][x]
  BY <1>1, <1>2, CleanFacts, EmmcWriteFrame
<1>4. \A k \in 0 .. InUse - 1 : slot_cluster[k] # c
  BY <1>1, CleanFacts, InUseSlots, NamesAssumption DEF SlotsOwned
<1>5. \A k \in 0 .. InUse - 1 : \A x \in SectorsOf(slot_cluster[k]) :
        emmc'[system_part][x] = emmc[system_part][x]
  BY <1>2, <1>3, <1>4 DEF SectorsOf
<1> QED BY <1>1, <1>5, CleanFacts DEF CleanSlotsMatchEmmc, InUse, SectorsOf, cacheVars

LEMMA FinalizeFlushClean ==
  ASSUME Clean, NEW i \in Slot, NEW ok \in BOOLEAN, FinalizeFlush(i, ok)
  PROVE  CleanSlotsMatchEmmc'
<1>1. i \in 0 .. InUse - 1 /\ slot_dirty[i] /\ FlushToEmmc(i, ok) /\ TypeOK
  BY CleanFacts DEF FinalizeFlush, NextDirty, TypeOK
<1>2. /\ UNCHANGED <<system_part, slot_cluster, slot_data, cluster_cache_end_index, cache_filled>>
      /\ slot_dirty' = [slot_dirty EXCEPT ![i] = ~ok]
  BY <1>1, CleanFacts, FlushOfDirtySlot DEF FinalizeFlush
<1>3. InUse' = InUse
  BY <1>2 DEF InUse
<1>4. SUFFICES ASSUME NEW k \in 0 .. InUse - 1, ~slot_dirty'[k],
                      NEW x \in SectorsOf(slot_cluster[k])
               PROVE  slot_data[k][OffsetOf(x)] = emmc'[system_part][x]
  BY <1>2, <1>3 DEF CleanSlotsMatchEmmc, SectorsOf
<1>5. CASE k = i
  <2>1. ok
    BY <1>1, <1>2, <1>4, <1>5, InUseSlots DEF TypeOK
  <2> QED BY <1>1, <1>4, <1>5, <2>1, FlushFrame
<1>6. CASE k # i
  <2>1. ~slot_dirty[k]
    BY <1>1, <1>2, <1>4, <1>6, InUseSlots DEF TypeOK
  <2>2. slot_data[k][OffsetOf(x)] = emmc[system_part][x]
    BY <1>4, <2>1, CleanFacts DEF CleanSlotsMatchEmmc
  <2>3. x \in Sector /\ x \notin SectorsOf(slot_cluster[i])
    BY <1>1, <1>4, <1>6, OtherClusters
  <2>4. emmc'[system_part][x] = emmc[system_part][x]
    BY <1>1, <2>3, FlushFrame
  <2> QED BY <2>2, <2>4
<1> QED BY <1>5, <1>6

LEMMA StepClean ==
  ASSUME ReadsMayFail = FALSE, Clean, [Next]_vars
  PROVE  CleanSlotsMatchEmmc'
<1>1. ASSUME NEW p \in Part, BisInit(p)
      PROVE  CleanSlotsMatchEmmc'
  BY <1>1 DEF BisInit, CleanSlotsMatchEmmc, InUse
<1>2. CASE PowerLoss
  BY <1>2 DEF PowerLoss, CleanSlotsMatchEmmc, InUse
<1>3. CASE UNCHANGED <<emmc, system_part, cacheVars>>
  BY <1>3, CleanFacts DEF cacheVars, CleanSlotsMatchEmmc, InUse, SectorsOf
<1>4. CASE ReadBlock
  BY <1>3, <1>4, ReadMissClean, FaultAssumption DEF ReadBlock, ReadHit, Outcomes
<1>5. CASE WriteBlock
  BY <1>5, WriteCachedClean, WriteThroughClean, FaultAssumption DEF WriteBlock, Outcomes
<1>6. CASE Finalize
  BY <1>3, <1>6, FinalizeFlushClean, FaultAssumption DEF Finalize, FinalizeDone, Outcomes
<1>7. \/ \E p \in Part : BisInit(p)
      \/ PowerLoss \/ UNCHANGED <<emmc, system_part, cacheVars>>
      \/ ReadBlock \/ WriteBlock \/ Finalize
  BY DEF Next, BeginRead, BeginWrite, BeginCall, Step, NotReady, vars
<1> QED BY <1>1, <1>2, <1>4, <1>5, <1>6, <1>3, <1>7

LEMMA InitClean ==
  ASSUME Init
  PROVE  Clean
<1>1. Located
  BY InitType, InitOwned, EmptyTableExact DEF Init, Located
<1>2. InUse = 0
  BY DEF Init, InUse
<1>3. LoopAligned /\ Selected /\ CleanSlotsMatchEmmc
  BY <1>2 DEF Init, LoopAligned, Selected, CleanSlotsMatchEmmc
<1> QED BY <1>1, <1>3 DEF Clean

LEMMA CleanInductive ==
  ASSUME ReadsMayFail = FALSE, Clean, [Next]_vars
  PROVE  Clean'
<1>1. Located'
  BY CleanFacts, StepType, StepOwned, StepExact DEF Located
<1> QED BY <1>1, CleanFacts, StepAligned, StepSelected, StepClean DEF Clean

(* While no read of the eMMC fails, a slot that is not flagged dirty holds *)
(* what the eMMC holds, although writes may fail half way: whatever        *)
(* differs from the eMMC is still scheduled to be written back.            *)
THEOREM CleanSlots ==
  ASSUME ReadsMayFail = FALSE
  PROVE  Spec => []CleanSlotsMatchEmmc
<1>1. Init => Clean
  BY InitClean
<1>2. Clean /\ [Next]_vars => Clean'
  BY CleanInductive
<1>3. Clean => CleanSlotsMatchEmmc
  BY CleanFacts
<1> QED BY <1>1, <1>2, <1>3, PTL DEF Spec

-----------------------------------------------------------------------------
(* The two halves of the step OnlyClientData allows: what the eMMC takes,  *)
(* and what a read would return.                                           *)
StoredStep ==
  \A p \in Part, x \in Sector : emmc'[p][x] # emmc[p][x] =>
    (p = system_part /\ emmc'[p][x] = Seen(p, x)) \/ BeingWritten(p, x)

SeenStep ==
  \A p \in Part, x \in Sector : Seen(p, x)' # Seen(p, x) =>
    Seen(p, x)' = emmc'[p][x] \/ BeingWritten(p, x)

LEMMA FlushStores ==
  ASSUME Clean, NEW i \in 0 .. InUse - 1, slot_dirty[i], NEW ok \in BOOLEAN,
         FlushToEmmc(i, ok)
  PROVE  StoredStep
<1>1. SUFFICES ASSUME NEW p \in Part, NEW x \in Sector, emmc'[p][x] # emmc[p][x]
               PROVE  p = system_part /\ emmc'[p][x] = Seen(p, x)
  BY DEF StoredStep
<1>2. p = system_part
  BY <1>1, FlushFrame
<1>3. x \in SectorsOf(slot_cluster[i]) /\ emmc'[p][x] = slot_data[i][OffsetOf(x)]
  BY <1>1, <1>2, FlushFrame
<1>4. cluster_lookup[ClusterOf(x)] = i /\ i # Empty
  BY <1>3, CleanFacts, InUseSlots, NamesAssumption DEF SlotsOwned, SectorsOf
<1>5. Seen(p, x) = slot_data[i][OffsetOf(x)]
  BY <1>2, <1>4 DEF Seen
<1> QED BY <1>2, <1>3, <1>5

LEMMA StepStores ==
  ASSUME ReadsMayFail = FALSE, Clean, [Next]_vars
  PROVE  StoredStep
<1>1. CASE UNCHANGED emmc
  BY <1>1 DEF StoredStep
<1>2. ASSUME NEW flushOk \in BOOLEAN, NEW readOk \in BOOLEAN, ReadMiss(flushOk, readOk)
      PROVE  StoredStep
  <2>1. CASE Evicts
    <3>1. NextSlot \in 0 .. InUse - 1 /\ slot_dirty[NextSlot]
      BY <2>1, CleanFacts, NextSlotFacts, GeometryAssumption DEF Evicts, Slot
    <3> QED BY <1>2, <2>1, <3>1, FlushStores DEF ReadMiss
  <2>2. CASE ~Evicts
    BY <1>1, <1>2, <2>2 DEF ReadMiss
  <2> QED BY <2>1, <2>2
<1>3. ASSUME NEW data, NEW ok \in BOOLEAN, WriteThrough(data, ok)
      PROVE  StoredStep
  <2>1. /\ system_part \in Part /\ EmmcWrite(ChunkSectors, data, ok)
        /\ pc = "write" /\ ChunkSectors \in SUBSET Sector
    BY <1>3, CleanFacts, ChunkFacts DEF WriteThrough, TypeOK
  <2> QED BY <2>1, CleanFacts, EmmcWriteFrame DEF StoredStep, BeingWritten
<1>4. ASSUME NEW i \in Slot, NEW ok \in BOOLEAN, FinalizeFlush(i, ok)
      PROVE  StoredStep
  <2>1. i \in 0 .. InUse - 1 /\ slot_dirty[i] /\ FlushToEmmc(i, ok)
    BY <1>4, CleanFacts DEF FinalizeFlush, NextDirty, TypeOK
  <2> QED BY <2>1, FlushStores
<1>5. \/ UNCHANGED emmc
      \/ \E flushOk \in BOOLEAN, readOk \in BOOLEAN : ReadMiss(flushOk, readOk)
      \/ \E data \in [ChunkSectors -> Value], ok \in BOOLEAN : WriteThrough(data, ok)
      \/ \E i \in Slot, ok \in BOOLEAN : FinalizeFlush(i, ok)
  BY FaultAssumption
  DEF Next, BisInit, BeginRead, BeginWrite, BeginCall, Step, NotReady, ReadBlock,
      ReadHit, WriteBlock, WriteCached, Finalize, FinalizeDone, PowerLoss, Outcomes, vars
<1> QED BY <1>1, <1>2, <1>3, <1>4, <1>5

LEMMA SlotsKeptSeen ==
  ASSUME UNCHANGED <<system_part, cluster_lookup, slot_data>>
  PROVE  SeenStep
  BY DEF SeenStep, Seen

LEMMA EmptyTableSeen ==
  ASSUME cluster_lookup' = EmptyLookup
  PROVE  SeenStep
<1>1. \A x \in Sector : cluster_lookup'[ClusterOf(x)] = Empty
  BY DivMod DEF EmptyLookup
<1> QED BY <1>1 DEF SeenStep, Seen

(* A miss changes what is read only in the cluster it fetches and the one  *)
(* it evicts, and there to what the eMMC holds.                            *)
LEMMA ReadMissSeen ==
  ASSUME Clean, NEW flushOk \in BOOLEAN, ReadMiss(flushOk, TRUE)
  PROVE  SeenStep
<1> DEFINE c == ClusterOf(curr_sct)
           e == NextSlot
<1>1. /\ TypeOK /\ LookupExact /\ e \in Slot /\ c \in Cluster
      /\ cluster_lookup' = [LookupFreed EXCEPT ![c] = e]
      /\ ~Filled => InUse = e
      /\ system_part' = system_part
  BY CleanFacts, ReadMissFacts DEF ReadMiss
<1>2. slot_data' = [slot_data EXCEPT ![e] =
        [o \in Offset |-> emmc'[system_part][c * SectorsPerCluster + o]]]
  BY DEF ReadMiss
<1>3. SUFFICES ASSUME NEW p \in Part, NEW x \in Sector
               PROVE  Seen(p, x)' = emmc'[p][x] \/ Seen(p, x)' = Seen(p, x)
  BY DEF SeenStep
<1> DEFINE d == ClusterOf(x)
<1>4. d \in Cluster /\ OffsetOf(x) \in Offset /\ x = d * SectorsPerCluster + OffsetOf(x)
  BY DivMod
<1>5. CASE p # system_part
  BY <1>1, <1>5 DEF Seen
<1>6. CASE p = system_part /\ d = c
  <2>1. cluster_lookup'[d] = e /\ e # Empty
    BY <1>1, <1>6, LookupFreedType, NamesAssumption
  <2>2. slot_data'[e][OffsetOf(x)] = emmc'[system_part][x]
    BY <1>1, <1>2, <1>4, <1>6 DEF TypeOK
  <2> QED BY <1>1, <1>6, <2>1, <2>2 DEF Seen
<1>7. CASE p = system_part /\ d # c
  <2>1. cluster_lookup'[d] = LookupFreed[d]
    BY <1>1, <1>4, <1>7, LookupFreedType
  <2>2. CASE cluster_lookup'[d] = Empty
    BY <2>2 DEF Seen
  <2>3. CASE cluster_lookup'[d] # Empty
    <3>1. cluster_lookup'[d] = cluster_lookup[d]
      BY <1>1, <1>4, <2>1, <2>3 DEF LookupFreed, TypeOK
    <3>2. /\ cluster_lookup[d] \in Slot /\ cluster_lookup[d] < InUse
          /\ slot_cluster[cluster_lookup[d]] = d
      BY <1>1, <1>4, <2>3, <3>1 DEF LookupExact, ServedFromOwnSlot, TypeOK
    <3>3. cluster_lookup[d] # e
      <4>1. CASE Filled
        BY <1>1, <1>4, <2>1, <2>3, <3>1, <3>2, <4>1 DEF LookupFreed, TypeOK
      <4>2. CASE ~Filled
        BY <1>1, <3>2, <4>2 DEF Slot
      <4> QED BY <4>1, <4>2
    <3>4. slot_data'[cluster_lookup[d]] = slot_data[cluster_lookup[d]]
      BY <1>1, <1>2, <3>2, <3>3 DEF TypeOK
    <3> QED BY <1>1, <1>7, <2>3, <3>1, <3>4 DEF Seen
  <2> QED BY <2>2, <2>3
<1> QED BY <1>5, <1>6, <1>7

(* A cached write changes the sectors of its block, in a slot that serves  *)
(* no other cluster.                                                       *)
LEMMA WriteCachedSeen ==
  ASSUME Clean, NEW data, WriteCached(data)
  PROVE  SeenStep
<1> DEFINE c == ClusterOf(curr_sct)
           i == cluster_lookup[c]
<1>1. /\ TypeOK /\ LookupExact /\ c \in Cluster /\ i \in Slot
      /\ pc = "write" /\ UNCHANGED <<system_part, cluster_lookup>>
  BY CleanFacts, ChunkFacts, DivMod DEF WriteCached, TypeOK
<1>2. slot_data' = [slot_data EXCEPT ![i] =
        [o \in Offset |-> LET y == c * SectorsPerCluster + o
                          IN IF y \in ChunkSectors THEN data[y] ELSE @[o]]]
  BY DEF WriteCached
<1>3. SUFFICES ASSUME NEW p \in Part, NEW x \in Sector, Seen(p, x)' # Seen(p, x)
               PROVE  BeingWritten(p, x)
  BY DEF SeenStep
<1> DEFINE d == ClusterOf(x)
<1>4. d \in Cluster /\ OffsetOf(x) \in Offset /\ x = d * SectorsPerCluster + OffsetOf(x)
  BY DivMod
<1>5. CASE p # system_part \/ cluster_lookup[d] = Empty
  BY <1>1, <1>3, <1>5 DEF Seen, WriteCached
<1>6. CASE p = system_part /\ cluster_lookup[d] # Empty
  <2>1. cluster_lookup[d] \in Slot /\ slot_cluster[cluster_lookup[d]] = d
    BY <1>1, <1>4, <1>6 DEF LookupExact, ServedFromOwnSlot, TypeOK
  <2>2. slot_data'[cluster_lookup[d]][OffsetOf(x)] # slot_data[cluster_lookup[d]][OffsetOf(x)]
    BY <1>1, <1>3, <1>6 DEF Seen
  <2>3. cluster_lookup[d] = i
    BY <1>1, <1>2, <2>1, <2>2 DEF TypeOK
  <2>4. d = c
    BY <1>1, <2>1, <2>3, NamesAssumption DEF LookupExact, ServedFromOwnSlot
  <2>5. x \in ChunkSectors
    BY <1>1, <1>2, <1>4, <2>2, <2>3, <2>4 DEF TypeOK
  <2> QED BY <1>1, <1>6, <2>5 DEF BeingWritten
<1> QED BY <1>5, <1>6

LEMMA StepSeen ==
  ASSUME ReadsMayFail = FALSE, Clean, [Next]_vars
  PROVE  SeenStep
<1>1. CASE UNCHANGED <<system_part, cluster_lookup, slot_data>>
  BY <1>1, SlotsKeptSeen
<1>2. CASE cluster_lookup' = EmptyLookup
  BY <1>2, EmptyTableSeen
<1>3. ASSUME NEW flushOk \in BOOLEAN, ReadMiss(flushOk, TRUE)
      PROVE  SeenStep
  BY <1>3, ReadMissSeen
<1>4. ASSUME NEW data, WriteCached(data)
      PROVE  SeenStep
  BY <1>4, WriteCachedSeen
<1>5. \/ UNCHANGED <<system_part, cluster_lookup, slot_data>>
      \/ cluster_lookup' = EmptyLookup
      \/ \E flushOk \in BOOLEAN : ReadMiss(flushOk, TRUE)
      \/ \E data \in [ChunkSectors -> Value] : WriteCached(data)
  BY FaultAssumption
  DEF Next, BisInit, BeginRead, BeginWrite, BeginCall, Step, NotReady, ReadBlock, ReadHit,
      WriteBlock, WriteThrough, Finalize, FinalizeFlush, FinalizeDone, PowerLoss,
      Outcomes, vars, cacheVars
<1> QED BY <1>1, <1>2, <1>3, <1>4, <1>5

(* While no read of the eMMC fails, contents only come from the client:    *)
(* writing part of a cluster never disturbs the rest of it, nor another    *)
(* cluster or partition, and taking a slot from one cluster for another    *)
(* never changes what is read, except to what the eMMC holds; even when    *)
(* writes fail half way.                                                   *)
THEOREM EmmcTakesClientDataOnly ==
  ASSUME ReadsMayFail = FALSE
  PROVE  Spec => OnlyClientData
<1>1. Init => Clean
  BY InitClean
<1>2. Clean /\ [Next]_vars => Clean'
  BY CleanInductive
<1>3. Clean /\ [Next]_vars => [StoredStep /\ SeenStep]_vars
  BY StepStores, StepSeen
<1>4. Spec => [][StoredStep /\ SeenStep]_vars
  BY <1>1, <1>2, <1>3, PTL DEF Spec
<1>5. StoredStep /\ SeenStep =>
        \A p \in Part, x \in Sector :
          /\ emmc'[p][x] # emmc[p][x] =>
               (p = system_part /\ emmc'[p][x] = Seen(p, x)) \/ BeingWritten(p, x)
          /\ Seen(p, x)' # Seen(p, x) =>
               Seen(p, x)' = emmc'[p][x] \/ BeingWritten(p, x)
  BY DEF StoredStep, SeenStep
<1> QED BY <1>4, <1>5, PTL DEF OnlyClientData
-----------------------------------------------------------------------------
(* What is dirty while no access to the eMMC fails: nothing but between    *)
(* the blocks of a write, and then exactly what finalize will count down.  *)
Flushed ==
  /\ dirty_cluster_count = Cardinality(DirtySlots(0))
  /\ pc \in {"idle", "read"} => DirtySlots(0) = {}
  /\ pc = "finalize" => /\ clusters_to_flush = dirty_cluster_count
                        /\ DirtySlots(fin_i) = DirtySlots(0)

Swept == Clean /\ Flushed

LEMMA NothingSelected ==
  ASSUME Swept, system_part = NoPart
  PROVE  DirtySlots(0) = {}
<1>1. InUse = 0
  BY CleanFacts, NamesAssumption DEF Swept, Selected
<1> QED BY <1>1 DEF DirtySlots

(* The steps that leave the slots alone.                                   *)
LEMMA QuietFlushed ==
  ASSUME Swept, UNCHANGED dirtyVars,
         pc' \in {"idle", "read"} => DirtySlots(0) = {},
         pc' = "finalize" => \/ UNCHANGED <<pc, fin_i, clusters_to_flush>>
                             \/ fin_i' = 0 /\ clusters_to_flush' = dirty_cluster_count'
  PROVE  Flushed'
<1>1. UNCHANGED InUse
  BY DEF dirtyVars, InUse
<1>2. DirtySlots(0)' = DirtySlots(0)
  BY <1>1 DEF dirtyVars, DirtySlots
<1>3. UNCHANGED fin_i => DirtySlots(fin_i)' = DirtySlots(fin_i)
  BY <1>1 DEF dirtyVars, DirtySlots
<1>4. fin_i' = 0 => DirtySlots(fin_i)' = DirtySlots(0)
  BY <1>1 DEF dirtyVars, DirtySlots
<1> QED BY <1>2, <1>3, <1>4 DEF Swept, Flushed, dirtyVars

(* The steps after which no slot is in use.                                *)
LEMMA EmptyFlushed ==
  ASSUME (dirty_cluster_count = 0 /\ ~cache_filled /\ cluster_cache_end_index = 0
          /\ pc = "idle")'
  PROVE  Flushed'
<1>1. DirtySlots(0)' = {}
  BY DEF DirtySlots, InUse
<1> QED BY <1>1, FS_EmptySet DEF Flushed

(* A miss finds nothing to write back: its slot joins those in use clean.  *)
LEMMA ReadMissFlushed ==
  ASSUME Swept, NEW flushOk \in BOOLEAN, NEW readOk \in BOOLEAN,
         ReadMiss(flushOk, readOk)
  PROVE  Flushed'
<1> DEFINE e == NextSlot
<1>1. Typed /\ TypeOK /\ SlotsOwned /\ e \in Slot /\ Flushed
  BY CleanFacts, NextSlotFacts DEF Swept
<1>2. pc = "read" /\ DirtySlots(0) = {}
  BY <1>1 DEF ReadMiss, Flushed
<1>3. ~Evicts
  BY <1>1, <1>2, NextSlotFacts DEF Evicts, DirtySlots, Slot
<1>4. slot_dirty' = [slot_dirty EXCEPT ![e] = FALSE] /\ UNCHANGED dirty_cluster_count
  BY <1>3 DEF ReadMiss
<1>5. DirtySlots(0)' = {}
  <2>1. SUFFICES ASSUME NEW i \in 0 .. InUse' - 1, slot_dirty'[i]
                 PROVE  FALSE
    BY DEF DirtySlots
  <2>2. i # e
    BY <1>1, <1>4, <2>1 DEF TypeOK
  <2>3. i \in 0 .. InUse - 1 /\ i \in Slot
    BY <1>1, <2>1, <2>2, ReadMissOwned, InUseSlots
  <2>4. slot_dirty[i]
    BY <1>1, <1>4, <2>1, <2>2, <2>3 DEF TypeOK
  <2> QED BY <1>2, <2>3, <2>4 DEF DirtySlots
<1>6. pc' # "finalize"
  BY DEF ReadMiss, ReadNext, Return, FailCall
<1> QED BY <1>1, <1>2, <1>4, <1>5, <1>6 DEF Flushed

LEMMA WriteNextStops ==
  ASSUME WriteNext, pc = "write"
  PROVE  /\ pc' \in {"idle", "read"} => dirty_cluster_count' = 0
         /\ pc' = "finalize" => fin_i' = 0 /\ clusters_to_flush' = dirty_cluster_count'
  BY DEF WriteNext, Return

LEMMA WriteCachedFlushed ==
  ASSUME Swept, NEW data, WriteCached(data)
  PROVE  Flushed'
<1> DEFINE i == cluster_lookup[ClusterOf(curr_sct)]
<1>1. Typed /\ TypeOK /\ LookupExact /\ Flushed
  BY CleanFacts DEF Swept
<1>2. i \in Slot /\ i \in 0 .. InUse - 1
  <2>1. ClusterOf(curr_sct) \in Cluster /\ i # Empty
    BY <1>1, ChunkFacts, DivMod DEF WriteCached
  <2>2. i \in Slot /\ i < InUse
    BY <1>1, <2>1 DEF LookupExact, TypeOK
  <2>3. InUse \in Int
    BY <1>1, GeometryAssumption DEF TypeOK, InUse
  <2> QED BY <2>2, <2>3, GeometryAssumption DEF Slot
<1>3. /\ slot_dirty' = [slot_dirty EXCEPT ![i] = TRUE]
      /\ dirty_cluster_count' = IF slot_dirty[i] THEN dirty_cluster_count
                                                 ELSE dirty_cluster_count + 1
      /\ WriteNext /\ pc = "write"
  BY DEF WriteCached
<1>4. InUse' = InUse
  BY DEF WriteCached, InUse
<1>5. DirtySlots(0)' = DirtySlots(0) \cup {i}
  BY <1>1, <1>2, <1>3, <1>4, InUseSlots DEF DirtySlots, TypeOK
<1>6. i \in DirtySlots(0) <=> slot_dirty[i]
  BY <1>2 DEF DirtySlots
<1>7. IsFiniteSet(DirtySlots(0)) /\ dirty_cluster_count = Cardinality(DirtySlots(0))
  BY <1>1, DirtyFinite DEF Flushed
<1>8. IsFiniteSet(DirtySlots(0)') /\ dirty_cluster_count' = Cardinality(DirtySlots(0)')
  BY <1>3, <1>5, <1>6, <1>7, FS_AddElement
<1>9. /\ pc' \in {"idle", "read"} => DirtySlots(0)' = {}
      /\ pc' = "finalize" => fin_i' = 0 /\ clusters_to_flush' = dirty_cluster_count'
  BY <1>3, <1>8, WriteNextStops, FS_EmptySet
<1>10. fin_i' = 0 => DirtySlots(fin_i)' = DirtySlots(0)'
  BY DEF DirtySlots
<1> QED BY <1>8, <1>9, <1>10 DEF Flushed

LEMMA FinalizeFlushFlushed ==
  ASSUME Swept, NEW i \in Slot, FinalizeFlush(i, TRUE)
  PROVE  Flushed'
<1>1. Typed /\ TypeOK /\ SlotsOwned /\ Flushed
  BY CleanFacts DEF Swept
<1>2. /\ fin_i \in Nat /\ i \in Nat /\ InUse \in Int
      /\ i \in fin_i .. InUse - 1 /\ slot_dirty[i] /\ pc = "finalize"
      /\ \A k \in fin_i .. i - 1 : ~slot_dirty[k]
  BY <1>1, GeometryAssumption DEF TypeOK, FinalizeFlush, NextDirty, InUse
<1>3. i \in 0 .. InUse - 1
  BY <1>2
<1>4. /\ slot_dirty' = [slot_dirty EXCEPT ![i] = FALSE]
      /\ dirty_cluster_count' = dirty_cluster_count - 1
      /\ fin_i' = i + 1 /\ clusters_to_flush' = clusters_to_flush - 1
      /\ pc' = "finalize"
  BY <1>1, <1>2, <1>3, FlushOfDirtySlot DEF FinalizeFlush
<1>5. InUse' = InUse
  BY DEF FinalizeFlush, InUse
<1>6. DirtySlots(0)' = DirtySlots(0) \ {i} /\ i \in DirtySlots(0)
  BY <1>1, <1>2, <1>3, <1>4, <1>5, InUseSlots DEF DirtySlots, TypeOK
<1>7. DirtySlots(fin_i) = DirtySlots(0) /\ clusters_to_flush = dirty_cluster_count
      /\ dirty_cluster_count = Cardinality(DirtySlots(0))
  BY <1>1, <1>2 DEF Flushed
<1>8. DirtySlots(fin_i)' = DirtySlots(0)'
  <2>1. \A k \in DirtySlots(0)' : k \in fin_i .. InUse - 1 /\ slot_dirty[k] /\ k # i
    BY <1>6, <1>7 DEF DirtySlots
  <2>2. \A k \in DirtySlots(0)' : k \in i + 1 .. InUse - 1
    BY <1>2, <2>1
  <2>3. DirtySlots(0)' \subseteq DirtySlots(fin_i)'
    BY <1>4, <1>5, <2>2 DEF DirtySlots
  <2>4. DirtySlots(fin_i)' \subseteq DirtySlots(0)'
    BY <1>2, <1>4 DEF DirtySlots
  <2> QED BY <2>3, <2>4
<1>9. dirty_cluster_count' = Cardinality(DirtySlots(0)')
  BY <1>1, <1>4, <1>6, <1>7, DirtyFinite, FS_RemoveElement
<1> QED BY <1>4, <1>7, <1>8, <1>9 DEF Flushed

(* The walk of finalize stops early only where no dirty slot is left.      *)
LEMMA FinalizeSweeps ==
  ASSUME Swept, FinalizeDone
  PROVE  DirtySlots(0) = {}
<1>1. Typed /\ TypeOK /\ Flushed /\ pc = "finalize"
  BY CleanFacts DEF Swept, FinalizeDone
<1>2. IsFiniteSet(DirtySlots(0)) /\ dirty_cluster_count = Cardinality(DirtySlots(0))
      /\ clusters_to_flush = dirty_cluster_count /\ DirtySlots(fin_i) = DirtySlots(0)
  BY <1>1, DirtyFinite DEF Flushed
<1>3. CASE clusters_to_flush = 0
  BY <1>2, <1>3, FS_EmptySet
<1>4. ASSUME \A i \in Slot : ~NextDirty(i), DirtySlots(0) # {}
      PROVE  FALSE
  <2>1. DirtySlots(0) \subseteq Nat
    BY DEF DirtySlots
  <2>2. PICK i \in DirtySlots(0) : \A k \in DirtySlots(0) : ~(<<k, i>> \in OpToRel(<, Nat))
    BY <1>4, <2>1, NatLessThanWellFounded, WFMin
  <2>3. \A k \in DirtySlots(0) : ~(k < i)
    BY <2>1, <2>2 DEF OpToRel
  <2>4. i \in Slot /\ i \in fin_i .. InUse - 1 /\ slot_dirty[i]
    BY <1>1, <1>2, <2>2, InUseSlots DEF DirtySlots
  <2>5. ASSUME NEW k \in fin_i .. i - 1, slot_dirty[k]
        PROVE  FALSE
    <3>1. fin_i \in Nat /\ InUse \in Int /\ i \in Nat
      <4>1. fin_i \in Nat /\ InUse \in Int
        BY <1>1, GeometryAssumption DEF TypeOK, InUse
      <4> QED BY <2>1, <4>1
    <3>2. k \in 0 .. InUse - 1 /\ k < i
      BY <2>4, <2>5, <3>1
    <3> QED BY <2>3, <2>5, <3>2 DEF DirtySlots
  <2> QED BY <1>4, <2>4, <2>5 DEF NextDirty
<1> QED BY <1>3, <1>4 DEF FinalizeDone

LEMMA StepFlushed ==
  ASSUME ReadsMayFail = FALSE, WritesMayFail = FALSE, Swept, [Next]_vars
  PROVE  Flushed'
<1>1. ASSUME NEW p \in Part, BisInit(p)
      PROVE  Flushed'
  BY <1>1, EmptyFlushed DEF BisInit
<1>2. CASE PowerLoss
  BY <1>2, EmptyFlushed DEF PowerLoss
<1>3. ASSUME NEW x, NEW n, NEW kind \in {"read", "write"}, BeginCall(kind, x, n)
      PROVE  Flushed'
  <2>1. pc = "idle" /\ DirtySlots(0) = {}
    BY <1>3 DEF BeginCall, Swept, Flushed
  <2> QED BY <1>3, <2>1, QuietFlushed DEF BeginCall, cacheVars, dirtyVars
<1>4. CASE NotReady
  BY <1>4, NothingSelected, QuietFlushed DEF NotReady, FailCall, Return, cacheVars, dirtyVars
<1>5. CASE ReadHit
  <2>1. DirtySlots(0) = {}
    BY <1>5 DEF ReadHit, Swept, Flushed
  <2> QED BY <1>5, <2>1, QuietFlushed DEF ReadHit, ReadNext, Return, cacheVars, dirtyVars
<1>6. CASE ReadBlock
  BY <1>5, <1>6, ReadMissFlushed, FaultAssumption DEF ReadBlock, Outcomes
<1>7. ASSUME NEW data, WriteThrough(data, TRUE)
      PROVE  Flushed'
  <2>1. pc = "write" /\ UNCHANGED dirtyVars /\ WriteNext
    BY <1>7 DEF WriteThrough, cacheVars, dirtyVars
  <2>2. /\ pc' \in {"idle", "read"} => dirty_cluster_count = 0
        /\ pc' = "finalize" => fin_i' = 0 /\ clusters_to_flush' = dirty_cluster_count'
    BY <2>1, WriteNextStops DEF dirtyVars
  <2>3. dirty_cluster_count = 0 => DirtySlots(0) = {}
    BY CleanFacts, DirtyFinite, FS_EmptySet DEF Swept, Flushed
  <2> QED BY <2>1, <2>2, <2>3, QuietFlushed
<1>8. CASE WriteBlock
  BY <1>7, <1>8, WriteCachedFlushed DEF WriteBlock, Outcomes
<1>9. CASE FinalizeDone
  BY <1>9, FinalizeSweeps, QuietFlushed DEF FinalizeDone, Return, cacheVars, dirtyVars
<1>10. CASE Finalize
  BY <1>9, <1>10, FinalizeFlushFlushed DEF Finalize, Outcomes
<1>11. CASE UNCHANGED vars
  <2>1. UNCHANGED dirtyVars /\ UNCHANGED <<pc, fin_i, clusters_to_flush>>
    BY <1>11 DEF vars, cacheVars, loopVars, dirtyVars
  <2> QED BY <2>1, QuietFlushed DEF Swept, Flushed
<1> QED
  BY <1>1, <1>2, <1>3, <1>4, <1>6, <1>8, <1>10, <1>11
  DEF Next, BeginRead, BeginWrite, Step

(* nx_emmc_bis_write leaves nothing behind in the cache while the eMMC     *)
(* obeys: whatever the geometry of the cache and the order of reads,       *)
(* writes and selections, between two calls every slot in use has been     *)
(* written back, so a reset then loses nothing.                            *)
THEOREM NothingStaysDirty ==
  ASSUME ReadsMayFail = FALSE, WritesMayFail = FALSE
  PROVE  Spec => []NothingDirtyBetweenCalls
<1>1. Init => Swept
  <2>1. ASSUME Init PROVE DirtySlots(0) = {} /\ dirty_cluster_count = 0 /\ pc = "idle"
    BY <2>1 DEF Init, DirtySlots, InUse
  <2> QED BY <2>1, InitClean, FS_EmptySet DEF Swept, Flushed
<1>2. Swept /\ [Next]_vars => Swept'
  BY CleanInductive, StepFlushed DEF Swept
<1>3. Swept => NothingDirtyBetweenCalls
  BY CleanFacts, FS_EmptySet DEF Swept, Flushed, NothingDirtyBetweenCalls, TypeOK
<1> QED BY <1>1, <1>2, <1>3, PTL DEF Spec

-----------------------------------------------------------------------------
(***************************************************************************)
(* The cluster cache implements the plain disk of BisDisk while the eMMC   *)
(* obeys: every step of the driver is a step of the disk, or none.         *)
(***************************************************************************)

(* The call in progress, as the disk sees it.                              *)
Op   == IF pc = "finalize" THEN "write" ELSE pc
Todo == curr_sct .. curr_sct + count - 1

(* In finalize the loop of nx_emmc_bis_write is over.                      *)
TailOK == pc = "finalize" => system_part \in Part /\ curr_sct = 0 /\ count = 0

Inv == Swept /\ TailOK

LEMMA InvFacts ==
  ASSUME Inv
  PROVE  /\ Typed /\ TypeOK /\ LookupExact /\ SlotsOwned /\ LoopAligned /\ Selected
         /\ CleanSlotsMatchEmmc /\ Clean /\ Swept /\ Flushed /\ TailOK
  BY CleanFacts DEF Inv, Swept

LEMMA StepTail ==
  ASSUME Inv, [Next]_vars
  PROVE  TailOK'
<1>1. TypeOK /\ TailOK
  BY InvFacts
<1>2. CASE pc' # "finalize"
  BY <1>2 DEF TailOK
<1>3. CASE UNCHANGED <<pc, system_part, curr_sct, count>>
  BY <1>1, <1>3 DEF TailOK
<1>4. CASE pc = "write" /\ system_part # NoPart /\ UNCHANGED system_part /\ WriteNext
  BY <1>1, <1>4 DEF TailOK, WriteNext, Return, TypeOK
<1>5. CASE WriteBlock
  BY <1>2, <1>4, <1>5 DEF WriteBlock, WriteCached, WriteThrough, FailCall, Return
<1>6. CASE Finalize
  BY <1>2, <1>3, <1>6 DEF Finalize, FinalizeFlush, FinalizeDone, Return
<1>7. CASE UNCHANGED vars
  BY <1>3, <1>7 DEF vars, loopVars
<1>8. \/ pc' # "finalize" \/ WriteBlock \/ Finalize \/ UNCHANGED vars
  BY DEF Next, BisInit, BeginRead, BeginWrite, BeginCall, Step, NotReady, ReadBlock,
         ReadHit, ReadMiss, ReadNext, Return, FailCall, PowerLoss
<1> QED BY <1>2, <1>5, <1>6, <1>7, <1>8

LEMMA InvNext ==
  ASSUME ReadsMayFail = FALSE, WritesMayFail = FALSE, Inv, [Next]_vars
  PROVE  Inv'
<1>1. Clean' /\ Flushed'
  BY InvFacts, CleanInductive, StepFlushed
<1> QED BY <1>1, StepTail DEF Inv, Swept

LEMMA InvInit ==
  ASSUME Init
  PROVE  Inv
<1>1. DirtySlots(0) = {} /\ dirty_cluster_count = 0 /\ pc = "idle"
  BY DEF Init, DirtySlots, InUse
<1> QED BY <1>1, InitClean, FS_EmptySet DEF Inv, Swept, Flushed, TailOK

-----------------------------------------------------------------------------
(* What is read, sector by sector.                                         *)
LEMMA ViewAt ==
  /\ View = [p \in Part |-> [x \in Sector |-> Seen(p, x)]]
  /\ View' = [p \in Part |-> [x \in Sector |-> Seen(p, x)']]
  BY DEF View

LEMMA ViewKept ==
  ASSUME \A p \in Part, x \in Sector : Seen(p, x)' = Seen(p, x)
  PROVE  View' = View
  BY ViewAt

LEMMA SlotsKept ==
  ASSUME UNCHANGED <<emmc, system_part, cluster_lookup, slot_data>>
  PROVE  View' = View
<1>1. \A p \in Part, x \in Sector : Seen(p, x)' = Seen(p, x)
  BY DEF Seen
<1> QED BY <1>1, ViewKept

(* With nothing dirty, a read returns what the eMMC holds.                 *)
LEMMA DurableWhenClean ==
  ASSUME Inv, DirtySlots(0) = {}
  PROVE  View = emmc
<1>1. ASSUME NEW p \in Part, NEW x \in Sector
      PROVE  Seen(p, x) = emmc[p][x]
  <2> DEFINE d == ClusterOf(x)
             i == cluster_lookup[d]
  <2>1. CASE p # system_part \/ i = Empty
    BY <2>1 DEF Seen
  <2>2. CASE p = system_part /\ i # Empty
    <3>1. d \in Cluster
      BY DivMod
    <3>2. i \in Slot /\ i < InUse /\ slot_cluster[i] = d
      BY <2>2, <3>1, InvFacts DEF LookupExact, ServedFromOwnSlot, TypeOK
    <3>3. InUse \in Int
      BY InvFacts, GeometryAssumption DEF TypeOK, InUse
    <3>4. i \in 0 .. InUse - 1
      BY <3>2, <3>3, GeometryAssumption DEF Slot
    <3>5. ~slot_dirty[i]
      BY <3>4 DEF DirtySlots
    <3>6. slot_data[i][OffsetOf(x)] = emmc[system_part][x]
      BY <3>2, <3>4, <3>5, InvFacts DEF CleanSlotsMatchEmmc, SectorsOf
    <3> QED BY <2>2, <3>6 DEF Seen
  <2> QED BY <2>1, <2>2
<1>2. emmc \in [Part -> [Sector -> Content]]
  BY InvFacts DEF TypeOK
<1>3. View \in [Part -> [Sector -> Content]]
  BY <1>1, <1>2, ViewAt
<1>4. \A p \in Part : View[p] = emmc[p]
  BY <1>1, <1>2, ViewAt
<1> QED BY <1>2, <1>3, <1>4

LEMMA DurableAfter == (Inv /\ DirtySlots(0) = {} => View = emmc)'
<1>1. Inv /\ DirtySlots(0) = {} => View = emmc
  BY DurableWhenClean
<1> QED BY <1>1, PTL

-----------------------------------------------------------------------------
(* The block a call transfers, and what it leaves to be done.              *)
LEMMA IntervalCut ==
  ASSUME NEW a \in Nat, NEW n \in Nat, NEW k \in 1 .. n
  PROVE  a + k .. a + n - 1 = (a .. a + n - 1) \ (a .. a + k - 1)
<1> DEFINE S == a + k .. a + n - 1
           T == (a .. a + n - 1) \ (a .. a + k - 1)
<1>1. \A x \in Int : x \in S <=> x \in T
  OBVIOUS
<1>2. S \subseteq Int /\ T \subseteq Int
  OBVIOUS
<1> HIDE DEF S, T
<1>3. S = T
  BY <1>1, <1>2
<1> QED BY <1>3 DEF S, T

LEMMA BlockOfCall ==
  ASSUME Inv, pc \in {"read", "write"}
  PROVE  /\ ChunkSectors \in SUBSET Sector /\ ChunkSectors # {}
         /\ ChunkSectors \subseteq Todo
         /\ count = ChunkCount => ChunkSectors = Todo
         /\ count # ChunkCount /\ NextChunk => ChunkSectors # Todo /\ Todo' = Todo \ ChunkSectors
         /\ \A x \in ChunkSectors : ClusterOf(x) = ClusterOf(curr_sct)
<1>1. /\ curr_sct \in Nat /\ count \in Nat /\ ChunkCount \in 1 .. count
      /\ ChunkSectors \in SUBSET Sector
  BY InvFacts, ChunkFacts DEF Typed, LoopOK, Sector
<1>2. /\ curr_sct \in ChunkSectors
      /\ ChunkSectors \subseteq Todo
      /\ count = ChunkCount => ChunkSectors = Todo
  BY <1>1 DEF ChunkSectors, Todo
<1>3. ASSUME count # ChunkCount, NextChunk
      PROVE  ChunkSectors # Todo /\ Todo' = Todo \ ChunkSectors
  <2>1. curr_sct' = curr_sct + ChunkCount /\ count' = count - ChunkCount
    BY <1>3 DEF NextChunk
  <2>2. Todo' = curr_sct + ChunkCount .. curr_sct + count - 1
    BY <1>1, <2>1 DEF Todo
  <2>3. curr_sct + ChunkCount \in Todo /\ curr_sct + ChunkCount \notin ChunkSectors
    BY <1>1, <1>3 DEF Todo, ChunkSectors
  <2>4. Todo' = Todo \ ChunkSectors
    BY <1>1, <2>2, IntervalCut DEF Todo, ChunkSectors
  <2> QED BY <2>3, <2>4
<1>4. \A x \in ChunkSectors : ClusterOf(x) = ClusterOf(curr_sct)
  BY InvFacts, ChunkInCluster DEF SectorsOf
<1> QED BY <1>1, <1>2, <1>3, <1>4

LEMMA NothingToDo ==
  ASSUME Return(0) \/ Return(1)
  PROVE  Todo' = {} /\ Op' = "idle"
  BY DEF Return, Todo, Op

-----------------------------------------------------------------------------
LEMMA SelectStep ==
  ASSUME Inv, Inv', NEW p \in Part, BisInit(p)
  PROVE  Disk!Select(p)
<1>1. DirtySlots(0) = {} /\ DirtySlots(0)' = {}
  BY DEF BisInit, Inv, Swept, Flushed
<1>2. View' = View
  BY <1>1, DurableWhenClean, DurableAfter DEF BisInit
<1> QED BY <1>2 DEF BisInit, Disk!Select, Disk!NoBlock, NoBlock, loopVars

LEMMA CallStep ==
  ASSUME Inv, NEW kind \in {"read", "write"}, NEW x \in Sector, NEW n \in 1 .. MaxCount,
         BeginCall(kind, x, n)
  PROVE  \E S \in SUBSET Sector : Disk!Call(kind, S)
<1>1. x .. x + n - 1 \in SUBSET Sector
  BY GeometryAssumption, PartSizeNat DEF BeginCall, AlignedRequest, Sector
<1>2. View' = View
  BY SlotsKept DEF BeginCall, cacheVars
<1>3. Disk!Call(kind, x .. x + n - 1)
  BY <1>2 DEF BeginCall, Disk!Call, Disk!NoBlock, NoBlock
<1> QED BY <1>1, <1>3

LEMMA NotReadyStep ==
  ASSUME Inv, NotReady
  PROVE  Disk!NotReady
<1>1. View' = View
  BY SlotsKept DEF NotReady, cacheVars
<1>2. Todo' = {} /\ Op' = "idle" /\ ret' = 1
  BY NothingToDo DEF NotReady, FailCall, Return
<1> QED BY <1>1, <1>2 DEF NotReady, FailCall, Disk!NotReady, Disk!Finish, Disk!NoBlock, NoBlock,
                          Todo, Op

(* Both ways a block is read.                                              *)
LEMMA ReadStep ==
  ASSUME Inv, pc = "read", system_part \in Part, ReadNext, View' = View,
         UNCHANGED <<emmc, system_part>>,
         out' = [x \in ChunkSectors |-> View[system_part][x]]
  PROVE  Disk!ReadSome(ChunkSectors)
<1>1. /\ ChunkSectors # {} /\ ChunkSectors \subseteq Todo
      /\ count = ChunkCount => ChunkSectors = Todo
      /\ count # ChunkCount /\ NextChunk => ChunkSectors # Todo /\ Todo' = Todo \ ChunkSectors
  BY BlockOfCall
<1>2. IF ChunkSectors = Todo THEN Todo' = {} /\ Op' = "idle" /\ ret' = 0
                             ELSE Todo' = Todo \ ChunkSectors /\ UNCHANGED <<Op, ret>>
  BY <1>1, NothingToDo DEF ReadNext, Return, Op
<1> QED BY <1>1, <1>2 DEF Disk!ReadSome, Disk!Finish, Todo, Op

LEMMA ReadHitStep ==
  ASSUME Inv, ReadHit
  PROVE  Disk!ReadSome(ChunkSectors)
<1>1. /\ pc = "read" /\ system_part \in Part /\ ReadNext
      /\ UNCHANGED <<emmc, system_part, cluster_lookup, slot_data>>
  BY InvFacts DEF ReadHit, TypeOK, cacheVars
<1>2. ASSUME NEW x \in ChunkSectors
      PROVE  View[system_part][x] = slot_data[cluster_lookup[ClusterOf(curr_sct)]][OffsetOf(x)]
  BY <1>1, BlockOfCall, ViewAt DEF ReadHit, Seen
<1>3. out' = [x \in ChunkSectors |-> View[system_part][x]]
  BY <1>2 DEF ReadHit, SlotContent
<1> QED BY <1>1, <1>3, SlotsKept, ReadStep

LEMMA ReadMissStep ==
  ASSUME Inv, Inv', ReadMiss(TRUE, TRUE)
  PROVE  Disk!ReadSome(ChunkSectors)
<1>1. /\ pc = "read" /\ system_part \in Part /\ ReadNext /\ UNCHANGED system_part
      /\ TypeOK /\ NextSlot \in Slot
  BY InvFacts, NextSlotFacts DEF ReadMiss, TypeOK
<1>2. DirtySlots(0) = {}
  BY <1>1, InvFacts DEF Flushed
<1>3. ~Evicts
  BY <1>1, <1>2, NextSlotFacts DEF Evicts, DirtySlots, Slot
<1>4. UNCHANGED emmc
  BY <1>3 DEF ReadMiss
<1>5. DirtySlots(0)' = {}
  BY <1>1 DEF ReadNext, Return, Inv, Swept, Flushed
<1>6. View = emmc /\ View' = View
  BY <1>2, <1>4, <1>5, DurableWhenClean, DurableAfter
<1>7. out' = [x \in ChunkSectors |-> View[system_part][x]]
  BY <1>4, <1>6 DEF ReadMiss
<1> QED BY <1>1, <1>4, <1>6, <1>7, ReadStep

-----------------------------------------------------------------------------
(* Both ways a block is written: what is read takes the block d, and the   *)
(* eMMC part of it.                                                        *)
LEMMA WriteStep ==
  ASSUME Inv, Inv', pc = "write", system_part \in Part, WriteNext, out' = NoBlock,
         UNCHANGED system_part,
         NEW d \in [ChunkSectors -> Content], NEW D \in SUBSET ChunkSectors,
         \A p \in Part, x \in Sector :
           Seen(p, x)' = IF p = system_part /\ x \in ChunkSectors THEN d[x] ELSE Seen(p, x),
         emmc' = [emmc EXCEPT ![system_part] =
                    [x \in Sector |-> IF x \in D THEN d[x] ELSE @[x]]]
  PROVE  Disk!WriteSome(ChunkSectors)
<1>1. /\ ChunkSectors # {} /\ ChunkSectors \subseteq Todo
      /\ count = ChunkCount => ChunkSectors = Todo
      /\ count # ChunkCount /\ NextChunk => ChunkSectors # Todo /\ Todo' = Todo \ ChunkSectors
  BY BlockOfCall
<1>2. View' = [View EXCEPT ![system_part] =
                 [x \in Sector |-> IF x \in ChunkSectors THEN d[x] ELSE @[x]]]
  <2> DEFINE W == [View EXCEPT ![system_part] =
                     [x \in Sector |-> IF x \in ChunkSectors THEN d[x] ELSE @[x]]]
  <2>1. W = [p \in Part |-> IF p = system_part
                            THEN [x \in Sector |-> IF x \in ChunkSectors THEN d[x] ELSE View[p][x]]
                            ELSE View[p]]
    BY ViewAt
  <2>2. ASSUME NEW p \in Part
        PROVE  View'[p] = W[p]
    BY <2>1, ViewAt
  <2>3. View' = [p \in Part |-> View'[p]] /\ W = [p \in Part |-> W[p]]
    BY <2>1, ViewAt
  <2> HIDE DEF W
  <2>4. View' = W
    BY <2>2, <2>3
  <2> QED BY <2>4 DEF W
<1>3. CASE count # ChunkCount
  <2>1. Todo' = Todo \ ChunkSectors /\ UNCHANGED <<Op, ret>>
    BY <1>1, <1>3 DEF WriteNext, Op
  <2> QED BY <1>1, <1>2, <2>1 DEF Disk!WriteSome, Disk!NoBlock, NoBlock, Todo, Op
<1>4. CASE count = ChunkCount /\ dirty_cluster_count' = 0
  <2>1. Todo' = Todo \ ChunkSectors /\ Todo' = {} /\ Op' = "idle" /\ ret' = 0
    BY <1>1, <1>4, NothingToDo DEF WriteNext, Return
  <2>2. DirtySlots(0)' = {}
    BY <1>4 DEF WriteNext, Return, Inv, Swept, Flushed
  <2>3. View' = emmc'
    BY <2>2, DurableAfter
  <2> QED BY <1>1, <1>2, <2>1, <2>3 DEF Disk!WriteSome, Disk!Finish, Disk!NoBlock, NoBlock, Todo, Op
<1>5. CASE count = ChunkCount /\ dirty_cluster_count' # 0
  <2>1. Todo' = Todo \ ChunkSectors /\ UNCHANGED <<Op, ret>>
    BY <1>1, <1>5 DEF WriteNext, Op, Todo
  <2> QED BY <1>1, <1>2, <2>1 DEF Disk!WriteSome, Disk!NoBlock, NoBlock, Todo, Op
<1> QED BY <1>3, <1>4, <1>5

LEMMA WriteCachedStep ==
  ASSUME Inv, Inv', NEW data \in [ChunkSectors -> Value], WriteCached(data)
  PROVE  Disk!WriteSome(ChunkSectors)
<1> DEFINE c == ClusterOf(curr_sct)
           i == cluster_lookup[c]
<1>1. /\ TypeOK /\ LookupExact /\ c \in Cluster /\ i \in Slot /\ i # Empty
      /\ pc = "write" /\ system_part \in Part /\ WriteNext /\ out' = NoBlock
      /\ UNCHANGED <<emmc, system_part, cluster_lookup>>
  BY InvFacts, ChunkInCluster DEF WriteCached, TypeOK
<1>2. slot_data' = [slot_data EXCEPT ![i] =
        [o \in Offset |-> LET y == c * SectorsPerCluster + o
                          IN IF y \in ChunkSectors THEN data[y] ELSE @[o]]]
  BY DEF WriteCached
<1>3. ASSUME NEW p \in Part, NEW x \in Sector
      PROVE  Seen(p, x)' = IF p = system_part /\ x \in ChunkSectors THEN data[x] ELSE Seen(p, x)
  <2> DEFINE d == ClusterOf(x)
  <2>1. /\ d \in Cluster /\ OffsetOf(x) \in Offset /\ x = d * SectorsPerCluster + OffsetOf(x)
        /\ x \in ChunkSectors => d = c
    BY <1>1, DivMod, BlockOfCall
  <2>2. CASE p # system_part \/ cluster_lookup[d] = Empty
    BY <1>1, <2>1, <2>2 DEF Seen
  <2>3. CASE p = system_part /\ d = c
    <3>1. slot_data'[i][OffsetOf(x)] =
            IF x \in ChunkSectors THEN data[x] ELSE slot_data[i][OffsetOf(x)]
      BY <1>1, <1>2, <2>1, <2>3 DEF TypeOK
    <3> QED BY <1>1, <2>3, <3>1 DEF Seen
  <2>4. CASE p = system_part /\ cluster_lookup[d] # Empty /\ d # c
    <3>1. cluster_lookup[d] \in Slot /\ cluster_lookup[d] # i
      BY <1>1, <2>1, <2>4 DEF LookupExact, ServedFromOwnSlot, TypeOK
    <3>2. slot_data'[cluster_lookup[d]] = slot_data[cluster_lookup[d]]
      BY <1>1, <1>2, <3>1 DEF TypeOK
    <3> QED BY <1>1, <2>1, <2>4, <3>2 DEF Seen
  <2> QED BY <2>2, <2>3, <2>4
<1>4. PICK D \in SUBSET ChunkSectors :
        emmc' = [emmc EXCEPT ![system_part] =
                   [x \in Sector |-> IF x \in D THEN data[x] ELSE @[x]]]
  <2>1. emmc' = [emmc EXCEPT ![system_part] =
                   [x \in Sector |-> IF x \in {} THEN data[x] ELSE @[x]]]
    BY <1>1 DEF TypeOK
  <2>2. {} \in SUBSET ChunkSectors
    OBVIOUS
  <2> WITNESS {} \in SUBSET ChunkSectors
  <2> QED BY <2>1
<1>5. data \in [ChunkSectors -> Content]
  BY DEF Content
<1>6. UNCHANGED system_part
  BY <1>1
<1> HIDE DEF c, i
<1> QED BY <1>1, <1>3, <1>4, <1>5, <1>6, WriteStep

LEMMA WriteThroughStep ==
  ASSUME Inv, Inv', NEW data \in [ChunkSectors -> Value], WriteThrough(data, TRUE)
  PROVE  Disk!WriteSome(ChunkSectors)
<1>1. /\ TypeOK /\ cluster_lookup[ClusterOf(curr_sct)] = Empty
      /\ pc = "write" /\ system_part \in Part /\ WriteNext /\ out' = NoBlock
      /\ UNCHANGED <<system_part, cluster_lookup, slot_data>>
  BY InvFacts DEF WriteThrough, TypeOK, cacheVars
<1>2. emmc' = [emmc EXCEPT ![system_part] =
                 [x \in Sector |-> IF x \in ChunkSectors THEN data[x] ELSE @[x]]]
  BY DEF WriteThrough, EmmcWrite
<1>3. ASSUME NEW p \in Part, NEW x \in Sector
      PROVE  Seen(p, x)' = IF p = system_part /\ x \in ChunkSectors THEN data[x] ELSE Seen(p, x)
  <2>1. emmc'[p][x] = IF p = system_part /\ x \in ChunkSectors THEN data[x] ELSE emmc[p][x]
    BY <1>1, <1>2 DEF TypeOK
  <2>2. x \in ChunkSectors => cluster_lookup[ClusterOf(x)] = Empty
    BY <1>1, BlockOfCall
  <2> QED BY <1>1, <2>1, <2>2 DEF Seen
<1>4. data \in [ChunkSectors -> Content]
  BY DEF Content
<1> QED BY <1>1, <1>2, <1>3, <1>4, WriteStep

-----------------------------------------------------------------------------
LEMMA FlushStep ==
  ASSUME Inv, NEW i \in Slot, FinalizeFlush(i, TRUE)
  PROVE  \E S \in SUBSET Sector : Disk!Sync(S)
<1> DEFINE S == SectorsOf(slot_cluster[i])
<1>1. /\ TypeOK /\ i \in 0 .. InUse - 1 /\ slot_dirty[i] /\ FlushToEmmc(i, TRUE)
      /\ pc = "finalize" /\ system_part \in Part /\ S \in SUBSET Sector
  <2>1. TypeOK /\ i \in fin_i .. InUse - 1 /\ slot_dirty[i] /\ FlushToEmmc(i, TRUE)
    BY InvFacts DEF FinalizeFlush, NextDirty
  <2>4. i \in 0 .. InUse - 1
    <3>1. fin_i \in Nat
      BY <2>1 DEF TypeOK
    <3> QED BY <2>1, <3>1
  <2>2. pc = "finalize" /\ system_part \in Part
    BY InvFacts DEF FinalizeFlush, TailOK
  <2>3. S \in SUBSET Sector
    BY DEF SectorsOf
  <2> QED BY <2>1, <2>2, <2>3, <2>4
<1>2. FlushedSlot(i) = i /\ i # Empty
  BY <1>1, InvFacts, FlushOfDirtySlot, NamesAssumption
<1>3. \A x \in S : cluster_lookup[ClusterOf(x)] = i
  BY <1>1, InvFacts DEF SlotsOwned, SectorsOf
<1>4. \A x \in S : SlotContent(i, S)[x] = Seen(system_part, x)
  BY <1>2, <1>3 DEF Seen, SlotContent
<1>5. emmc' = [emmc EXCEPT ![system_part] =
                 [x \in Sector |-> IF x \in S THEN SlotContent(i, S)[x] ELSE @[x]]]
  BY <1>1, <1>2 DEF FlushToEmmc, EmmcWrite
<1>6. emmc' = [emmc EXCEPT ![system_part] =
                 [x \in Sector |-> IF x \in S THEN View[system_part][x] ELSE @[x]]]
  <2>1. [x \in Sector |-> IF x \in S THEN SlotContent(i, S)[x] ELSE emmc[system_part][x]]
        = [x \in Sector |-> IF x \in S THEN View[system_part][x] ELSE emmc[system_part][x]]
    BY <1>1, <1>4, ViewAt
  <2> HIDE DEF S
  <2> QED BY <1>1, <1>5, <2>1 DEF TypeOK
<1>7. View' = View
  <2>1. ASSUME NEW p \in Part, NEW x \in Sector
        PROVE  Seen(p, x)' = Seen(p, x)
    <3>1. UNCHANGED <<system_part, cluster_lookup, slot_data>>
      BY DEF FinalizeFlush
    <3>2. p # system_part \/ x \notin S => emmc'[p][x] = emmc[p][x]
      BY <1>1, <1>5 DEF TypeOK
    <3>3. x \in S => cluster_lookup[ClusterOf(x)] # Empty
      BY <1>2, <1>3
    <3> QED BY <3>1, <3>2, <3>3 DEF Seen
  <2> QED BY <2>1, ViewKept
<1>8. Disk!Sync(S)
  BY <1>1, <1>6, <1>7 DEF FinalizeFlush, Disk!Sync, Disk!NoBlock, NoBlock
<1> QED BY <1>1, <1>8

LEMMA DoneStep ==
  ASSUME Inv, FinalizeDone
  PROVE  Disk!WriteReturn
<1>1. View = emmc
  BY InvFacts, FinalizeSweeps, DurableWhenClean
<1>2. View' = View
  BY SlotsKept DEF FinalizeDone, cacheVars
<1>3. pc = "finalize" /\ system_part \in Part /\ Todo = {} /\ Todo' = {} /\ Op' = "idle"
  BY InvFacts, NothingToDo DEF FinalizeDone, TailOK, Todo
<1> QED BY <1>1, <1>2, <1>3 DEF FinalizeDone, Return, Disk!WriteReturn, Disk!Finish, Disk!NoBlock,
                                NoBlock, Todo, Op

LEMMA ResetStep ==
  ASSUME Inv, Inv', PowerLoss
  PROVE  Disk!Reset
<1>1. DirtySlots(0)' = {} /\ emmc' = emmc
  BY DEF PowerLoss, DirtySlots, InUse
<1>2. View' = emmc
  BY <1>1, DurableAfter
<1>3. Todo' = {} /\ Op' = "idle"
  BY DEF PowerLoss, Todo, Op
<1> QED BY <1>1, <1>2, <1>3 DEF PowerLoss, Disk!Reset, Disk!NoBlock, NoBlock, Todo, Op

-----------------------------------------------------------------------------
LEMMA DiskStep ==
  ASSUME ReadsMayFail = FALSE, WritesMayFail = FALSE, Inv, Inv', [Next]_vars
  PROVE  [Disk!Next]_Disk!vars
<1>1. ASSUME NEW p \in Part, BisInit(p)
      PROVE  Disk!Next
  BY <1>1, SelectStep DEF Disk!Next
<1>2. ASSUME NEW kind \in {"read", "write"}, NEW x \in Sector, NEW n \in 1 .. MaxCount,
             BeginCall(kind, x, n)
      PROVE  Disk!Next
  BY <1>2, CallStep DEF Disk!Next
<1>3. CASE NotReady
  BY <1>3, NotReadyStep DEF Disk!Next
<1>4. CASE ReadHit \/ ReadMiss(TRUE, TRUE)
  <2>1. ChunkSectors \in SUBSET Sector
    BY <1>4, BlockOfCall DEF ReadHit, ReadMiss
  <2> QED BY <1>4, <2>1, ReadHitStep, ReadMissStep DEF Disk!Next
<1>5. ASSUME NEW data \in [ChunkSectors -> Value], WriteCached(data) \/ WriteThrough(data, TRUE)
      PROVE  Disk!Next
  <2>1. ChunkSectors \in SUBSET Sector
    BY <1>5, BlockOfCall DEF WriteCached, WriteThrough
  <2> QED BY <1>5, <2>1, WriteCachedStep, WriteThroughStep DEF Disk!Next
<1>6. ASSUME NEW i \in Slot, FinalizeFlush(i, TRUE)
      PROVE  Disk!Next
  BY <1>6, FlushStep DEF Disk!Next
<1>7. CASE FinalizeDone
  BY <1>7, DoneStep DEF Disk!Next
<1>8. CASE PowerLoss
  BY <1>8, ResetStep DEF Disk!Next
<1>9. CASE UNCHANGED vars
  <2>1. View' = View
    BY <1>9, SlotsKept DEF vars, cacheVars
  <2> QED BY <1>9, <2>1 DEF vars, loopVars, Disk!vars
<1>10. \/ \E p \in Part : BisInit(p)
       \/ \E kind \in {"read", "write"}, x \in Sector, n \in 1 .. MaxCount : BeginCall(kind, x, n)
       \/ NotReady \/ ReadHit \/ ReadMiss(TRUE, TRUE)
       \/ \E data \in [ChunkSectors -> Value] : WriteCached(data) \/ WriteThrough(data, TRUE)
       \/ \E i \in Slot : FinalizeFlush(i, TRUE)
       \/ FinalizeDone \/ PowerLoss \/ UNCHANGED vars
  BY DEF Next, BeginRead, BeginWrite, Step, ReadBlock, WriteBlock, Finalize, Outcomes
<1> QED BY <1>1, <1>2, <1>3, <1>4, <1>5, <1>6, <1>7, <1>8, <1>9, <1>10

LEMMA DiskInit ==
  ASSUME Init
  PROVE  Disk!Init
<1>1. View = emmc
  <2>1. DirtySlots(0) = {}
    BY DEF Init, DirtySlots, InUse
  <2> QED BY <2>1, InvInit, DurableWhenClean
<1>2. emmc \in [Part -> [Sector -> Content]]
  BY InvInit, InvFacts DEF TypeOK
<1> QED BY <1>1, <1>2 DEF Init, Disk!Init, Disk!NoBlock, NoBlock

(* nx_emmc_bis_read and nx_emmc_bis_write are the plain disk while the     *)
(* eMMC obeys, for any number of clusters, slots and partitions: a read    *)
(* returns the latest write, a write that has returned survives a reset,   *)
(* and selecting another partition loses nothing.                          *)
THEOREM CacheIsADisk ==
  ASSUME ReadsMayFail = FALSE, WritesMayFail = FALSE
  PROVE  Spec => ImplementsDisk
<1>1. Init => Inv /\ Disk!Init
  BY InvInit, DiskInit
<1>2. Inv /\ [Next]_vars => Inv'
  BY InvNext
<1>3. Inv /\ Inv' /\ [Next]_vars => [Disk!Next]_Disk!vars
  BY DiskStep
<1> QED BY <1>1, <1>2, <1>3, PTL DEF Spec, ImplementsDisk, Disk!Spec
=============================================================================
