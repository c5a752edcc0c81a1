---------------------------- MODULE SessionProofs ----------------------------
(***************************************************************************)
(* Proofs about MountManager and about Session, which extends it.          *)
(* They hold wherever the heap places a new partition table; only          *)
(* AccessReaches assumes that the eMMC obeys its commands.  The steps of a *)
(* session are steps of MountManager, but for FormatSD, so the invariants  *)
(* proved of the mounts hold below the menus too.                          *)
(***************************************************************************)
EXTENDS Session, WellFoundedInduction, TLAPS

USE DEF Area, Device, bootVars, mmcVars, fsVars

(* nx_emmc_part_find returns an entry of the table with the name asked     *)
(* for: a first one exists because the list is walked from the front.      *)
LEMMA FindFacts ==
  ASSUME TypeOK, NEW name, Found(name)
  PROVE  \E i \in DOMAIN curGpt : Find(name) = curGpt[i] /\ curGpt[i].name = name
<1> DEFINE Hits == {i \in DOMAIN curGpt : curGpt[i].name = name}
<1>1. DOMAIN curGpt = 1 .. Len(curGpt) /\ Len(curGpt) \in Nat
  BY DEF TypeOK
<1>2. Hits # {} /\ Hits \subseteq Nat
  BY <1>1 DEF Found
<1>3. PICK i \in Hits : \A k \in Hits : <<k, i>> \notin OpToRel(<, Nat)
  BY <1>2, WFMin, NatLessThanWellFounded, Zenon
<1>4. \A k \in Hits : ~(k < i)
  BY <1>2, <1>3 DEF OpToRel
<1>5. ASSUME NEW j \in 1 .. i - 1 PROVE curGpt[j].name # name
  <2> DEFINE n == Len(curGpt)
  <2>1. i \in 1 .. n /\ n \in Nat
    BY <1>1, <1>3
  <2> HIDE DEF n
  <2>2. j \in 1 .. n /\ j < i
    BY <2>1
  <2>3. j \in DOMAIN curGpt /\ j < i
    BY <1>1, <2>2 DEF n
  <2>4. j \notin Hits
    BY <1>4, <2>3
  <2> QED BY <2>3, <2>4
<1>6. \E k \in DOMAIN curGpt :
        curGpt[k].name = name /\ \A j \in 1 .. k - 1 : curGpt[j].name # name
  BY <1>3, <1>5
<1> QED BY <1>6, Zenon DEF Find

LEMMA FindType ==
  ASSUME TypeOK, NEW name, Found(name)
  PROVE  Find(name) \in Entry /\ Find(name).name = name
  BY FindFacts DEF TypeOK

LEMMA NewEntriesType ==
  ASSUME NEW dev \in Device
  PROVE  NewEntries(dev) \in Seq(Entry) /\ Len(NewEntries(dev)) = Len(Layout)
<1>1. DOMAIN Layout = 1 .. Len(Layout) /\ Len(Layout) \in Nat
  BY NamesAssumption
<1>2. \A i \in 1 .. Len(Layout) : Layout[i] \in Name
  BY NamesAssumption
<1>3. NewEntries(dev) \in [1 .. Len(Layout) -> Entry]
  BY <1>1, <1>2 DEF NewEntries, Entry
<1> QED BY <1>1, <1>3

(* What a walk visits after nx_emmc_gpt_parse are entries, wherever the    *)
(* heap has placed the new ones.                                           *)
LEMMA GptParseType ==
  ASSUME TypeOK, NEW dev \in Device, GptParse(dev)
  PROVE  curGpt' \in Seq(Entry)
<1>1. curGpt \in Seq(Entry) /\ Len(curGpt) \in Nat
  BY DEF TypeOK
<1>2. Len(Layout) \in Nat /\ DOMAIN Layout = 1 .. Len(Layout)
  BY NamesAssumption
<1>3. ASSUME NEW stale \in 0 .. Len(curGpt), NEW first \in DOMAIN Layout
      PROVE  SubSeq(curGpt, 1, stale) \o SubSeq(NewEntries(dev), first, Len(Layout)) \in Seq(Entry)
  <2> DEFINE s == curGpt  t == NewEntries(dev)  n == Len(Layout)
  <2>1. s \in Seq(Entry) /\ t \in Seq(Entry) /\ Len(t) = n /\ n \in Nat
    BY <1>1, <1>2, NewEntriesType
  <2>2. stale \in 0 .. Len(s) /\ first \in 1 .. n
    BY <1>2
  <2> HIDE DEF s, t, n
  <2>3. SubSeq(s, 1, stale) \in Seq(Entry)
    BY <2>1, <2>2
  <2>4. SubSeq(t, first, n) \in Seq(Entry)
    BY <2>1, <2>2
  <2>5. SubSeq(s, 1, stale) \o SubSeq(t, first, n) \in Seq(Entry)
    BY <2>3, <2>4
  <2> QED BY <2>5 DEF s, t, n
<1> QED BY <1>1, <1>3 DEF GptParse

LEMMA PlaceType ==
  ASSUME TypeOK
  PROVE  BisPlace \in Place
  BY DEF TypeOK, BisPlace, ActiveDevice, ActiveArea, Place, Entry, NoEntry

LEMMA SetPartitionType ==
  ASSUME TypeOK, NEW area \in Area, NEW switched, SetMmcPartition(area, switched)
  PROVE  active_part' \in Area /\ hw_part' \in Area
  BY DEF TypeOK, SetMmcPartition

LEMMA UnmountType ==
  ASSUME TypeOK, Unmount
  PROVE  /\ registered' \in BOOLEAN
         /\ emmc_fs' \in Place \cup {NoPlace}
         /\ connectedMMCMounted' \in BOOLEAN
  BY Zenon DEF TypeOK, Unmount

LEMMA ObservedType ==
  ASSUME NEW meant \in Place, NEW reached \in Place
  PROVE  Observed(meant, reached) \in Accesses
  BY DEF Observed, NoAccess, Accesses

LEMMA AccessType ==
  ASSUME TypeOK, Connected, NEW area \in Area, NEW name \in Name \cup {NoName},
         NEW reached \in Place
  PROVE  Access(area, name, reached) \in Accesses
<1>1. [dev |-> currentMMCConnected, area |-> area, name |-> name] \in Place
  BY DEF TypeOK, Connected, Place
<1> QED BY <1>1, ObservedType DEF Access

-----------------------------------------------------------------------------
LEMMA NoAccessType == NoAccess \in Accesses
  BY DEF NoAccess, Accesses

LEMMA InitType == Init => TypeOK
<1> SUFFICES ASSUME Init PROVE TypeOK
  OBVIOUS
<1>1. /\ booting \in BOOLEAN /\ keysDumped \in BOOLEAN /\ emummc_force_disable \in BOOLEAN
      /\ registered \in BOOLEAN /\ connectedMMCMounted \in BOOLEAN
  BY Zenon DEF Init
<1>2. curGpt \in Seq(Entry) /\ active_part \in Area /\ hw_part \in Area
  BY DEF Init
<1>3. last \in Accesses
  BY NoAccessType DEF Init
<1> QED BY <1>1, <1>2, <1>3 DEF Init, TypeOK

LEMMA DumpKeysType == TypeOK /\ DumpKeys => TypeOK'
<1> SUFFICES ASSUME TypeOK, DumpKeys PROVE TypeOK'
  OBVIOUS
<1>1. curGpt' \in Seq(Entry)
  BY GptParseType DEF DumpKeys
<1>2. sd_mounted' \in BOOLEAN
  BY DEF TypeOK, DumpKeys, SdMount
<1>3. hw_part' \in Area /\ active_part' \in Area
  BY DEF DumpKeys
<1>4. last' \in Accesses
  <2>1. [dev |-> "emmc", area |-> 1, name |-> NoName] \in Place
    BY DEF Place
  <2>2. [dev |-> "emmc", area |-> hw_part', name |-> NoName] \in Place
    BY <1>3 DEF Place
  <2> QED BY <2>1, <2>2, ObservedType DEF DumpKeys
<1> QED BY <1>1, <1>2, <1>3, <1>4 DEF TypeOK, DumpKeys, BootDone

LEMMA ConnectType ==
  ASSUME TypeOK, NEW type \in Device, ConnectMMC(type)
  PROVE  TypeOK'
<1>1. PICK ok \in BOOLEAN : Connect(type, ok)
  BY DEF ConnectMMC
<1>2. curGpt' \in Seq(Entry)
  BY <1>1, GptParseType DEF Connect, TypeOK
<1>3. currentMMCConnected' \in Device \cup {"none"}
  BY <1>1 DEF Connect
<1>4. sd_mounted' \in BOOLEAN /\ active_part' \in Area /\ hw_part' \in Area
  BY <1>1 DEF TypeOK, Connect, StorageInit, SdMount
<1>5. emummc_force_disable' \in BOOLEAN
  BY <1>1, Zenon DEF Connect, ForceDisable
<1>6. system_part' \in Entry \cup {NoEntry}
  BY <1>1 DEF Connect, TypeOK
<1>7. registered' \in BOOLEAN /\ emmc_fs' \in Place \cup {NoPlace} /\ connectedMMCMounted' \in BOOLEAN
  BY <1>1, UnmountType DEF Connect
<1> QED BY <1>2, <1>3, <1>4, <1>5, <1>6, <1>7 DEF TypeOK, ConnectMMC

LEMMA MountType ==
  ASSUME TypeOK, NEW name \in Name, MountMMCPart(name)
  PROVE  TypeOK'
<1>1. PICK switched \in Outcomes(MmcMayFail), ok \in Outcomes(MmcMayFail) :
        /\ MountSelectsUserArea(switched)
        /\ IF Found(name)
           THEN /\ system_part' = Find(name)
                /\ registered' = TRUE
                /\ connectedMMCMounted' = (ok /\ Mountable(BisPlace'))
                /\ emmc_fs' = IF connectedMMCMounted' THEN BisPlace' ELSE NoPlace
                /\ last' = Access(0, name, BisPlace')
           ELSE Unmount /\ UNCHANGED <<system_part, last>>
  BY DEF MountMMCPart
<1>2. active_part' \in Area /\ hw_part' \in Area
  BY <1>1, SetPartitionType DEF MountSelectsUserArea
<1>3. CASE Found(name)
  <2>1. system_part' \in Entry
    BY <1>1, <1>3, FindType
  <2>2. BisPlace' \in Place
    BY <1>2, <2>1 DEF MountMMCPart, TypeOK, BisPlace, ActiveDevice, ActiveArea, Place, Entry
  <2>3. connectedMMCMounted' \in BOOLEAN /\ registered' \in BOOLEAN
    BY <1>1, <1>3, Zenon DEF Mountable
  <2>4. emmc_fs' \in Place \cup {NoPlace}
    BY <1>1, <1>3, <2>2
  <2>5. last' \in Accesses
    BY <1>1, <1>3, <2>2, AccessType DEF MountMMCPart
  <2> QED BY <1>2, <2>1, <2>3, <2>4, <2>5 DEF TypeOK, MountMMCPart
<1>4. CASE ~Found(name)
  BY <1>1, <1>2, <1>4, UnmountType DEF TypeOK, MountMMCPart
<1> QED BY <1>3, <1>4

LEMMA TransferBootType ==
  ASSUME TypeOK, NEW area \in {1, 2}, TransferBoot(area)
  PROVE  TypeOK'
<1>1. active_part' \in Area /\ hw_part' \in Area
  BY SetPartitionType DEF TransferBoot
<1>2. [dev |-> ActiveDevice, area |-> ActiveArea', name |-> NoName] \in Place
  BY <1>1 DEF TransferBoot, ActiveDevice, ActiveArea, Place
<1>3. last' \in Accesses
  BY <1>2, AccessType DEF TypeOK, TransferBoot
<1> QED BY <1>1, <1>3 DEF TypeOK, TransferBoot, SdMount

LEMMA TransferPartType ==
  ASSUME TypeOK, NEW name \in Name, TransferPart(name)
  PROVE  TypeOK'
<1>1. active_part' \in Area /\ hw_part' \in Area
  BY SetPartitionType DEF TransferPart, TransferSelectsUserArea
<1>2. CASE Found(name)
  <2>1. [dev |-> ActiveDevice, area |-> ActiveArea', name |-> Find(name).name] \in Place
    BY <1>1, <1>2, FindType DEF TransferPart, ActiveDevice, ActiveArea, Place
  <2>2. last' \in Accesses
    BY <1>2, <2>1, AccessType DEF TypeOK, TransferPart
  <2>3. system_part' \in Entry \cup {NoEntry}
    BY <1>2, FindType DEF TypeOK, TransferPart
  <2> QED BY <1>1, <2>2, <2>3 DEF TypeOK, TransferPart, SdMount
<1>3. CASE ~Found(name)
  BY <1>1, <1>3 DEF TypeOK, TransferPart, SdMount
<1> QED BY <1>2, <1>3

LEMMA RebootType == Reboot => TypeOK'
<1> SUFFICES ASSUME Reboot PROVE TypeOK'
  OBVIOUS
<1>1. /\ booting' \in BOOLEAN /\ keysDumped' \in BOOLEAN /\ emummc_force_disable' \in BOOLEAN
      /\ registered' \in BOOLEAN /\ connectedMMCMounted' \in BOOLEAN
  BY Zenon DEF Reboot
<1>2. curGpt' \in Seq(Entry) /\ active_part' \in Area /\ hw_part' \in Area
  BY DEF Reboot
<1>3. last' \in Accesses
  BY NoAccessType DEF Reboot
<1> QED BY <1>1, <1>2, <1>3 DEF Reboot, TypeOK

LEMMA NextType == TypeOK /\ [Next]_vars => TypeOK'
<1> SUFFICES ASSUME TypeOK, [Next]_vars PROVE TypeOK'
  OBVIOUS
<1>1. CASE DumpKeys
  BY <1>1, DumpKeysType
<1>2. CASE GetKeysFromFile
  BY <1>2 DEF TypeOK, GetKeysFromFile, BootDone, SdMount
<1>3. ASSUME NEW type \in Device, ConnectMMC(type) PROVE TypeOK'
  BY <1>3, ConnectType
<1>4. CASE DisconnectMMC
  BY <1>4, UnmountType DEF TypeOK, DisconnectMMC, Disconnect
<1>5. CASE UnmountMMCPart
  BY <1>5, UnmountType DEF TypeOK, UnmountMMCPart
<1>6. ASSUME NEW name \in Name, MountMMCPart(name) PROVE TypeOK'
  BY <1>6, MountType
<1>7. ASSUME NEW name \in Name, TransferPart(name) PROVE TypeOK'
  BY <1>7, TransferPartType
<1>8. ASSUME NEW area \in {1, 2}, TransferBoot(area) PROVE TypeOK'
  BY <1>8, TransferBootType
<1>9. CASE LazyMount
  BY <1>9, PlaceType DEF TypeOK, LazyMount
<1>10. CASE MountOrUnmountSD
  BY <1>10 DEF TypeOK, MountOrUnmountSD, MountSD, UnmountSD
<1>11. CASE Reboot
  BY <1>11, RebootType
<1>12. CASE UNCHANGED vars
  BY <1>12 DEF TypeOK, vars
<1> QED BY <1>1, <1>2, <1>3, <1>4, <1>5, <1>6, <1>7, <1>8, <1>9, <1>10, <1>11, <1>12 DEF Next

(* Every variable keeps its type.                                          *)
THEOREM TypeCorrect == Spec => []TypeOK
  BY InitType, NextType, PTL DEF Spec

-----------------------------------------------------------------------------
(* The switch of emummc.c and the connection.  Only connectMMC and the     *)
(* derivation of the keys change either, and both change the two together. *)
LEMMA InitActive == Init => ConnectedDeviceIsActive
  BY DEF Init, ConnectedDeviceIsActive

LEMMA NextActive == ConnectedDeviceIsActive /\ [Next]_vars => ConnectedDeviceIsActive'
<1> SUFFICES ASSUME ConnectedDeviceIsActive, [Next]_vars PROVE ConnectedDeviceIsActive'
  OBVIOUS
<1> USE DEF ConnectedDeviceIsActive, ActiveDevice
<1>1. CASE DumpKeys
  BY <1>1 DEF DumpKeys
<1>2. CASE GetKeysFromFile
  BY <1>2 DEF GetKeysFromFile, BootDone
<1>3. ASSUME NEW type \in Device, ConnectMMC(type) PROVE ConnectedDeviceIsActive'
  BY <1>3 DEF ConnectMMC, Connect, Wanted, ForceDisable
<1>4. CASE DisconnectMMC
  BY <1>4 DEF DisconnectMMC, Disconnect
<1>5. CASE UnmountMMCPart
  BY <1>5 DEF UnmountMMCPart
<1>6. ASSUME NEW name \in Name, MountMMCPart(name) PROVE ConnectedDeviceIsActive'
  BY <1>6 DEF MountMMCPart
<1>7. ASSUME NEW name \in Name, TransferPart(name) PROVE ConnectedDeviceIsActive'
  BY <1>7 DEF TransferPart
<1>8. ASSUME NEW area \in {1, 2}, TransferBoot(area) PROVE ConnectedDeviceIsActive'
  BY <1>8 DEF TransferBoot
<1>9. CASE LazyMount
  BY <1>9 DEF LazyMount
<1>10. CASE MountOrUnmountSD
  BY <1>10 DEF MountOrUnmountSD
<1>11. CASE Reboot
  BY <1>11 DEF Reboot
<1>12. CASE UNCHANGED vars
  BY <1>12 DEF vars
<1> QED BY <1>1, <1>2, <1>3, <1>4, <1>5, <1>6, <1>7, <1>8, <1>9, <1>10, <1>11, <1>12 DEF Next

(* While something is connected, emummc.c reads and writes that device.    *)
THEOREM DeviceIsActive == Spec => []ConnectedDeviceIsActive
  BY InitActive, NextActive, PTL DEF Spec

-----------------------------------------------------------------------------
(* When the eMMC obeys, selecting an area makes it the one that is reached. *)
LEMMA AreaSelected ==
  ASSUME MmcMayFail = FALSE, NEW area \in Area,
         NEW switched \in Outcomes(MmcMayFail), SetMmcPartition(area, switched),
         enabled' = enabled, emummc_force_disable' = emummc_force_disable
  PROVE  ActiveDevice' = ActiveDevice /\ ActiveArea' = area
<1>1. switched = TRUE
  BY DEF Outcomes
<1> QED BY <1>1 DEF SetMmcPartition, ActiveDevice, ActiveArea

LEMMA MountReaches ==
  ASSUME MmcMayFail = FALSE, TypeOK, ConnectedDeviceIsActive, AccessReachesWhatIsMeant,
         NEW name \in Name, MountMMCPart(name)
  PROVE  AccessReachesWhatIsMeant'
<1>1. CASE Found(name)
  <2>1. PICK switched \in Outcomes(MmcMayFail) : SetMmcPartition(0, switched)
    BY DEF MountMMCPart, MountSelectsUserArea
  <2>2. /\ enabled' = enabled /\ emummc_force_disable' = emummc_force_disable
        /\ Connected
    BY DEF MountMMCPart
  <2>3. ActiveDevice' = currentMMCConnected /\ ActiveArea' = 0
    BY <2>1, <2>2, AreaSelected, 0 \in Area DEF ConnectedDeviceIsActive, Connected
  <2>4. system_part'.name = name
    BY <1>1, FindType DEF MountMMCPart
  <2>5. last' = Access(0, name, BisPlace')
    BY <1>1 DEF MountMMCPart
  <2> QED BY <2>3, <2>4, <2>5 DEF AccessReachesWhatIsMeant, Access, Observed, BisPlace
<1>2. CASE ~Found(name)
  BY <1>2 DEF MountMMCPart, AccessReachesWhatIsMeant
<1> QED BY <1>1, <1>2

LEMMA TransferReaches ==
  ASSUME MmcMayFail = FALSE, TypeOK, ConnectedDeviceIsActive, AccessReachesWhatIsMeant,
         \/ \E name \in Name : TransferPart(name)
         \/ \E area \in {1, 2} : TransferBoot(area)
  PROVE  AccessReachesWhatIsMeant'
<1>1. CASE UNCHANGED last
  BY <1>1 DEF AccessReachesWhatIsMeant
<1>2. ASSUME NEW name \in Name, TransferPart(name), last' # last
      PROVE  AccessReachesWhatIsMeant'
  <2>1. PICK switched \in Outcomes(MmcMayFail) : SetMmcPartition(0, switched)
    BY <1>2 DEF TransferPart, TransferSelectsUserArea
  <2>2. /\ enabled' = enabled /\ emummc_force_disable' = emummc_force_disable
        /\ Connected
    BY <1>2 DEF TransferPart
  <2>3. ActiveDevice = currentMMCConnected /\ ActiveArea' = 0
    BY <2>1, <2>2, AreaSelected, 0 \in Area DEF ConnectedDeviceIsActive, Connected
  <2>4. Found(name) /\ Find(name).name = name
    BY <1>2, FindType DEF TransferPart
  <2>5. last' = Access(0, name, [dev |-> ActiveDevice, area |-> ActiveArea', name |-> Find(name).name])
    BY <1>2, <2>4 DEF TransferPart
  <2> QED BY <2>3, <2>4, <2>5 DEF AccessReachesWhatIsMeant, Access, Observed
<1>3. ASSUME NEW area \in {1, 2}, TransferBoot(area), last' # last
      PROVE  AccessReachesWhatIsMeant'
  <2>1. PICK switched \in Outcomes(MmcMayFail) : SetMmcPartition(area, switched)
    BY <1>3 DEF TransferBoot
  <2>2. /\ enabled' = enabled /\ emummc_force_disable' = emummc_force_disable
        /\ Connected
    BY <1>3 DEF TransferBoot
  <2>3. ActiveDevice = currentMMCConnected /\ ActiveArea' = area
    BY <2>1, <2>2, AreaSelected, area \in Area DEF ConnectedDeviceIsActive, Connected
  <2>4. last' = Access(area, NoName, [dev |-> ActiveDevice, area |-> ActiveArea', name |-> NoName])
    BY <1>3 DEF TransferBoot
  <2> QED BY <2>3, <2>4 DEF AccessReachesWhatIsMeant, Access, Observed
<1> QED BY <1>1, <1>2, <1>3

LEMMA NextReaches ==
  ASSUME MmcMayFail = FALSE, TypeOK, ConnectedDeviceIsActive, AccessReachesWhatIsMeant,
         [Next]_vars
  PROVE  AccessReachesWhatIsMeant'
<1>1. CASE DumpKeys
  <2>1. hw_part' = 1
    BY <1>1 DEF DumpKeys, Outcomes
  <2> QED BY <1>1, <2>1 DEF DumpKeys, Observed, AccessReachesWhatIsMeant
<1>2. CASE Reboot
  BY <1>2 DEF Reboot, NoAccess, AccessReachesWhatIsMeant
<1>3. ASSUME NEW name \in Name, MountMMCPart(name) PROVE AccessReachesWhatIsMeant'
  BY <1>3, MountReaches
<1>4. CASE \/ \E name \in Name : TransferPart(name)
           \/ \E area \in {1, 2} : TransferBoot(area)
  BY <1>4, TransferReaches
<1>5. CASE UNCHANGED last
  BY <1>5 DEF AccessReachesWhatIsMeant
<1>6. GetKeysFromFile \/ DisconnectMMC \/ UnmountMMCPart \/ LazyMount \/ MountOrUnmountSD
      \/ (\E type \in Device : ConnectMMC(type)) \/ UNCHANGED vars => UNCHANGED last
  BY DEF GetKeysFromFile, DisconnectMMC, UnmountMMCPart, LazyMount, MountOrUnmountSD, ConnectMMC, vars
<1> QED BY <1>1, <1>2, <1>3, <1>4, <1>5, <1>6 DEF Next

(* An eMMC that obeys its commands: whatever was selected before, a mount, *)
(* a dump or a restore reaches the device, area and partition it names.    *)
THEOREM AccessReaches ==
  ASSUME MmcMayFail = FALSE
  PROVE  Spec => []AccessReachesWhatIsMeant
<1>1. Init => AccessReachesWhatIsMeant
  BY DEF Init, NoAccess, AccessReachesWhatIsMeant
<1>2. TypeOK /\ ConnectedDeviceIsActive /\ AccessReachesWhatIsMeant /\ [Next]_vars
      => AccessReachesWhatIsMeant'
  BY NextReaches
<1> QED BY <1>1, <1>2, TypeCorrect, DeviceIsActive, PTL DEF Spec

-----------------------------------------------------------------------------
(* The invariant behind MountedFromConnectedDevice.  It adds that a        *)
(* mounted partition implies a connection and that nothing is mounted      *)
(* while the keys are looked for at boot: the connection made there would  *)
(* meet it.                                                                *)
Mounting ==
  /\ MountedFromConnectedDevice
  /\ connectedMMCMounted => ~booting /\ currentMMCConnected # "none"

LEMMA UnmountedKeeps ==
  ASSUME Unmount
  PROVE  Mounting'
  BY DEF Unmount, Mounting, MountedFromConnectedDevice

LEMMA MountKeepsMounting ==
  ASSUME ConnectedDeviceIsActive, Mounting, NEW name \in Name, MountMMCPart(name)
  PROVE  Mounting'
<1>1. CASE Found(name) /\ connectedMMCMounted'
  <2>1. Mountable(BisPlace') /\ emmc_fs' = BisPlace' /\ registered'
    BY <1>1 DEF MountMMCPart
  <2>2. BisPlace'.dev = currentMMCConnected'
    BY DEF MountMMCPart, ConnectedDeviceIsActive, Connected, ActiveDevice, BisPlace
  <2>3. ~booting' /\ currentMMCConnected' # "none"
    BY DEF MountMMCPart, Connected
  <2> QED BY <2>1, <2>2, <2>3 DEF Mounting, MountedFromConnectedDevice, Mountable
<1>2. CASE Found(name) /\ ~connectedMMCMounted'
  BY <1>2 DEF Mounting, MountedFromConnectedDevice
<1>3. CASE ~Found(name)
  BY <1>3, UnmountedKeeps DEF MountMMCPart
<1> QED BY <1>1, <1>2, <1>3

LEMMA NextMounting ==
  ASSUME ConnectedDeviceIsActive, Mounting, [Next]_vars
  PROVE  Mounting'
<1> USE DEF Mounting, MountedFromConnectedDevice
<1>1. CASE DumpKeys
  BY <1>1 DEF DumpKeys, BootDone
<1>2. CASE GetKeysFromFile
  BY <1>2 DEF GetKeysFromFile, BootDone
<1>3. ASSUME NEW type \in Device, ConnectMMC(type) PROVE Mounting'
  BY <1>3, UnmountedKeeps DEF ConnectMMC, Connect
<1>4. CASE DisconnectMMC
  BY <1>4, UnmountedKeeps DEF DisconnectMMC, Disconnect
<1>5. CASE UnmountMMCPart
  BY <1>5, UnmountedKeeps DEF UnmountMMCPart
<1>6. ASSUME NEW name \in Name, MountMMCPart(name) PROVE Mounting'
  BY <1>6, MountKeepsMounting
<1>7. ASSUME NEW name \in Name, TransferPart(name) PROVE Mounting'
  BY <1>7 DEF TransferPart
<1>8. ASSUME NEW area \in {1, 2}, TransferBoot(area) PROVE Mounting'
  BY <1>8 DEF TransferBoot
<1>9. CASE LazyMount
  BY <1>9 DEF LazyMount, NoPlace
<1>10. CASE MountOrUnmountSD
  BY <1>10 DEF MountOrUnmountSD
<1>11. CASE Reboot
  BY <1>11 DEF Reboot
<1>12. CASE UNCHANGED vars
  BY <1>12 DEF vars
<1> QED BY <1>1, <1>2, <1>3, <1>4, <1>5, <1>6, <1>7, <1>8, <1>9, <1>10, <1>11, <1>12 DEF Next

(* A partition that counts as mounted came from the user area of the       *)
(* device that is connected now, whichever connections were made, failed   *)
(* or were dropped before (source/storage/mountmanager.c 31-86).           *)
THEOREM MountedFromConnected == Spec => []MountedFromConnectedDevice
<1>1. Init => Mounting
  BY DEF Init, Mounting, MountedFromConnectedDevice
<1>2. ConnectedDeviceIsActive /\ Mounting /\ [Next]_vars => Mounting'
  BY NextMounting
<1>3. Mounting => MountedFromConnectedDevice
  BY DEF Mounting
<1> QED BY <1>1, <1>2, <1>3, DeviceIsActive, PTL DEF Spec

HIDE DEF Area, Device, bootVars, mmcVars, fsVars

-----------------------------------------------------------------------------
(* The session.                                                            *)

(* What the screens know of each other.                                    *)
Below   == where = "gpt" \/ (where = "explorer" /\ root = "bis")
Screens ==
  /\ booting <=> where = "boot"
  /\ where = "explorer" => curExplorerLoc # "none"
  /\ where = "explorer" /\ explorerCopyMode = "move" => srcCopy = FileOn(root)
  /\ Below => menuDevice # "none"

Mounts == TypeOK /\ ConnectedDeviceIsActive /\ Mounting
Inv    == Mounts /\ UiTypeOK /\ Screens /\ ClipboardWhole

-----------------------------------------------------------------------------
(* The mounts below the menus.                                             *)
LEMMA StepBelow ==
  ASSUME Inv, [SessionNext]_allVars
  PROVE  Next \/ UNCHANGED vars \/ FormatSD
<1>1. CASE Boot \/ Reset
  BY <1>1 DEF Boot, Reset, Next
<1>2. CASE BrowseSd \/ LeaveGptMenu \/ (\E mode \in CopyModes : Pick(mode)) \/ Paste
           \/ LeaveExplorer \/ UNCHANGED allVars
  BY <1>2 DEF BrowseSd, LeaveGptMenu, Pick, Paste, LeaveExplorer, allVars
<1>3. CASE MountOrUnmountFromMenu
  BY <1>3 DEF MountOrUnmountFromMenu, Next
<1>4. ASSUME NEW type \in Device, OpenGptMenu(type) PROVE Next \/ UNCHANGED vars
  BY <1>4 DEF OpenGptMenu, Next
<1>5. ASSUME NEW name \in Name, OpenPartition(name) PROVE Next
  <2>1. ~booting
    BY <1>5 DEF OpenPartition, Inv, Screens
  <2>2. CASE NotMounted
    BY <2>1, <2>2 DEF NotMounted, UnmountMMCPart, Next
  <2>3. CASE MountPart(name)
    BY <2>3 DEF MountPart, Next
  <2> QED BY <1>5, <2>2, <2>3 DEF OpenPartition
<1>6. CASE DumpEntry \/ Flash
  BY <1>6 DEF DumpEntry, Flash, Shown, Next
<1>7. CASE LaunchPayloadFails
  <2>1. ~booting
    BY <1>7 DEF LaunchPayloadFails, Inv, Screens
  <2>2. CASE sd_mounted
    BY <1>7, <2>1, <2>2 DEF LaunchPayloadFails, MountOrUnmountSD, UnmountSD, Next
  <2>3. CASE ~sd_mounted
    <3>1. sd_mounted' = sd_mounted
      BY <1>7, <2>3, Zenon DEF LaunchPayloadFails, Inv, Mounts, TypeOK
    <3> QED BY <1>7, <3>1 DEF LaunchPayloadFails, vars
  <2> QED BY <2>2, <2>3
<1>8. CASE RunScript \/ PathOnBis
  BY <1>8 DEF RunScript, ScriptCall, PathOnBis, Next
<1> QED BY <1>1, <1>2, <1>3, <1>4, <1>5, <1>6, <1>7, <1>8 DEF SessionNext

LEMMA FormatKeepsMounts ==
  ASSUME Mounts, FormatSD
  PROVE  Mounts'
<1>1. TypeOK'
  <2>1. UNCHANGED <<booting, enabled, keysDumped, emummc_force_disable, active_part, hw_part,
                    curGpt, system_part, last>>
    BY DEF FormatSD, Disconnect, bootVars
  <2>2. registered' \in BOOLEAN /\ emmc_fs' \in Place \cup {NoPlace} /\ connectedMMCMounted' \in BOOLEAN
    BY UnmountType DEF FormatSD, Disconnect, Mounts
  <2>3. currentMMCConnected' \in Device \cup {"none"} /\ sd_mounted' \in BOOLEAN
    BY DEF FormatSD, Disconnect
  <2> QED BY <2>1, <2>2, <2>3 DEF Mounts, TypeOK
<1>2. ConnectedDeviceIsActive'
  BY DEF FormatSD, Disconnect, ConnectedDeviceIsActive
<1>3. Mounting'
  BY UnmountedKeeps DEF FormatSD, Disconnect
<1> QED BY <1>1, <1>2, <1>3 DEF Mounts

LEMMA MountsNext ==
  ASSUME Inv, [SessionNext]_allVars
  PROVE  Mounts'
<1>1. CASE FormatSD
  BY <1>1, FormatKeepsMounts DEF Inv
<1>2. CASE [Next]_vars
  BY <1>2, NextType, NextActive, NextMounting DEF Inv, Mounts
<1> QED BY <1>1, <1>2, StepBelow

-----------------------------------------------------------------------------
LEMMA FileOnTyped ==
  ASSUME UiTypeOK, NEW vol \in {"sd", "bis"}
  PROVE  FileOn(vol) \in Source /\ FileOn(vol) # Null
  BY DEF UiTypeOK, FileOn, Source, Null

LEMMA ResetTyped ==
  ASSUME ResetCopyParams
  PROVE  /\ explorerCopyMode' \in CopyModes \cup {"none"} /\ explorerCopyMode' # "move"
         /\ srcCopy' \in Source \cup {Null} /\ heldExplorerCopyLoc' \in Loc
         /\ ClipboardWhole'
  BY DEF ResetCopyParams, Loc, ClipboardWhole

(* The explorer takes a move that was begun elsewhere out of the           *)
(* clipboard.                                                              *)
LEMMA EnteredTyped ==
  ASSUME UiTypeOK, ClipboardWhole,
         \/ ResetCopyParams
         \/ explorerCopyMode # "move" /\ UNCHANGED clipVars
  PROVE  /\ explorerCopyMode' \in CopyModes \cup {"none"} /\ explorerCopyMode' # "move"
         /\ srcCopy' \in Source \cup {Null} /\ heldExplorerCopyLoc' \in Loc
         /\ ClipboardWhole'
<1>1. CASE ResetCopyParams
  BY <1>1, ResetTyped
<1>2. CASE explorerCopyMode # "move" /\ UNCHANGED clipVars
  BY <1>2 DEF clipVars, UiTypeOK, ClipboardWhole
<1> QED BY <1>1, <1>2

Ui == UiTypeOK /\ Screens /\ ClipboardWhole

(* A step that changes no more of the menus than whether a script has run. *)
LEMMA UiKept ==
  ASSUME Inv, UNCHANGED <<booting, where, root, menuDevice, flashEntry, opened, clipVars,
                          curExplorerLoc>>,
         scripted' \in BOOLEAN
  PROVE  Ui'
<1>1. FileOn(root)' = FileOn(root)
  BY DEF FileOn
<1> QED BY <1>1 DEF Inv, Ui, clipVars, UiTypeOK, Screens, Below, ClipboardWhole

LEMMA NoMenuTyped ==
  ASSUME NoMenu
  PROVE  /\ menuDevice' \in Device \cup {"none"} /\ flashEntry' \in BOOLEAN
         /\ opened' \in Place \cup {NoPlace} /\ scripted' \in BOOLEAN
  BY Zenon DEF NoMenu

LEMMA UiNext ==
  ASSUME Inv, [SessionNext]_allVars
  PROVE  Ui'
<1> USE DEF Inv, Ui
<1>1. CASE Boot
  BY <1>1 DEF Boot, DumpKeys, GetKeysFromFile, BootDone, clipVars, gptVars, UiTypeOK, Screens, Below,
              ClipboardWhole
<1>2. CASE Reset
  BY <1>2, ResetTyped, NoMenuTyped DEF Reset, Reboot, UiTypeOK, Screens, Below, Loc
<1>3. CASE BrowseSd
  <2>1. CASE EnterExplorer("sd")
    BY <1>3, <2>1, EnteredTyped
       DEF BrowseSd, EnterExplorer, vars, bootVars, gptVars, UiTypeOK, Screens, Below, Loc
  <2>2. CASE UNCHANGED <<where, root, clipVars>>
    BY <1>3, <2>2 DEF BrowseSd, vars, bootVars, gptVars, clipVars, UiTypeOK, Screens, Below, Loc,
                      ClipboardWhole
  <2> QED BY <1>3, <2>1, <2>2 DEF BrowseSd
<1>4. CASE MountOrUnmountFromMenu \/ FormatSD \/ DumpEntry \/ Flash \/ LaunchPayloadFails
           \/ PathOnBis \/ UNCHANGED allVars
  <2>1. UNCHANGED <<booting, uiVars>>
    BY <1>4 DEF MountOrUnmountFromMenu, MountOrUnmountSD, FormatSD, DumpEntry, Flash, TransferBoot,
                TransferPart, LaunchPayloadFails, PathOnBis, LazyMount, allVars, vars, bootVars
  <2> QED BY <2>1, UiKept DEF uiVars, gptVars, UiTypeOK
<1>5. CASE RunScript
  <2>1. UNCHANGED <<booting, where, root, menuDevice, flashEntry, opened, clipVars, curExplorerLoc>>
    BY <1>5 DEF RunScript, ScriptCall, ConnectMMC, MountMMCPart, TransferPart, TransferBoot, LazyMount,
                MountOrUnmountSD, bootVars
  <2>2. scripted' \in BOOLEAN
    BY <1>5, Zenon DEF RunScript
  <2> QED BY <2>1, <2>2, UiKept
<1>6. ASSUME NEW type \in Device, OpenGptMenu(type) PROVE Ui'
  <2>1. /\ booting' = booting /\ where = "main"
        /\ UNCHANGED <<root, opened, scripted, clipVars, curExplorerLoc>>
    BY <1>6 DEF OpenGptMenu, ConnectMMC, vars, bootVars
  <2>2. \/ where' = "gpt" /\ menuDevice' = type /\ flashEntry' \in BOOLEAN
        \/ UNCHANGED <<where, menuDevice, flashEntry>>
    BY <1>6, Zenon DEF OpenGptMenu
  <2>3. type # "none"
    BY DEF Device
  <2> QED BY <2>1, <2>2, <2>3 DEF clipVars, UiTypeOK, Screens, Below, ClipboardWhole
<1>7. ASSUME NEW name \in Name, OpenPartition(name) PROVE Ui'
  <2>1. /\ booting' = booting /\ where = "gpt"
        /\ UNCHANGED <<menuDevice, flashEntry, scripted>>
    BY <1>7 DEF OpenPartition, NotMounted, MountPart, MountMMCPart, bootVars
  <2>2. CASE connectedMMCMounted'
    <3>1. /\ curExplorerLoc' = "emmc" /\ where' = "explorer" /\ root' = "bis"
          /\ opened' = [dev |-> menuDevice, area |-> 0, name |-> name]
          /\ ResetCopyParams \/ (explorerCopyMode # "move" /\ UNCHANGED clipVars)
      BY <1>7, <2>2 DEF OpenPartition
    <3>2. menuDevice \in Device
      BY <2>1 DEF UiTypeOK, Screens, Below
    <3>3. opened' \in Place
      BY <3>1, <3>2 DEF Place, Area
    <3> QED BY <2>1, <3>1, <3>2, <3>3, EnteredTyped DEF UiTypeOK, Screens, Below, Loc
  <2>3. CASE ~connectedMMCMounted'
    <3>1. UNCHANGED <<where, root, opened, clipVars, curExplorerLoc>>
      BY <1>7, <2>3 DEF OpenPartition
    <3> QED BY <2>1, <3>1, UiKept DEF UiTypeOK
  <2> QED BY <2>2, <2>3
<1>8. CASE LeaveGptMenu
  <2>1. UNCHANGED <<booting, root, clipVars, curExplorerLoc>> /\ NoMenu /\ where = "gpt" /\ where' = "main"
    BY <1>8 DEF LeaveGptMenu, vars, bootVars
  <2> QED BY <2>1, NoMenuTyped DEF clipVars, UiTypeOK, Screens, Below, ClipboardWhole
<1>9. CASE LeaveExplorer
  <2>1. /\ UNCHANGED <<booting, root, menuDevice, flashEntry, scripted, clipVars, curExplorerLoc>>
        /\ where = "explorer" /\ opened' = NoPlace
        /\ where' = IF root = "sd" THEN "main" ELSE "gpt"
    BY <1>9 DEF LeaveExplorer, vars, bootVars
  <2>2. where' = "gpt" => root = "bis"
    BY <2>1 DEF UiTypeOK
  <2> QED BY <2>1, <2>2 DEF clipVars, UiTypeOK, Screens, Below, ClipboardWhole
<1>10. ASSUME NEW mode \in CopyModes, Pick(mode) PROVE Ui'
  <2>1. FileOn(root) \in Source /\ FileOn(root) # Null
    BY FileOnTyped DEF UiTypeOK
  <2>2. /\ explorerCopyMode' = mode /\ srcCopy' = FileOn(root)
        /\ heldExplorerCopyLoc' = curExplorerLoc
        /\ UNCHANGED <<booting, where, root, gptVars, curExplorerLoc>> /\ where = "explorer"
    BY <1>10 DEF Pick, SetCopyParams, vars, bootVars
  <2>3. FileOn(root)' = FileOn(root)
    BY <2>2 DEF FileOn, gptVars
  <2>4. mode # "none"
    BY <1>10 DEF CopyModes
  <2> QED BY <2>1, <2>2, <2>3, <2>4 DEF gptVars, UiTypeOK, Screens, Below, ClipboardWhole
<1>11. CASE Paste
  BY <1>11, ResetTyped DEF Paste, vars, bootVars, gptVars, UiTypeOK, Screens, Below
<1> QED
  BY <1>1, <1>2, <1>3, <1>4, <1>5, <1>6, <1>7, <1>8, <1>9, <1>10, <1>11 DEF SessionNext

LEMMA InvInit == SessionInit => Inv
<1> SUFFICES ASSUME SessionInit PROVE Inv
  OBVIOUS
<1>1. Mounts
  BY InitType, InitActive DEF SessionInit, Mounts, Init, Mounting, MountedFromConnectedDevice
<1>2. UiTypeOK /\ Screens /\ ClipboardWhole
  BY DEF SessionInit, Init, UiInit, UiTypeOK, Screens, Below, ClipboardWhole, Null, Loc
<1> QED BY <1>1, <1>2 DEF Inv

LEMMA InvNext == Inv /\ [SessionNext]_allVars => Inv'
  BY MountsNext, UiNext DEF Inv, Ui

(* The types of the menus' state (source/tegraexplorer/tconf.h 20-39).     *)
THEOREM UiTypeCorrect == SessionSpec => []UiTypeOK
<1> QED BY InvInit, InvNext, PTL DEF SessionSpec, Inv

(* The clipboard is empty or holds a mode, a path and a location           *)
(* (source/tegraexplorer/tconf.c 6-26).                                    *)
THEOREM ClipboardAlwaysWhole == SessionSpec => []ClipboardWhole
<1> QED BY InvInit, InvNext, PTL DEF SessionSpec, Inv

-----------------------------------------------------------------------------
(* Until a script runs, the connection is the one the partition menu was   *)
(* opened on, and the explorer below it keeps the partition it mounted.    *)
MenuHolds == Below /\ ~scripted => currentMMCConnected = menuDevice
Opened    == MenuHolds /\ ExplorerReachesItsPartition

(* Steps that do not touch what drive "bis:" is.                           *)
LEMMA OpenedKept ==
  ASSUME Opened, UNCHANGED <<where, root, gptVars, bootVars, mmcVars, system_part, connectedMMCMounted,
                             emmc_fs>>
  PROVE  Opened'
<1>1. BisPlace' = BisPlace
  BY DEF BisPlace, ActiveDevice, ActiveArea, bootVars, mmcVars
<1> QED BY <1>1 DEF Opened, MenuHolds, Below, ExplorerReachesItsPartition, gptVars, mmcVars

LEMMA OpenedNext ==
  ASSUME Inv, Opened, [SessionNext]_allVars
  PROVE  Opened'
<1> USE DEF Opened, MenuHolds, Below
<1>1. ASSUME NEW name \in Name, OpenPartition(name) PROVE Opened'
  <2>1. /\ where = "gpt" /\ UNCHANGED <<menuDevice, scripted, currentMMCConnected>>
    BY <1>1 DEF OpenPartition, NotMounted, MountPart, MountMMCPart, mmcVars
  <2>2. MenuHolds'
    BY <2>1
  <2>3. CASE connectedMMCMounted' /\ ~scripted
    <3>1. MountMMCPart(name) /\ Found(name) /\ opened' = [dev |-> menuDevice, area |-> 0, name |-> name]
      BY <1>1, <2>3 DEF OpenPartition, NotMounted, Unmount, MountPart, Shown
    <3>2. emmc_fs' = BisPlace' /\ system_part' = Find(name) /\ Mountable(BisPlace')
      BY <2>3, <3>1 DEF MountMMCPart
    <3>3. BisPlace'.dev = menuDevice
      BY <2>1, <2>3, <3>1 DEF Inv, Mounts, MountMMCPart, ConnectedDeviceIsActive, Connected, ActiveDevice,
                              BisPlace, bootVars
    <3>4. BisPlace'.area = 0 /\ BisPlace'.name = name
      <4>1. Find(name).name = name
        BY <3>1, FindType DEF Inv, Mounts
      <4> QED BY <3>2, <4>1 DEF Mountable, BisPlace
    <3>5. BisPlace' = opened'
      BY <3>1, <3>3, <3>4 DEF BisPlace
    <3> QED BY <2>2, <2>3, <3>2, <3>5 DEF ExplorerReachesItsPartition
  <2>4. CASE ~connectedMMCMounted' \/ scripted
    <3>1. ~connectedMMCMounted' => where' = "gpt"
      BY <1>1, <2>1 DEF OpenPartition
    <3> QED BY <2>1, <2>2, <2>4, <3>1 DEF ExplorerReachesItsPartition
  <2> QED BY <2>3, <2>4
<1>2. CASE (\E mode \in CopyModes : Pick(mode)) \/ Paste \/ LaunchPayloadFails \/ UNCHANGED allVars
  <2>1. UNCHANGED <<where, root, gptVars, bootVars, mmcVars, system_part, fsVars>>
    BY <1>2 DEF Pick, Paste, LaunchPayloadFails, allVars, vars, uiVars
  <2> QED BY <2>1, OpenedKept DEF fsVars
<1>3. CASE PathOnBis
  <2>1. CASE Below /\ ~scripted
    <3>1. connectedMMCMounted /\ emmc_fs = NoPlace
      BY <1>3, <2>1 DEF PathOnBis, LazyMount, ExplorerReachesItsPartition
    <3> QED BY <3>1 DEF Inv, Mounts, Mounting, MountedFromConnectedDevice, NoPlace
  <2>2. CASE ~(Below /\ ~scripted)
    BY <1>3, <2>2 DEF PathOnBis, uiVars, gptVars, ExplorerReachesItsPartition
  <2> QED BY <2>1, <2>2
<1>4. CASE DumpEntry \/ Flash
  <2>1. where' = "gpt" /\ UNCHANGED <<where, root, menuDevice, scripted, currentMMCConnected>>
    BY <1>4 DEF DumpEntry, Flash, TransferBoot, TransferPart, MountOrUnmountSD, uiVars, gptVars, mmcVars
  <2> QED BY <2>1 DEF ExplorerReachesItsPartition
<1>5. CASE RunScript
  BY <1>5 DEF RunScript, ExplorerReachesItsPartition
<1>6. CASE LeaveExplorer
  BY <1>6 DEF LeaveExplorer, vars, mmcVars, ExplorerReachesItsPartition, Inv, UiTypeOK
<1>7. ASSUME NEW type \in Device, OpenGptMenu(type) PROVE Opened'
  BY <1>7 DEF OpenGptMenu, ExplorerReachesItsPartition
<1>8. CASE where' = "boot" \/ where' = "main" \/ (where' = "explorer" /\ root' = "sd")
  BY <1>8 DEF ExplorerReachesItsPartition
<1>9. Boot \/ Reset \/ BrowseSd \/ MountOrUnmountFromMenu \/ FormatSD \/ LeaveGptMenu
      => where' = "boot" \/ where' = "main" \/ (where' = "explorer" /\ root' = "sd")
  BY DEF Boot, Reset, BrowseSd, EnterExplorer, MountOrUnmountFromMenu, FormatSD, LeaveGptMenu, uiVars
<1> QED BY <1>1, <1>2, <1>3, <1>4, <1>5, <1>6, <1>7, <1>8, <1>9 DEF SessionNext

LEMMA OpenedInit == SessionInit => Opened
  BY DEF SessionInit, UiInit, Opened, MenuHolds, Below, ExplorerReachesItsPartition

(* What the explorer shows as "bis:" is the partition that was chosen, of  *)
(* the device the menu names, whatever was dumped, flashed, formatted or   *)
(* unmounted before and between, until a script is started from it         *)
(* (source/storage/gptmenu.c 109-121).                                     *)
THEOREM ExplorerReaches == SessionSpec => []ExplorerReachesItsPartition
<1>1. Inv /\ Opened /\ [SessionNext]_allVars => Opened'
  BY OpenedNext
<1>2. Opened => ExplorerReachesItsPartition
  BY DEF Opened
<1> QED BY InvInit, InvNext, OpenedInit, <1>1, <1>2, PTL DEF SessionSpec

(* A move is only ever pasted in the explorer of the partition it was      *)
(* picked from, and finds there what was picked, unless a script has       *)
(* mounted another partition (source/fs/menus/explorer.c 40-41, 94-97).    *)
THEOREM MovesStay == SessionSpec => MoveStaysOnItsVolume
<1> DEFINE Stays == Paste /\ explorerCopyMode = "move" =>
                      /\ srcCopy = FileOn(root)
                      /\ scripted \/ SourceNow(srcCopy) = srcCopy.of
<1>1. Inv /\ Opened => Stays
  <2> SUFFICES ASSUME Inv, Opened, Paste, explorerCopyMode = "move"
               PROVE  srcCopy = FileOn(root) /\ (scripted \/ SourceNow(srcCopy) = srcCopy.of)
    OBVIOUS
  <2>1. where = "explorer" /\ srcCopy = FileOn(root)
    BY DEF Paste, Inv, Screens
  <2>2. root = "bis" /\ ~scripted => BisPlace = opened
    BY <2>1 DEF Opened, ExplorerReachesItsPartition
  <2>3. scripted \/ SourceNow(FileOn(root)) = FileOn(root).of
    BY <2>2 DEF SourceNow, FileOn
  <2> QED BY <2>1, <2>3
<1>2. Inv /\ Opened /\ [SessionNext]_allVars => Opened'
  BY OpenedNext
<1>3. [][Inv /\ Opened /\ SessionNext]_allVars => [][Stays]_allVars
  BY <1>1, PTL
<1> QED BY InvInit, InvNext, OpenedInit, <1>2, <1>3, PTL DEF SessionSpec, MoveStaysOnItsVolume
=============================================================================
