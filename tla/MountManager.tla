---------------------------- MODULE MountManager ----------------------------
(***************************************************************************)
(* Which flash area an access of TegraExplorer reaches: the connection to  *)
(* the sysMMC or the emuMMC, the parsed partition table, the partition the *)
(* cluster cache works on and the FatFs volume "bis:"                      *)
(* (source/storage/mountmanager.c, emummc.c, nx_emmc.c, emmcfile.c and the *)
(* callers in gptmenu.c, keys.c, tools.c and standardLibrary.c).           *)
(*                                                                         *)
(* Everything runs in one thread; a step is one call of a public function. *)
(* Their clients are the menus and the scripts, which make these calls in  *)
(* any order.  The data transferred is left out: an access is described by *)
(* the place it reaches.                                                   *)
(***************************************************************************)
EXTENDS Naturals, Sequences

CONSTANTS
  Name,        (* names of GPT partitions                                  *)
  Layout,      (* the GPT of either device: a sequence of names            *)
  Crypt,       (* the partitions isSystemPartCrypt holds for               *)
  Fat,         (* the ones among them with a FAT file system               *)
  NoName,      (* no GPT partition: the whole area                         *)
  MmcMayFail,  (* whether commands to the eMMC may fail                    *)
  MaxStale     (* bound: the freed entries a walk of the table visits      *)

ASSUME NamesAssumption ==
  /\ Layout \in Seq(Name)
  /\ Crypt \subseteq Name
  /\ Fat \subseteq Crypt
  /\ NoName \notin Name

ASSUME FlagsAssumption ==
  /\ MmcMayFail \in BOOLEAN
  /\ MaxStale \in Nat

VARIABLES
  booting,               (* the keys have not been looked for yet          *)
  enabled,               (* emu_cfg.enabled: there is an emuMMC            *)
  keysDumped,            (* TConf.keysDumped                               *)
  sd_mounted,
  emummc_force_disable,  (* h_cfg.emummc_force_disable                     *)
  active_part,           (* emu_cfg.active_part                            *)
  hw_part,               (* the hardware partition the eMMC has switched to *)
  currentMMCConnected,
  curGpt,                (* the entries a walk of the list visits          *)
  system_part,           (* the entry nx_emmc_bis_init was called with     *)
  registered,            (* FatFs has a file system object for "bis:"      *)
  emmc_fs,               (* the place that object was filled from          *)
  connectedMMCMounted,
  last                   (* observation: what the last access was meant to *)
                         (* reach and what it reached, when the two differ *)

bootVars == <<booting, enabled, keysDumped>>
mmcVars  == <<emummc_force_disable, active_part, hw_part, currentMMCConnected, curGpt>>
fsVars   == <<registered, emmc_fs, connectedMMCMounted>>
vars     == <<bootVars, sd_mounted, mmcVars, system_part, fsVars, last>>

-----------------------------------------------------------------------------
Device == {"emmc", "emummc"}
Area   == 0 .. 2              (* the user area, BOOT0 and BOOT1            *)
Entry  == [dev : Device, name : Name]    (* the device it was read from    *)
NoEntry == [dev |-> "emmc", name |-> NoName]
Place  == [dev : Device, area : Area, name : Name \cup {NoName}]
NoPlace == [dev |-> "none", area |-> 0, name |-> NoName]
Accesses == [meant : Place \cup {NoPlace}, reached : Place \cup {NoPlace}]
NoAccess == [meant |-> NoPlace, reached |-> NoPlace]
Outcomes(mayFail) == IF mayFail THEN BOOLEAN ELSE {TRUE}

(* emummc_storage_read and emummc_storage_write: the switch in front of    *)
(* every access, and the area selected there.                              *)
ActiveDevice == IF enabled /\ ~emummc_force_disable THEN "emummc" ELSE "emmc"
ActiveArea   == IF ActiveDevice = "emmc" THEN hw_part ELSE active_part

(* What sector 0 of drive "bis:" is.                                       *)
BisPlace == [dev |-> ActiveDevice, area |-> ActiveArea, name |-> system_part.name]

(* emummc_storage_set_mmc_partition: it reports success even when the      *)
(* eMMC did not switch.                                                    *)
SetMmcPartition(area, switched) ==
  /\ active_part' = area
  /\ hw_part' = IF ActiveDevice = "emmc" /\ switched THEN area ELSE hw_part

(* nx_emmc_part_find: the first entry of that name.                        *)
Found(name) == \E i \in DOMAIN curGpt : curGpt[i].name = name
Find(name)  ==
  curGpt[CHOOSE i \in DOMAIN curGpt :
           curGpt[i].name = name /\ \A j \in 1 .. i - 1 : curGpt[j].name # name]

(* nx_emmc_gpt_free releases the entries and leaves them on the list; they *)
(* keep what is in them, and nx_emmc_gpt_parse appends the new ones behind *)
(* them.  What a walk visits then depends on where the heap has placed the *)
(* new entries: the old ones up to one whose place was taken by a new      *)
(* entry, and from there the new ones.  (Where anything else has taken the *)
(* place, the walk ends in a data abort: Reboot.)  A read error is not     *)
(* looked at: nothing is appended.                                         *)
NewEntries(dev) == [i \in DOMAIN Layout |-> [dev |-> dev, name |-> Layout[i]]]

GptParse(dev) ==
  \/ \E stale \in 0 .. Len(curGpt), first \in DOMAIN Layout :
       /\ stale <= MaxStale
       /\ stale = Len(curGpt) => first = 1
       /\ curGpt' = SubSeq(curGpt, 1, stale) \o SubSeq(NewEntries(dev), first, Len(Layout))
  \/ MmcMayFail /\ UNCHANGED curGpt

-----------------------------------------------------------------------------
Init ==
  /\ booting = TRUE
  /\ enabled \in BOOLEAN
  /\ keysDumped = FALSE
  /\ sd_mounted \in BOOLEAN
  /\ emummc_force_disable = TRUE
  /\ active_part = 0
  /\ hw_part = 0
  /\ currentMMCConnected = "none"
  /\ curGpt = <<>>
  /\ system_part = NoEntry
  /\ registered = FALSE
  /\ emmc_fs = NoPlace
  /\ connectedMMCMounted = FALSE
  /\ last = NoAccess

-----------------------------------------------------------------------------
(* Mutation: disconnectMMC does not unmount.                               *)
UnmountNothing == UNCHANGED fsVars

(* The volume once unmountMMCPart has run: f_unmount only when the         *)
(* partition counts as mounted.                                            *)
Unmount ==
  /\ connectedMMCMounted' = FALSE
  /\ registered' = (registered /\ ~connectedMMCMounted)
  /\ emmc_fs' = IF connectedMMCMounted THEN NoPlace ELSE emmc_fs

UnmountMMCPart ==
  /\ ~booting
  /\ Unmount
  /\ UNCHANGED <<bootVars, sd_mounted, mmcVars, system_part, last>>

(* disconnectMMC.                                                          *)
Disconnect ==
  /\ Unmount
  /\ currentMMCConnected' = "none"
  /\ UNCHANGED <<emummc_force_disable, active_part, hw_part, curGpt, system_part>>

DisconnectMMC ==
  /\ ~booting
  /\ Disconnect
  /\ UNCHANGED <<bootVars, sd_mounted, last>>

(* sd_mount: a card that is mounted is not looked at again.                *)
SdMount(ok) == sd_mounted' = ok /\ (sd_mounted => ok)

(* emummc_storage_init_mmc: the eMMC is always initialised, and for the    *)
(* emuMMC the SD card and its image files must be there.                   *)
StorageInit(type, ok) ==
  /\ active_part' = 0
  /\ hw_part' = 0
  /\ IF type = "emmc"
     THEN UNCHANGED sd_mounted /\ ok \in Outcomes(MmcMayFail)
     ELSE \E sdOk \in BOOLEAN : SdMount(sdOk) /\ (ok => sdOk)

(* Mutation: the force_disable flag is left over from the last connection. *)
ForceDisableKept(type) == emummc_force_disable

ForceDisable(type) == (type = "emmc")

(* connectMMC, with a connection to make.                                  *)
Connect(type, ok) ==
  /\ Unmount
  /\ emummc_force_disable' = ForceDisable(type)
  /\ StorageInit(type, ok)
  /\ IF ok THEN currentMMCConnected' = type /\ GptParse(type)
           ELSE currentMMCConnected' = "none" /\ UNCHANGED curGpt
  /\ UNCHANGED system_part

(* Every caller checks that there is an emuMMC before asking for it.       *)
Wanted(type) == type = "emummc" => enabled

ConnectMMC(type) ==
  /\ ~booting
  /\ Wanted(type)
  /\ type # currentMMCConnected
  /\ \E ok \in BOOLEAN : Connect(type, ok)
  /\ UNCHANGED <<bootVars, last>>

-----------------------------------------------------------------------------
Connected == currentMMCConnected # "none"

Observed(meant, reached) ==
  IF meant = reached THEN NoAccess ELSE [meant |-> meant, reached |-> reached]

Access(area, name, reached) ==
  Observed([dev |-> currentMMCConnected, area |-> area, name |-> name], reached)

(* The keys and a FAT file system are needed to mount.                     *)
Mountable(place) == keysDumped /\ place.area = 0 /\ place.name \in Fat

(* Mutation: the second "set partition 0" is left out.                     *)
MountKeepsArea(switched) == UNCHANGED <<active_part, hw_part>>

(* Line 70: "why i have to do this twice beats me".                        *)
MountSelectsUserArea(switched) == SetMmcPartition(0, switched)

(* mountMMCPart.                                                           *)
MountMMCPart(name) ==
  /\ ~booting
  /\ Connected
  /\ UNCHANGED <<bootVars, sd_mounted, emummc_force_disable, currentMMCConnected, curGpt>>
  /\ \E switched, ok \in Outcomes(MmcMayFail) :
       /\ MountSelectsUserArea(switched)
       /\ IF Found(name)
          THEN /\ system_part' = Find(name)
               /\ registered' = TRUE
               /\ connectedMMCMounted' = (ok /\ Mountable(BisPlace'))
               /\ emmc_fs' = IF connectedMMCMounted' THEN BisPlace' ELSE NoPlace
               /\ last' = Access(0, name, BisPlace')
          ELSE Unmount /\ UNCHANGED <<system_part, last>>

(* A path on "bis:" is used after a mount that failed: FatFs still knows   *)
(* the volume and tries again.                                             *)
LazyMount ==
  /\ ~booting
  /\ registered /\ emmc_fs = NoPlace
  /\ Connected
  /\ Mountable(BisPlace)
  /\ emmc_fs' = BisPlace
  /\ UNCHANGED <<bootVars, sd_mounted, mmcVars, system_part, registered,
                 connectedMMCMounted, last>>

-----------------------------------------------------------------------------
(* DumpOrWriteEmmcPart.  The transfer may be refused (the file exists, it  *)
(* has the wrong size) after everything has been selected for it.          *)
TransferBoot(area) ==
  /\ ~booting
  /\ SdMount(TRUE)
  /\ Connected
  /\ UNCHANGED <<bootVars, emummc_force_disable, currentMMCConnected, curGpt, system_part, fsVars>>
  /\ \E switched \in Outcomes(MmcMayFail) : SetMmcPartition(area, switched)
  /\ \/ last' = Access(area, NoName, [dev |-> ActiveDevice, area |-> ActiveArea', name |-> NoName])
     \/ UNCHANGED last

TransferSelectsUserArea(switched) == SetMmcPartition(0, switched)

TransferPart(name) ==
  /\ ~booting
  /\ SdMount(TRUE)
  /\ Connected
  /\ UNCHANGED <<bootVars, emummc_force_disable, currentMMCConnected, curGpt, fsVars>>
  /\ \E switched \in Outcomes(MmcMayFail) : TransferSelectsUserArea(switched)
  /\ IF Found(name)
     THEN /\ system_part' = IF name \in Crypt /\ keysDumped THEN Find(name) ELSE system_part
          /\ \/ last' = Access(0, name, [dev |-> ActiveDevice, area |-> ActiveArea',
                                         name |-> Find(name).name])
             \/ UNCHANGED last
     ELSE UNCHANGED <<system_part, last>>

-----------------------------------------------------------------------------
(* Boot: the keys are derived from package1 in BOOT0, and the area stays   *)
(* selected afterwards; if that fails they are read from a file, with or   *)
(* without a connection made before.                                       *)
BootDone ==
  /\ booting /\ booting' = FALSE
  /\ keysDumped' \in BOOLEAN
  /\ UNCHANGED enabled

DumpKeys ==
  /\ BootDone
  /\ UNCHANGED sd_mounted \/ \E ok \in BOOLEAN : SdMount(ok)
  /\ emummc_force_disable' = TRUE
  /\ GptParse("emmc")
  /\ currentMMCConnected' = "emmc"
  /\ active_part' = 1
  /\ \E switched \in Outcomes(MmcMayFail) : hw_part' = IF switched THEN 1 ELSE 0
  /\ last' = Observed([dev |-> "emmc", area |-> 1, name |-> NoName],
                      [dev |-> "emmc", area |-> hw_part', name |-> NoName])
  /\ UNCHANGED <<system_part, fsVars>>

GetKeysFromFile ==
  /\ BootDone
  /\ \E ok \in BOOLEAN : SdMount(ok)
  /\ UNCHANGED <<mmcVars, system_part, fsVars, last>>

(* MountOrUnmountSD, the removal of the card, a payload that is missing.   *)
MountSD   == ~booting /\ ~sd_mounted /\ sd_mounted' = TRUE
UnmountSD == ~booting /\ sd_mounted  /\ sd_mounted' = FALSE

MountOrUnmountSD ==
  /\ MountSD \/ UnmountSD
  /\ UNCHANGED <<bootVars, mmcVars, system_part, fsVars, last>>

(* A payload is started, the console is reset, or an exception is caught.  *)
Reboot ==
  /\ ~booting
  /\ booting' = TRUE
  /\ enabled' \in BOOLEAN
  /\ keysDumped' = FALSE
  /\ sd_mounted' \in BOOLEAN
  /\ emummc_force_disable' = TRUE
  /\ active_part' = 0
  /\ hw_part' = 0
  /\ currentMMCConnected' = "none"
  /\ curGpt' = <<>>
  /\ system_part' = NoEntry
  /\ registered' = FALSE
  /\ emmc_fs' = NoPlace
  /\ connectedMMCMounted' = FALSE
  /\ last' = NoAccess

Next ==
  \/ DumpKeys \/ GetKeysFromFile
  \/ \E type \in Device : ConnectMMC(type)
  \/ DisconnectMMC \/ UnmountMMCPart
  \/ \E name \in Name : MountMMCPart(name) \/ TransferPart(name)
  \/ \E area \in {1, 2} : TransferBoot(area)
  \/ LazyMount
  \/ MountOrUnmountSD
  \/ Reboot

Spec == Init /\ [][Next]_vars

-----------------------------------------------------------------------------
TypeOK ==
  /\ booting \in BOOLEAN /\ enabled \in BOOLEAN /\ keysDumped \in BOOLEAN
  /\ sd_mounted \in BOOLEAN
  /\ emummc_force_disable \in BOOLEAN
  /\ active_part \in Area
  /\ hw_part \in Area
  /\ currentMMCConnected \in Device \cup {"none"}
  /\ curGpt \in Seq(Entry)
  /\ system_part \in Entry \cup {NoEntry}
  /\ registered \in BOOLEAN
  /\ emmc_fs \in Place \cup {NoPlace}
  /\ connectedMMCMounted \in BOOLEAN
  /\ last \in Accesses

(* The switch inside emummc.c agrees with the connection the menus show,   *)
(* although the flag it reads is set before the connection is attempted.   *)
ConnectedDeviceIsActive ==
  currentMMCConnected # "none" => ActiveDevice = currentMMCConnected

(* A partition that counts as mounted was read from the user area of the   *)
(* device that is connected now: no change of the connection leaves the    *)
(* volume of the other device behind.                                      *)
MountedFromConnectedDevice ==
  connectedMMCMounted =>
    /\ registered
    /\ emmc_fs.dev = currentMMCConnected
    /\ emmc_fs.area = 0
    /\ emmc_fs.name \in Fat

(* A mount, a dump or a restore reaches the area and the partition it was  *)
(* asked for, on the device that is connected: whatever was selected       *)
(* before.  (While the eMMC obeys.  Which table the bounds of the          *)
(* partition were read from is another matter: Find may return an entry of *)
(* the other device, freed and still on the list.)                         *)
AccessReachesWhatIsMeant == last = NoAccess
=============================================================================
