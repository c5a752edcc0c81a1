------------------------------ MODULE Session ------------------------------
(***************************************************************************)
(* A user's session: the main menu, the partition menu, the file explorer  *)
(* and the clipboard they share, on top of MountManager                    *)
(* (source/tegraexplorer/mainmenu.c, tconf.c, source/storage/gptmenu.c,    *)
(* source/fs/menus/explorer.c, filemenu.c, foldermenu.c).                  *)
(*                                                                         *)
(* A step is one choice of the user together with everything the code does *)
(* until it asks again.  Paths are left out: a file is known by the volume *)
(* it is on, and for "bis:" by the partition the explorer was opened on    *)
(* when it was picked.  Scripts are started from the main menu and from    *)
(* the explorer's file menu, and are taken one call at a time.             *)
(***************************************************************************)
EXTENDS MountManager

VARIABLES
  where,                 (* whose loop is waiting for input                *)
  root,                  (* the volume the explorer shows                  *)
  menuDevice,            (* MMCType: the device the partition menu names   *)
  flashEntry,            (* "Clipboard -> Partition" can be chosen         *)
  explorerCopyMode,
  srcCopy,
  curExplorerLoc,
  heldExplorerCopyLoc,
  opened,                (* observation: the partition that was chosen     *)
  scripted               (* observation: a script has run in an explorer   *)
                         (* opened from this partition menu                *)

clipVars == <<explorerCopyMode, srcCopy, heldExplorerCopyLoc>>
gptVars  == <<menuDevice, flashEntry, opened, scripted>>
uiVars   == <<where, root, gptVars, clipVars, curExplorerLoc>>
allVars  == <<vars, uiVars>>

-----------------------------------------------------------------------------
(* CMODE_*; CMODE_MoveFolder is treated as CMODE_Move everywhere.          *)
CopyModes == {"copy", "move", "copyfolder"}
Source    == [vol : {"sd", "bis"}, of : Place \cup {NoPlace}]
Null      == [vol |-> "none", of |-> NoPlace]
Loc       == {"none", "sd", "emmc"}

(* A file the explorer shows; on "bis:", of the partition it was opened    *)
(* on.                                                                     *)
FileOn(vol) == [vol |-> vol, of |-> IF vol = "bis" THEN opened ELSE NoPlace]

(* What the path in srcCopy leads to now.                                  *)
SourceNow(src) == IF src.vol = "bis" THEN BisPlace ELSE NoPlace

-----------------------------------------------------------------------------
(* tconf.c.                                                                *)
ResetCopyParams ==
  /\ explorerCopyMode' = "none"
  /\ srcCopy' = Null
  /\ heldExplorerCopyLoc' = "none"

SetCopyParams(mode) ==
  /\ explorerCopyMode' = mode
  /\ srcCopy' = FileOn(root)
  /\ heldExplorerCopyLoc' = curExplorerLoc

UiInit ==
  /\ where = "boot"
  /\ root = "sd"
  /\ menuDevice = "none" /\ flashEntry = FALSE
  /\ opened = NoPlace /\ scripted = FALSE
  /\ explorerCopyMode = "none"
  /\ srcCopy = Null
  /\ curExplorerLoc = "none"
  /\ heldExplorerCopyLoc = "none"

SessionInit == Init /\ UiInit

-----------------------------------------------------------------------------
(* ipl_main up to EnterMainMenu, and any reset of the console.             *)
Boot ==
  /\ DumpKeys \/ GetKeysFromFile
  /\ where' = "main"
  /\ UNCHANGED <<root, gptVars, clipVars, curExplorerLoc>>

(* No partition menu is open.                                              *)
NoMenu ==
  /\ menuDevice' = "none" /\ flashEntry' = FALSE
  /\ opened' = NoPlace /\ scripted' = FALSE

Reset ==
  /\ Reboot
  /\ where' = "boot"
  /\ root' = "sd"
  /\ NoMenu
  /\ ResetCopyParams
  /\ curExplorerLoc' = "none"

(* Mutation: FileExplorer keeps a move that was begun elsewhere.           *)
EnterKeepsMove(vol) ==
  /\ where' = "explorer"
  /\ root' = vol
  /\ UNCHANGED clipVars

(* FileExplorer up to its loop.                                            *)
EnterExplorer(vol) ==
  /\ where' = "explorer"
  /\ root' = vol
  /\ IF explorerCopyMode = "move" THEN ResetCopyParams ELSE UNCHANGED clipVars

(* HandleSD: the entry is shown while the card is mounted.  With the card  *)
(* gone only the location changes.                                         *)
BrowseSd ==
  /\ where = "main"
  /\ sd_mounted
  /\ curExplorerLoc' = "sd"
  /\ EnterExplorer("sd") \/ UNCHANGED <<where, root, clipVars>>
  /\ UNCHANGED <<vars, gptVars>>

MountOrUnmountFromMenu ==
  /\ where = "main"
  /\ MountOrUnmountSD
  /\ UNCHANGED uiVars

(* FormatSD: whatever the user answers, the connection is closed first.    *)
FormatSD ==
  /\ where = "main"
  /\ Disconnect
  /\ sd_mounted' \in BOOLEAN
  /\ UNCHANGED <<bootVars, last, uiVars>>

(* GptMenu up to its loop: what the heading says and whether the flash     *)
(* entry is enabled is settled once.                                       *)
OpenGptMenu(type) ==
  /\ where = "main"
  /\ type = "emummc" => enabled /\ sd_mounted
  /\ IF type = currentMMCConnected THEN UNCHANGED vars ELSE ConnectMMC(type)
  /\ IF currentMMCConnected' = type
     THEN /\ where' = "gpt"
          /\ menuDevice' = type
          /\ flashEntry' = (explorerCopyMode = "copy")
     ELSE UNCHANGED <<where, menuDevice, flashEntry>>
  /\ UNCHANGED <<root, opened, scripted, clipVars, curExplorerLoc>>

-----------------------------------------------------------------------------
(* The entries of the menu hold pointers into the table it was made from:  *)
(* once a script has had that freed they read as any name.                 *)
Shown(names) == {name \in Name : scripted \/ (name \in names /\ Found(name))}

(* GptMenu, an entry with a file system.                                   *)
NotMounted ==
  /\ ~keysDumped \/ ~Connected
  /\ Unmount
  /\ UNCHANGED <<bootVars, sd_mounted, mmcVars, system_part, last>>

(* Mutation: a partition that counts as mounted is not mounted again.      *)
MountPartOnce(name) ==
  IF connectedMMCMounted /\ emmc_fs.name = name THEN UNCHANGED vars
  ELSE keysDumped /\ MountMMCPart(name)

MountPart(name) == keysDumped /\ MountMMCPart(name)

OpenPartition(name) ==
  /\ where = "gpt"
  /\ name \in Shown(Fat)
  /\ NotMounted \/ MountPart(name)
  /\ IF connectedMMCMounted'
     THEN /\ curExplorerLoc' = "emmc"
          /\ where' = "explorer"
          /\ root' = "bis"
          /\ opened' = [dev |-> menuDevice, area |-> 0, name |-> name]
          /\ IF curExplorerLoc = "emmc" \/ explorerCopyMode = "move"
             THEN ResetCopyParams ELSE UNCHANGED clipVars
     ELSE UNCHANGED <<where, root, opened, clipVars, curExplorerLoc>>
  /\ UNCHANGED <<menuDevice, flashEntry, scripted>>

(* An entry without one: dump it, unless the user declines.                *)
DumpEntry ==
  /\ where = "gpt"
  /\ \/ \E area \in {1, 2} : TransferBoot(area)
     \/ \E name \in Shown(Name \ Fat) : TransferPart(name)
     \/ MountOrUnmountSD /\ sd_mounted'
  /\ UNCHANGED uiVars

(* "Clipboard -> Partition": flash the file in the clipboard onto the      *)
(* partition it is named after.                                            *)
Flash ==
  /\ where = "gpt"
  /\ flashEntry
  /\ \/ \E area \in {1, 2} : TransferBoot(area)
     \/ \E name \in Name : TransferPart(name)
  /\ UNCHANGED uiVars

LeaveGptMenu ==
  /\ where = "gpt"
  /\ where' = "main"
  /\ NoMenu
  /\ UNCHANGED <<vars, root, clipVars, curExplorerLoc>>

-----------------------------------------------------------------------------
(* FileExplorer: "to clipboard" of the file and the folder menu.           *)
Pick(mode) ==
  /\ where = "explorer"
  /\ SetCopyParams(mode)
  /\ UNCHANGED <<vars, where, root, gptVars, curExplorerLoc>>

(* "Clipboard -> Current folder": f_rename, FileCopy or FolderCopy, and    *)
(* whatever comes of it the clipboard is emptied.                          *)
Paste ==
  /\ where = "explorer"
  /\ explorerCopyMode # "none"
  /\ ResetCopyParams
  /\ UNCHANGED <<vars, where, root, gptVars, curExplorerLoc>>

(* A folder of "bis:" is read, or the path in the clipboard is on it.      *)
PathOnBis ==
  /\ where = "explorer"
  /\ root = "bis" \/ srcCopy.vol = "bis"
  /\ LazyMount
  /\ UNCHANGED uiVars

(* A payload that cannot be read leaves the card unmounted.                *)
LaunchPayloadFails ==
  /\ where = "explorer"
  /\ sd_mounted' = FALSE
  /\ UNCHANGED <<bootVars, mmcVars, system_part, fsVars, last, uiVars>>

(* What a script can do to the mounts: mountsys and mountemu, emmcread,    *)
(* emmcwrite and theirs for the emuMMC are connectMMC and the call after   *)
(* it, one step each; a path on "bis:"; #REQUIRE SD; a payload.            *)
ScriptCall ==
  \/ \E type \in Device : ConnectMMC(type)
  \/ \E name \in Name : MountMMCPart(name) \/ TransferPart(name)
  \/ \E area \in {1, 2} : TransferBoot(area)
  \/ LazyMount
  \/ MountOrUnmountSD

RunScript ==
  /\ where \in {"main", "explorer"}
  /\ ScriptCall
  /\ scripted' = (where = "explorer" /\ root = "bis")
  /\ UNCHANGED <<where, root, menuDevice, flashEntry, opened, clipVars, curExplorerLoc>>

LeaveExplorer ==
  /\ where = "explorer"
  /\ where' = IF root = "sd" THEN "main" ELSE "gpt"
  /\ opened' = NoPlace
  /\ UNCHANGED <<vars, root, menuDevice, flashEntry, scripted, clipVars, curExplorerLoc>>

SessionNext ==
  \/ Boot \/ Reset
  \/ BrowseSd \/ MountOrUnmountFromMenu \/ FormatSD
  \/ \E type \in Device : OpenGptMenu(type)
  \/ \E name \in Name : OpenPartition(name)
  \/ DumpEntry \/ Flash \/ LeaveGptMenu
  \/ \E mode \in CopyModes : Pick(mode)
  \/ Paste \/ PathOnBis \/ LaunchPayloadFails \/ RunScript \/ LeaveExplorer

SessionSpec == SessionInit /\ [][SessionNext]_allVars

-----------------------------------------------------------------------------
UiTypeOK ==
  /\ where \in {"boot", "main", "gpt", "explorer"}
  /\ root \in {"sd", "bis"}
  /\ menuDevice \in Device \cup {"none"} /\ flashEntry \in BOOLEAN
  /\ opened \in Place \cup {NoPlace} /\ scripted \in BOOLEAN
  /\ explorerCopyMode \in CopyModes \cup {"none"}
  /\ srcCopy \in Source \cup {Null}
  /\ curExplorerLoc \in Loc
  /\ heldExplorerCopyLoc \in Loc

(* While the explorer shows "bis:", every file it touches is on the        *)
(* partition that was chosen, of the device the menu named, although dumps *)
(* and flashes in between leave another area or another partition          *)
(* selected.  (Until a script is started from it.)                         *)
ExplorerReachesItsPartition ==
  where = "explorer" /\ root = "bis" /\ ~scripted =>
    /\ connectedMMCMounted
    /\ emmc_fs = opened
    /\ BisPlace = opened

(* A move is an f_rename, which takes the volume of the source for both    *)
(* paths: it is only ever pasted in the explorer of the partition it was   *)
(* picked from, and what its path leads to is on that partition still,     *)
(* unless a script has mounted another one in its place.                   *)
MoveStaysOnItsVolume ==
  [][Paste /\ explorerCopyMode = "move" =>
       /\ srcCopy = FileOn(root)
       /\ scripted \/ SourceNow(srcCopy) = srcCopy.of]_allVars

(* The heading of the partition menu ("-- Emmc --" or "-- Emummc --",      *)
(* gptmenu.c 76) names the device its entries are dumped from and flashed  *)
(* to.  (It does not: a script started from an explorer below the menu can *)
(* connect the other one.)                                                 *)
MenuNamesItsDevice == where = "gpt" => currentMMCConnected = menuDevice

(* No operation finds the clipboard half filled.                           *)
ClipboardWhole ==
  /\ explorerCopyMode = "none" <=> srcCopy = Null
  /\ heldExplorerCopyLoc # "none" <=> srcCopy # Null
=============================================================================
