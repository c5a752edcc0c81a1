------------------------------ MODULE Folders ------------------------------
(***************************************************************************)
(* Copying, moving and deleting files and folders of a volume              *)
(* (source/fs/fscopy.c, fsutils.c, readers/folderReader.c, and their       *)
(* callers source/fs/menus/explorer.c, foldermenu.c, filemenu.c and        *)
(* source/script/standardLibrary.c).                                       *)
(*                                                                         *)
(* A path is the sequence of its names, the root of the volume is <<>>.    *)
(* The recursion of FolderCopy and FolderDelete is a stack of frames, and  *)
(* a step is one round of the loop of the top frame: between two rounds    *)
(* the volume is in a state a power cut would leave behind.  FileCopy is   *)
(* one step, with every point where it can end.  FatFs is modelled from    *)
(* what these callers rely on.                                             *)
(***************************************************************************)
EXTENDS Integers, SequencesExt

CONSTANTS
  Names,            (* of files and folders                                *)
  NameStarts,       (* <<m, n>>: the characters of n begin with those of m *)
  Chunks,           (* what fits into the copy buffer at once              *)
  Trees,            (* the volumes to start with                           *)
  MaxDepth,         (* bound: names in a path                              *)
  MaxCalls,         (* bound: calls                                        *)
  MaxFaults,        (* bound: failing accesses                             *)
  ClosesMayFail,    (* f_close may fail to write what is left              *)
  ScriptsOverlap    (* scripts may copy a folder into itself               *)

ASSUME BoundsAssumption == {MaxDepth, MaxCalls, MaxFaults} \subseteq Nat
ASSUME NamesAssumption  ==
  NameStarts \subseteq Names \X Names /\ \A n \in Names : <<n, n>> \in NameStarts

VARIABLES
  tree,             (* the volume: path -> what is there                   *)
  clip,             (* TConf.explorerCopyMode and TConf.srcCopy            *)
  frames,           (* the active calls of FolderCopy or FolderDelete      *)
  ret,              (* ret.err of the innermost call                       *)
  faults,
  call,             (* observation: the call from a menu or a script       *)
  before,           (* observation: the volume when it was made            *)
  calls

vars == <<tree, clip, frames, ret, faults, call, before, calls>>

-----------------------------------------------------------------------------
(* "cancelled" is observation: the code returns 0 for it, as for "ok".     *)
Results == {"ok", "refused", "fat", "cancelled"}
Modes   == {"none", "copy", "move", "copyfolder", "movefolder"}
FolderModes == {"copyfolder", "movefolder"}
MoveModes   == {"move", "movefolder"}
Path    == UNION {[1..d -> Names] : d \in 0..MaxDepth}
Entry   == [dir : BOOLEAN, ro : BOOLEAN, data : Seq(Chunks)]
Folder  == [dir |-> TRUE, ro |-> FALSE, data |-> <<>>]
(* The root is a folder, and every other entry is in one.                  *)
IsTree(t) ==
  /\ DOMAIN t \subseteq Path /\ \A p \in DOMAIN t : t[p] \in Entry
  /\ <<>> \in DOMAIN t /\ t[<<>>].dir
  /\ \A p \in DOMAIN t \ {<<>>} : Front(p) \in DOMAIN t /\ t[Front(p)].dir

ASSUME TreesAssumption == \A t \in Trees : IsTree(t)

NoClip  == [mode |-> "none", src |-> <<>>]
NoCall  == [op |-> "none", src |-> <<>>, dst |-> <<>>, by |-> "menu"]
Frame(op, src, dst, todo) == [op |-> op, src |-> src, dst |-> dst, todo |-> todo]

Exists(p) == p \in DOMAIN tree
IsDir(p)  == Exists(p) /\ tree[p].dir
IsFile(p) == Exists(p) /\ ~tree[p].dir
Below(p)  == {q \in DOMAIN tree : IsStrictPrefix(p, q)}

(* The place under dst that corresponds to the place q under src.          *)
Carried(q, src, dst) == dst \o SubSeq(q, Len(src) + 1, Len(q))

(* ReadFolder: names and kinds, all read before the first is used.         *)
Listing(p) == {[name |-> Last(q), dir |-> tree[q].dir] :
                 q \in {q \in Below(p) : Len(q) = Len(p) + 1}}

With(p, e) == [q \in DOMAIN tree \cup {p} |-> IF q = p THEN e ELSE tree[q]]
Without(p) == [q \in DOMAIN tree \ {p} |-> tree[q]]

(* strstr(path, start) != NULL: the drive stands only at the front of a    *)
(* path, so the match is there.  The last name matches by its characters.  *)
StartsWith(path, start) ==
  /\ Len(start) <= Len(path)
  /\ \A i \in 1..Len(start) :
       IF i = Len(start) THEN <<start[i], path[i]>> \in NameStarts
                         ELSE start[i] = path[i]

(* A failing access to the card.                                           *)
Fault   == faults < MaxFaults /\ faults' = faults + 1
NoFault == UNCHANGED faults

-----------------------------------------------------------------------------
(* FatFs.  A write or removal that fails may have changed the volume.      *)
CanMake(p)   == /\ ~Exists(p) /\ Len(p) \in 1..MaxDepth
                /\ IsDir(Front(p))
CanCreate(p) == CanMake(p) \/ (IsFile(p) /\ ~tree[p].ro)
CanUnlink(p) == p # <<>> /\ Exists(p) /\ ~tree[p].ro /\ Below(p) = {}

Made(p)     == IF CanMake(p) THEN With(p, Folder) ELSE tree
Unlinked(p) == IF CanUnlink(p) THEN Without(p) ELSE tree

(* FF_FS_LOCK is 0: an open file can be removed, which a cancelled copy    *)
(* does.                                                                   *)
Unlink(p) ==
  \/ /\ NoFault
     /\ tree' = Unlinked(p)
     /\ ret' = IF CanUnlink(p) THEN "ok" ELSE "fat"
  \/ Fault /\ tree' \in {tree, Unlinked(p)} /\ ret' = "fat"

(* A folder moved below itself hangs on itself and cannot be reached.      *)
Renamed(src, dst) ==
  LET stay   == {q \in DOMAIN tree : ~IsPrefix(src, q)}
      moving == IF IsPrefix(src, dst) THEN {} ELSE DOMAIN tree \ stay
  IN [q \in stay \cup {Carried(p, src, dst) : p \in moving} |->
        IF q \in stay THEN tree[q] ELSE tree[Carried(q, dst, src)]]

CanRename(src, dst) ==
  /\ src # <<>> /\ Exists(src) /\ CanMake(dst)
  /\ \A q \in Below(src) : Len(Carried(q, src, dst)) <= MaxDepth

Rename(src, dst) ==
  \/ /\ NoFault
     /\ tree' = IF CanRename(src, dst) THEN Renamed(src, dst) ELSE tree
     /\ ret' = IF CanRename(src, dst) THEN "ok" ELSE "fat"
  \/ Fault /\ UNCHANGED tree /\ ret' = "fat"

-----------------------------------------------------------------------------
Stays(result) == NoFault /\ UNCHANGED tree /\ ret' = result

(* What a file at dst is after n chunks of the file at src.  Its           *)
(* attributes come from f_chmod, whose mask 0x3A leaves out read-only.     *)
Out(src, dst, n) ==
  With(dst, [dir |-> FALSE, ro |-> FALSE, data |-> SubSeq(tree[src].data, 1, n)])

(* Mutation: a read or write that fails ends the loop without an error.    *)
BreaksSilently(src, dst) ==
  Fault /\ \E n \in 0..(Len(tree[src].data) - 1) :
             tree' = Out(src, dst, n) /\ ret' = "ok"

Breaks(src, dst) ==
  Fault /\ \E n \in 0..(Len(tree[src].data) - 1) :
             tree' = Out(src, dst, n) /\ ret' = "fat"

(* The button is looked at after each chunk.  What f_unlink returns is     *)
(* ignored.                                                                *)
Cancelled(src, dst) ==
  /\ ret' = "cancelled"
  /\ \E n \in 1..Len(tree[src].data) :
       \/ NoFault /\ tree' = Without(dst)
       \/ Fault /\ tree' = Out(src, dst, n)

(* What f_close returns is ignored.  If it fails the directory still says  *)
(* that the file is empty.                                                 *)
FileCopy(src, dst, mayCancel) ==
  \/ src = dst /\ Stays("refused")
  \/ src # dst /\ ~(IsFile(src) /\ CanCreate(dst)) /\ Stays("fat")
  \/ src # dst /\ Fault /\ UNCHANGED tree /\ ret' = "fat"
  \/ /\ src # dst /\ IsFile(src) /\ CanCreate(dst)
     /\ \/ /\ NoFault
           /\ tree' = Out(src, dst, Len(tree[src].data))
           /\ ret' = "ok"
        \/ Breaks(src, dst)
        \/ ClosesMayFail /\ Fault /\ tree' = Out(src, dst, 0) /\ ret' = "ok"
        \/ mayCancel /\ Cancelled(src, dst)

-----------------------------------------------------------------------------
(* A call is over when no frame is left; the explorer then empties the     *)
(* clipboard it pasted from.                                               *)
Settle(by) == clip' = IF by = "paste" /\ frames' = <<>> THEN NoClip ELSE clip

(* Mutation: only the same place is refused.                               *)
RefusesSame(src, dst) == src = dst

(* Both the explorer and FolderCopy refuse a destination at or inside the  *)
(* source, the second only while a folder is on the clipboard.             *)
Refuses(src, dst) ==
  \/ src = dst
  \/ clip.mode \in FolderModes /\ StartsWith(dst, src)

(* Mutation: what is in the folder is copied, not the folder.              *)
EnterCopyOpen(src, at, rest) ==
  \/ Refuses(src, at) /\ Stays("refused") /\ frames' = rest
  \/ ~Refuses(src, at) /\ ~IsDir(src) /\ Stays("fat") /\ frames' = rest
  \/ /\ ~Refuses(src, at) /\ IsDir(src) /\ Stays("ok")
     /\ frames' = Append(rest, Frame("copy", src, at, Listing(src)))

(* FolderCopy up to its loop, on top of the frames rest.  What f_mkdir     *)
(* returns is ignored.                                                     *)
EnterCopy(src, at, rest) ==
  LET dst == Append(at, Last(src)) IN
  \/ Refuses(src, at) /\ Stays("refused") /\ frames' = rest
  \/ /\ ~Refuses(src, at)
     /\ \/ ~IsDir(src) /\ Stays("fat")
        \/ Fault /\ UNCHANGED tree /\ ret' = "fat"
     /\ frames' = rest
  \/ /\ ~Refuses(src, at) /\ IsDir(src)
     /\ frames' = Append(rest, Frame("copy", src, dst, Listing(src)))
     /\ ret' = "ok"
     /\ \/ NoFault /\ tree' = Made(dst)
        \/ Fault /\ UNCHANGED tree

(* FolderDelete up to its loop.                                            *)
EnterDelete(path, rest) ==
  \/ /\ \/ ~IsDir(path) /\ Stays("fat")
        \/ Fault /\ UNCHANGED tree /\ ret' = "fat"
     /\ frames' = rest
  \/ /\ IsDir(path) /\ Stays("ok")
     /\ frames' = Append(rest, Frame("delete", path, path, Listing(path)))

-----------------------------------------------------------------------------
Top       == Last(frames)
InLoop(op) == frames # <<>> /\ Top.op = op
(* The top frame after its loop has taken e.                               *)
Taken(e)  == [Top EXCEPT !.todo = @ \ {e}]
Rest(e)   == Append(Front(frames), Taken(e))
Same      == UNCHANGED <<call, before, calls>>

(* Mutation: the loop goes on after an error.                              *)
TurnAnyway(op) == InLoop(op)

(* The loop over the entries read ahead goes on.                           *)
Turn(op) == InLoop(op) /\ ret = "ok"

(* Mutation: the loop does not move on.                                    *)
CopyFileAgain ==
  /\ Turn("copy")
  /\ \E e \in Top.todo :
    /\ ~e.dir
    /\ FileCopy(Append(Top.src, e.name), Append(Top.dst, e.name), FALSE)
    /\ UNCHANGED frames
  /\ Settle(call.by) /\ Same

CopyFile ==
  /\ Turn("copy")
  /\ \E e \in Top.todo :
    /\ ~e.dir
    /\ FileCopy(Append(Top.src, e.name), Append(Top.dst, e.name), FALSE)
    /\ frames' = Rest(e)
  /\ Settle(call.by) /\ Same

(* Mutation: the subfolder goes where the folder goes.                     *)
CopySubBeside ==
  /\ Turn("copy")
  /\ \E e \in Top.todo :
    /\ e.dir
    /\ EnterCopy(Append(Top.src, e.name), Front(Top.dst), Rest(e))
  /\ Settle(call.by) /\ Same

CopySub ==
  /\ Turn("copy")
  /\ \E e \in Top.todo :
    /\ e.dir
    /\ EnterCopy(Append(Top.src, e.name), Top.dst, Rest(e))
  /\ Settle(call.by) /\ Same

CopyDone ==
  /\ InLoop("copy") /\ (Top.todo = {} \/ ret # "ok")
  /\ \/ ret # "ok" /\ Stays(ret)
     \/ /\ ret = "ok"
        /\ Stays(IF Exists(Top.src) /\ Exists(Top.dst) THEN "ok" ELSE "fat")
     \/ ret = "ok" /\ Fault /\ UNCHANGED tree /\ ret' = "fat"
  /\ frames' = Front(frames) /\ Settle(call.by) /\ Same

DeleteFile ==
  /\ Turn("delete")
  /\ \E e \in Top.todo :
    /\ ~e.dir
    /\ Unlink(Append(Top.src, e.name))
    /\ frames' = Rest(e)
  /\ Settle(call.by) /\ Same

DeleteSub ==
  /\ Turn("delete")
  /\ \E e \in Top.todo :
    /\ e.dir
    /\ EnterDelete(Append(Top.src, e.name), Rest(e))
  /\ Settle(call.by) /\ Same

(* Mutation: the error of an entry is replaced by the end of the call.     *)
DeleteDoneReportsOk ==
  /\ InLoop("delete") /\ (Top.todo = {} \/ ret # "ok")
  /\ \/ ret # "ok" /\ Stays("ok")
     \/ ret = "ok" /\ Unlink(Top.src)
  /\ frames' = Front(frames) /\ Settle(call.by) /\ Same

DeleteDone ==
  /\ InLoop("delete") /\ (Top.todo = {} \/ ret # "ok")
  /\ \/ ret # "ok" /\ Stays(ret)
     \/ ret = "ok" /\ Unlink(Top.src)
  /\ frames' = Front(frames) /\ Settle(call.by) /\ Same

Step == CopyFile \/ CopySub \/ CopyDone \/ DeleteFile \/ DeleteSub \/ DeleteDone

-----------------------------------------------------------------------------
Call(op, src, dst, by) ==
  /\ frames = <<>> /\ calls < MaxCalls
  /\ call' = [op |-> op, src |-> src, dst |-> dst, by |-> by]
  /\ before' = tree
  /\ calls' = calls + 1

(* The clipboard entries of the file and folder menus.                     *)
Pick(mode, p) ==
  /\ frames = <<>> /\ p # <<>> /\ calls < MaxCalls
  /\ IF mode \in FolderModes THEN IsDir(p) ELSE IsFile(p)
  /\ clip' = [mode |-> mode, src |-> p]
  /\ UNCHANGED <<tree, frames, ret, faults>> /\ Same

(* The explorer's checks, then one of the three ways to paste.             *)
Paste(at) ==
  LET src == clip.src  dst == Append(at, Last(src)) IN
  /\ clip.mode # "none" /\ IsDir(at) /\ Len(dst) <= MaxDepth
  /\ Call(clip.mode, src, dst, "paste")
  /\ \/ Refuses(src, dst) /\ Stays("refused") /\ frames' = <<>>
     \/ /\ ~Refuses(src, dst) /\ clip.mode \in MoveModes
        /\ Rename(src, dst) /\ frames' = <<>>
     \/ /\ ~Refuses(src, dst) /\ clip.mode = "copy"
        /\ FileCopy(src, dst, TRUE) /\ frames' = <<>>
     \/ /\ ~Refuses(src, dst) /\ clip.mode = "copyfolder"
        /\ EnterCopy(src, at, <<>>)
  /\ Settle("paste")

(* copydir of a script.                                                    *)
ScriptCopyDir(src, at) ==
  /\ src # <<>> /\ Len(at) < MaxDepth
  /\ ScriptsOverlap \/ ~IsPrefix(src, at)
  /\ Call("copyfolder", src, Append(at, Last(src)), "script")
  /\ EnterCopy(src, at, <<>>)
  /\ Settle("script")

(* copyfile of a script.                                                   *)
ScriptCopyFile(src, dst) ==
  /\ Call("copy", src, dst, "script")
  /\ FileCopy(src, dst, FALSE)
  /\ UNCHANGED frames /\ Settle("script")

(* "Delete current folder", rmdir of a script.                             *)
DeleteFolder(p) ==
  /\ p # <<>>
  /\ Call("delete", p, p, "menu")
  /\ EnterDelete(p, <<>>)
  /\ Settle("menu")

(* "Delete file", delfile of a script.                                     *)
UnlinkOne(p) ==
  /\ p # <<>>
  /\ Call("unlink", p, p, "menu")
  /\ Unlink(p)
  /\ UNCHANGED <<frames, clip>>

-----------------------------------------------------------------------------
Init ==
  /\ tree \in Trees
  /\ clip = NoClip
  /\ frames = <<>>
  /\ ret = "ok"
  /\ faults = 0
  /\ call = NoCall
  /\ before = tree
  /\ calls = 0

Next ==
  \/ Step
  \/ \E p \in DOMAIN tree : \E mode \in Modes \ {"none"} : Pick(mode, p)
  \/ \E p \in DOMAIN tree : Paste(p) \/ DeleteFolder(p) \/ UnlinkOne(p)
  \/ \E p, q \in DOMAIN tree : ScriptCopyDir(p, q)
  \/ \E p, q \in DOMAIN tree, n \in Names : ScriptCopyFile(p, Append(q, n))

(* A call runs on its own until it is over.                                *)
Spec == Init /\ [][Next]_vars /\ WF_vars(Step)

-----------------------------------------------------------------------------
(* The volume stays a tree: every entry is in a folder.  The frames lead   *)
(* down from the folder of the call, side by side at the source and the    *)
(* destination.                                                            *)
TypeOK ==
  /\ IsTree(tree)
  /\ \A i \in 1..Len(frames) :
       IF i = 1 THEN frames[i].src = call.src /\ frames[i].dst = call.dst
       ELSE \E n \in Names : /\ frames[i].src = Append(frames[i - 1].src, n)
                            /\ frames[i].dst = Append(frames[i - 1].dst, n)
  /\ clip \in [mode : Modes, src : Path]
  /\ ret \in Results
  /\ faults \in 0..MaxFaults /\ calls \in 0..MaxCalls

Over == frames = <<>> /\ call.op # "none"
Apart(p, q) == ~IsPrefix(p, q) /\ ~IsPrefix(q, p)

(* Everything that was at src is at dst, the files with their contents.    *)
WholeAt(src, dst) ==
  /\ dst \in DOMAIN tree
  /\ \A p \in DOMAIN before : IsPrefix(src, p) =>
       /\ Exists(Carried(p, src, dst))
       /\ ~before[p].dir => /\ IsFile(Carried(p, src, dst))
                            /\ tree[Carried(p, src, dst)].data = before[p].data

(* The calls that bring what is at the source to the destination.  A       *)
(* folder copied into its own parent's place is none: it overwrites what   *)
(* it still has to read.  Nor is a file picked for a move in whose place   *)
(* there is a folder by now, pasted into that folder: the explorer looks   *)
(* only at the kind it picked and lets f_rename move the folder below      *)
(* itself.                                                                 *)
Brings ==
  \/ call.op = "movefolder"
  \/ call.op = "move" /\ ~IsPrefix(call.src, call.dst)
  \/ call.op \in {"copy", "copyfolder"} /\ Apart(call.src, call.dst)

(* A copy or move that returns 0 and was not cancelled has brought all     *)
(* there was, wherever an access failed: the code ignores what f_mkdir     *)
(* returns and stops at the first error of an entry (fscopy.c 116-144).    *)
CopyIsWhole == Over /\ ret = "ok" /\ Brings => WholeAt(call.src, call.dst)

(* Whatever a call changes is at the place it was given, and a copy that   *)
(* is apart from its source changes there only what the source has too: no *)
(* path is put together wrongly at any depth (fsutils.c 9-18, fscopy.c     *)
(* 104-128), and a copy onto a folder keeps what else is in it.            *)
OnlyTargetChanges ==
  \A p \in DOMAIN before \cup DOMAIN tree :
    \/ Exists(p) /\ p \in DOMAIN before /\ tree[p] = before[p]
    \/ call.op \in MoveModes /\ IsPrefix(call.src, p)
    \/ /\ IsPrefix(call.dst, p)
       /\ call.op \in {"copy", "copyfolder"} /\ Apart(call.src, call.dst)
            => Carried(p, call.dst, call.src) \in DOMAIN before

(* FolderDelete that returns 0 has removed everything, and nothing that is *)
(* read-only ever goes (fscopy.c 152-190).                                 *)
DeleteIsWhole ==
  call.op = "delete" =>
    /\ Over /\ ret = "ok" => ~\E p \in DOMAIN tree : IsPrefix(call.src, p)
    /\ \A p \in DOMAIN before : before[p].ro => Exists(p)

(* The recursion goes no deeper than the folder it was called for: a copy  *)
(* does not come upon what it has made itself (fscopy.c 95-98, 110).       *)
RecursionBounded ==
  frames # <<>> =>
    \E p \in DOMAIN before : IsPrefix(call.src, p)
                          /\ Len(frames) <= Len(p) - Len(call.src) + 1

(* After an error a call changes nothing any more and hands the error to   *)
(* its caller (the conditions on ret.err in fscopy.c).                     *)
StopsAtFirstError ==
  [][frames # <<>> /\ ret # "ok" => UNCHANGED tree /\ ret' = ret]_vars

(* Every call comes back.                                                  *)
CallsReturn == []<>(frames = <<>>)
=============================================================================
