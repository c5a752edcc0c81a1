# TegraExplorer: a verification project

TegraExplorer is a payload for the Nintendo Switch: it runs alone on one core,
before any operating system, and lets a user browse, copy, dump and restore the
SD card, the internal flash (sysMMC) and its image on the SD card (emuMMC). Its
own code is under `source/`; `bdk/` is the vendored hekate BDK (drivers, FatFs,
heap, crypto). This directory holds TLA+ models of the parts where a mistake
loses a user's data, the TLC configurations that check them and TLAPS proofs.

There is one thread and no interrupt handler, so nothing here is about
interleaved processes. What makes the code hard is **global state shared by
long call sequences** (which flash area is selected, which partition the cluster
cache is for, what is mounted, what the clipboard names), **partial failure**
(of an eMMC access, of one step of a copy, of a re-initialisation), **resets**
(the console can lose power anywhere), and **hands** (a card is taken out or
exchanged while a transfer runs).

## Inventory

| Component | State | Operations | Hard because | What makes it correct |
|---|---|---|---|---|
| BIS cluster cache (`storage/nx_emmc_bis.c`, below `libs/fatfs/diskio.c`) | lookup table, slots, end index, dirty count, partition | init, cached read, cached and uncached write, finalize | eviction, partial failure, power loss, partition switch over old slots | it is a plain disk: reads give the last write, completed writes are durable |
| Mount manager and routing (`storage/mountmanager.c`, `emummc.c`, `nx_emmc.c`, `emmcfile.c`) | connection, force-disable flag, selected area, GPT list, mounted flag, FatFs registration | connect, disconnect, mount, unmount, dump, restore, key derivation | every operation leaves selections behind for the next one | an access reaches the device, area and partition it was meant for |
| Explorer, partition menu, clipboard (`fs/menus/*`, `storage/gptmenu.c`, `tegraexplorer/tconf.c`, `mainmenu.c`, `tools.c`) | location, copy mode, source path | browse, pick, paste, dump, flash, format | the clipboard outlives the mount it names | the explorer works on the partition opened; a paste reads what was picked |
| SD card (`storage/nx_sd.c` with `bdk/storage/sdmmc.c`) | bus mode, initialised, mounted | mount, unmount, transfer with retries and re-initialisation | cards exchanged in mid-call, nested retry loops | calls return; a transfer happens on one card |
| Dump and restore loops (`storage/emmcfile.c`, `gptmenu.c`) | sector, remaining count, the user's consent | dump, restore, ask | early returns, failing rounds, a last round shorter than the buffer | whole image or an error; nothing overwritten unasked |
| File and folder operations (`fs/fscopy.c`, `fsutils.c`, `readers/folderReader.c`) | the volume, the recursion | copy, move, delete, list, recursively | ignored results, error exits, destinations inside the source | a copy is whole or reported, nothing else changes, the recursion ends |
| Heap (`bdk/mem/heap.c`) | the list of nodes, in the memory they divide | malloc, calloc, free | headers lie between the blocks; a walk merges what it walks on | blocks are disjoint, large enough and stay; free space is merged |
| Menus (`gfx/menu.c` with its callers) | choice, page, what is on the screen, the caller's last choice | start, draw, move, choose, go back | skipped and hidden entries, partial redraws, an index kept while the list changes | the choice is an entry, can be seen, and every entry can be reached |
| Script engine (`script/*`) | variables, the C stack of the evaluator, values with reference counts | evaluate statements, call, set, loop, exit | lifetime of values across calls back into the evaluator; NULL means exit, break and error | no value in use is freed, counts are exact, exit() ends the script |
| Keys (`keys/*`) | key store | derive, load, save | needs BOOT0 selected | keys found or `keysDumped` false |
| Start-up, payloads (`main.c`, `config.c`, `err.c`) | boot configuration | boot, chain-load | hardware | - |
| Drawing, BDK, loader, host tools | - | - | output, vendored, or not part of the program | - |

How they interact: the menus call the mount manager and the explorer; the
explorer and the file operations call FatFs; FatFs calls `diskio.c`, which routes
drive `bis:` to the cluster cache and drive `sd:` to the SD card; the cluster
cache calls `nx_emmc_part_*`, which calls `emummc_storage_*`, which goes to the
eMMC or, through the SD card, to an emuMMC. `emmcfile.c` calls the cache from
the side, while FatFs may have its partition mounted. Scripts reach all of this
through `standardLibrary.c`. Every screen goes through the loop of `newMenu`, and
every buffer, path, list and script value comes from the heap.

The hazards of each component, with the line where each bites and the property
that covers it, are in `PROJECT.json`.

## Modules

| Module | Models | Notes |
|---|---|---|
| `BisDisk` | the promise of the cluster cache | abstract: a disk with a visible and a durable content |
| `BisCache` | `nx_emmc_bis.c` | `Disk == INSTANCE BisDisk WITH ...` is the refinement |
| `MCBisCache` | instances for TLC | symmetry of values and partitions |
| `BisCacheProofs` | proofs about `BisCache` | what holds in any case, what holds while the eMMC obeys, and the refinement |
| `MountManager` | `mountmanager.c`, `emummc.c`, `nx_emmc.c`, the selections of `emmcfile.c`, of the keys and of the start | checked under the menus of `Session` |
| `Session`, `MCSession` | menus, explorer, clipboard, the calls of scripts | EXTENDS `MountManager` and composes its actions with the menus' state |
| `SessionProofs` | proofs about `MountManager` and `Session` | the mounts first, then the session above them |
| `SdCard`, `MCSdCard`, `SdCardProofs` | `nx_sd.c` and the transfer loop of `sdmmc.c` | |
| `Folders`, `MCFolders`, `FoldersProofs` | `fscopy.c` with its callers in the explorer, the menus and the scripts | |
| `EmmcFile`, `EmmcFileProofs` | the loops of `emmcfile.c` over `emummc.c`, and the questions of `gptmenu.c` | TLC checks the module itself |
| `HeapStore` | the promise of malloc and free | abstract: disjoint blocks that stay |
| `Heap`, `HeapProofs` | `bdk/mem/heap.c` | `Store == INSTANCE HeapStore WITH ...` is the refinement |
| `Menu`, `MCMenu`, `MenuProofs` | `newMenu` and the three menus that call it in rounds | |
| `ScriptEval`, `MCScript`, `ScriptProofs` | `eval.c`, `garbageCollector.c`, `genericClass.c` and the functions that run blocks or keep values | `MCScript` says which statements a script may be made of |

### BisCache

Variables carry the names of the static variables (`cluster_lookup`,
`cluster_cache_end_index`, `cache_filled`, `dirty_cluster_count`, `system_part`);
`slot_cluster`, `slot_dirty`, `slot_data` are the fields of `cluster_cache[i]`.
`curr_sct`, `count`, `fin_i`, `clusters_to_flush` are local variables of loops.
A step is one call of a block function (`ReadHit`, `ReadMiss`, `WriteCached`,
`WriteThrough`) or one write-back of `nx_emmc_bis_finalize` (`FinalizeFlush`);
`PowerLoss` may come between any two. A write of the eMMC that fails may have
stored any of its sectors. Contents are decrypted: AES-XTS is the identity on
them as long as the key slots belong to the partition. The cache lock has no
caller in the program, so the uncached read path is unreachable and left out.
`slot_dirty` starts as all TRUE or all FALSE (the cache lives in DRAM nothing
clears).

### MountManager

A step is one public call. Data is left out: an access is the pair of the place
it was meant for and the place it reached (`last`), and a place is a device, an
area and a partition name. `curGpt` is what a walk of the GPT list visits.
`nx_emmc_gpt_free` frees the entries without emptying the list head
(`nx_emmc.c:58-62`), and the heap is first-fit: where the new entries come to lie
depends on what else has been allocated and freed. `GptParse` therefore has every
placement: the walk visits freed entries first, up to one whose place a new entry has
taken, and goes on from there, or it never comes to a new entry at all. `MaxStale` bounds
the freed entries a walk visits. A freed entry whose place something else has taken ends in
a data abort, which is a reset. No property says that the table is that of
the connected device: it need not be. `MmcMayFail` lets commands to the eMMC fail.

### Session

A step is one choice of the user with all it causes until the next prompt, or one
call of a script. It reuses the actions of `MountManager` for what either does to the
mounts. A path is abstracted to its volume and to the partition the explorer was opened
on when it was picked. Scripts are started from the main menu and from the file menu of
an explorer (`filemenu.c:89`, `192`), where they can mount, dump and flash anything
under the open explorer: what the menus promise about `bis:` is stated until
that happens (`scripted`, an observation, as is `opened`: neither guards anything
but which names the entries of the partition menu can have, which point into a table
that a script has freed).

### SdCard

A step is one attempt to initialise the card or to move one chunk; `Remove` and
`Insert` come between any two. `tried` and `moved` are observations: no guard
reads them. `StorageEnd` leaves everything alone when the card does not answer,
as `sdmmc_storage_end` does. `is_sd_inited` and `sd_mounted` go together; what a failing
re-initialisation takes away under a mounted card is `initialized`, the state of
`sd_storage`. `LossIsReported` is about that one: the call that loses it fails.
`TransferOnOneCard` says that a transfer which succeeds has moved all its chunks on one
card, `GivenUpLast` that no mode between the one in use when the call begins and the
slowest is left out before a card is given up; a call that begins at `SD_INIT_FAIL` tries
none, and the property asks nothing of it.

### Folders

`tree` maps paths to entries; a path is the sequence of its names. The recursion
of `FolderCopy` and `FolderDelete` is the stack `frames`; a frame holds the
entries it has read ahead and not yet handled. A step is one round of the loop of
the top frame, with all of `FileCopy` in it: it may end after any chunk. The
order of the entries in a folder is left open. `NameStarts` stands for the
comparison of characters in `strstr`. FatFs is external: it refuses what
`CanMake`, `CanCreate`, `CanUnlink` and `CanRename` refuse, and any access may
fail, with or without effect. `ClosesMayFail` lets `f_close` fail, whose result the
code ignores; `ScriptsOverlap` lets scripts copy a folder into itself.

### EmmcFile

`curLba`, `left` are the locals of the two loops, and a step is a call up to its
loop, one round, or the `f_close` behind the loop. A call that is answered by `exists` or
`toosmall` is followed by the user's answer (`Agree`, `Decline`), as in `GptMenu`. A file
is its whole sectors and a flag for bytes after them. Which area is meant is left to
`MountManager`, and the cluster cache is taken for a disk, which is what `BisCacheProofs`
shows. Three ways a call succeeds with less than it was asked for are in the model:

* The card's file system has no room for the area in one file: FAT32 cuts `f_write` off
  before 4 GiB with `FR_OK` and fewer bytes (`ff.c:4025`), whose number is not asked for
  (`emmcfile.c:57`). `largest` is what fits (`Limits`), and `DumpIsWhole` says exactly how
  much of the area the file then holds.
* `f_close` cannot write the size of the file (`Close`), and its result is ignored
  (`emmcfile.c:70`): the directory has an empty file. `unsaved` remembers it;
  `DumpIsWhole` does not hold of such a dump and leaves it out.
* The area lies on a file-based emuMMC, whose image is cut into files of `PartSize`
  sectors: `emummc_storage_read` and `emummc_storage_write` open the file of the first
  sector and go on in it, so a request that reaches the end of the file ends there
  (`Reached`) and is a success all the same. The properties are about the sectors that
  are `Answered`: with an eMMC, a raw emuMMC, or areas and files at multiples of the
  buffer, that is all of them.

### Heap

Addresses and sizes count units of `sizeof(hnode_t)`, to which `_heap_alloc` rounds.
`used`, `size`, `prev`, `next` are the fields of the headers in the list, as functions
of the address of the header; a step is one round of the loop of `_heap_alloc`
(`AllocNext`, `AllocTake`, `AllocAppend`) or of `_heap_free` (`FreeNext`). The walk of
`_heap_free` goes on from a header it has just merged away: `FreeNext` takes the next
node from the old header, as the code does. Left out: sizes near 2^32, `heap_copy`,
`heap_monitor`, and an end of the heap, which the code does not have.

### Menu

`selected`, `lastIndex` and `redrawScreen` are the locals of `newMenu`; `res` is what
the caller keeps. `screen` is the box of the menu, row by row, with the entry printed
last in each and whether it was printed as the chosen one, so that a partial redraw
(`MoveDrawn`) can be told from a full one (`PageDrawn`). The three callers build their
entries anew in every round, with the kinds the code gives them. `user` is the
intention of whoever holds the buttons, for the liveness properties only.
The build defines `INCLUDE_BUILTIN_SCRIPTS`: the `Embedded` scripts are always listed, the
heading above them is never hidden, and the scripts of the card come behind them. The main
menu keeps the index of the last choice unless it reads the scripts folder, so
when a script of the card was chosen and the card was pulled or unmounted, or the folder
is gone, in the next round the index lies behind the last entry (`mainmenu.c:174`, `212`);
the comment at `menu.c:64` knows the case ("Maybe add a check here so you don't
read OOB by providing a too high startindex?"). What is there in memory may read as a
heading, and the search goes back to the first entry, or as an entry, and the menu goes on
behind the list (`astray`), where it is not followed further. `StartsOnAnEntry` says
that this is the only case: the explorer and the menu of a file never go there, nor does
the main menu while a script of the card is listed.

What else the model follows: "left" from the first row of the second page does nothing, because entry 0 is a heading; the loop of
`menu.c:48` would not end with nothing to choose, which no caller gives it.

### ScriptEval

The C stack of the evaluator is the sequence `stack` of frames: an `eval`, the
arguments of a built-in function, a block, a loop, the call of a script function, an
index. A step evaluates one operator of a statement or returns from one frame; `val`
is the value being returned. A value is a cell of `heap` with its kind, its `tagCount`
and the values it refers to (the origin of a built-in function or of a slice, the
entries of a dictionary); what else it holds is left out, and choices of the script
(a condition, a result that is an error) are open. The script is open as well: every
body runs any statements of `Statements`, whose brackets, indexes and arguments are of
`Expressions`. Releasing a value that loses its last reference releases those it refers
to: `ReleaseAll` frees the smallest set of cells that is closed under this (`Garbage`)
and takes from the others the references they lose, where `modReference`
and `freeVariable` call each other; in whichever order references go, the last one frees.
An operand may begin where there is no value yet and behind an operator (`Open`), and
`ExpectedOperator` is the error of two operands side by side. `lost` collects the cells of which the code
drops a reference without releasing it (an error in mid-expression, a call through a
dictionary's entry, an entry that is overwritten): `CountsExact` says that these leaks
are the only way a count is too large and that none is ever too small.

`Features` switches on what the reference counts of the code do not survive:
`while` left by `break()` releases its condition twice (`standardLibrary.c:69`, `87`);
`foreach` frees its iterator while a variable refers to it (`arrayClass.c:148`; the
comment at line 122 says "arrayForEach does not like the new garbage collector");
`project()` of a slice borrows the array's data without a reference; and with a small
`TagLimit` the `u8` count wraps after as many leaked references. With any of these
`NoDangling` does not hold; the run `script` is about the rest of the language. Left
out besides: the parser with its array literals, an unsolved or empty array literal,
arrays of strings that share their strings, results that are filled dictionaries, an
index that is NULL in a set (read through address 0, `eval.c:182`), and `print` of a NULL.

## Runs

| Run | Shows | Bounds |
|---|---|---|
| `bis_disk` | the cache refines `BisDisk` (`ImplementsDisk`); nothing stays dirty between calls; clean slots equal the eMMC, only client data is stored | 3 clusters of one sector compete for 2 slots, 2 partitions, requests up to 2 sectors, eMMC obeys |
| `bis_faults` | a write-back always finds its buffer, the dirty count never falls short, calls return | clusters of 2 sectors, requests up to 3 (partial cluster, whole, and crossing), every access may fail, a write half way, one value |
| `session` | every access reaches its place; the active device is the connected one; the mount belongs to it; the explorer on `bis:` works on the partition opened; a move never changes volume | 3 partitions (FAT, encrypted without FAT, unencrypted), the choices of the user and the calls of scripts in any order, one freed entry in a walk |
| `sdcard` | a transfer succeeds on one card only; the call that loses a mounted card fails; no mode is left out before a card is given up; calls return | 2 cards, transfers of up to 2 chunks |
| `folders` | success means whole; only the target changes; what is deleted is deleted whole; the recursion goes no deeper than the source; an error stops everything; calls return | 2 volumes of 5 entries, 2 calls in a row, one failing access, paths up to 4 names |
| `emmcfile` | a dump or restore that succeeds is whole as far as the card has room and the sectors are answered, no other sector changes, nothing is overwritten unasked, calls return | area of 3 sectors, buffer of 2, files of 0 to 4 sectors with or without a tail, room for 1 or 4, two failing accesses, 2 calls; the image in files of 2 sectors, so that rounds go on from one into the next |
| `heap` | blocks are disjoint and large enough (`ImplementsStore`), the list covers the heap, free neighbours are merged, the heap grows only when nothing fits, calls return | blocks of 0, 2 and 7 units in 18: up to 5 nodes, rests that are worth a node and rests that are not |
| `menu` | the choice is an entry but in the one case above, is what the screen shows, can be chosen; every end is reached | up to 3 pages of the explorer, 3 of the main menu (2 scripts built in, up to 3 on the card), every pattern of hidden entries of a file's menu |
| `script` | nothing reachable is freed, counts are exact, `exit()` ends the script | 4 statements of every kind but `break`, `foreach` and `project` over 2 variables and one dictionary key, 3 values of up to 6 references, 6 frames |
| `bis_stale_read`, `session_script`, `script_exit` | where the program departs from what its comments say | see *Findings* |

Why the bounds are enough. With three clusters and two slots the cache wraps,
evicts, reuses the slot it has just filled and evicts a slot that a failed read
left behind; a fourth cluster or a third slot adds no new relation between a
slot and the cluster that takes it. Two sectors per cluster distinguish partial
from whole blocks. `MaxDirty` only stops calls from *beginning* while the count
is large: with failing writes the counter of the code grows without limit. The
three partitions cover every combination of encrypted and FAT that the code
distinguishes. One freed entry (`MaxStale`) already lets a name be found with the bounds
of the other device's table and lets the walk begin in the middle of the new one. Two cards
are enough to tell one from another, two chunks to stop in the middle. In the dumps the
area is no multiple of the buffer, a round crosses the end of an image file and one does
not, and a card has room for all of the area or for less than one round. The two
volumes have a folder inside a folder of the same name, a name that begins
another, a file where a copied folder would go and a read-only file; two calls
let one work on what another has left half done. `MaxDepth` is reached only by
copies that go on for ever. In the heap the three sizes fit exactly, leave a rest
worth a node, or one too small; five nodes let a walk merge a node with both its
neighbours while others stay. In the menus the pages are short, and the lists a
little longer than two pages. Three cells let one value refer to another while a
third is made; two variables let one be set while the other still refers to the old
value.

Fairness. `BisCache!FairSpec`, `SdCard!FairSpec`, `Folders!Spec`,
`EmmcFile!Spec` and `Heap!FairSpec` assume weak fairness of the
steps of a call in progress: there is one thread, hardware is polled with
time-outs, so a call that has begun goes on, whatever the hardware answers.
Nothing is assumed of the user, of power, of cards or of the outcome of an
access. `Menu!FairSpec` assumes that the loop draws (it has nothing to wait for) and,
for a user who wants to get to an end, that the same button is pressed again and
again. `MountManager`, `Session` and `ScriptEval` have safety properties only: a
script may loop for ever.

Every property of a passing run has a mutant: a definition next to the one it
replaces, marked `Mutation`, that a plausible slip in the code would give.

## Findings

Each is a run that TLC must find violated.

* `bis_stale_read`: a failed read of a cluster leaves its lookup entry
  (`nx_emmc_bis.c:229`): the next read of it returns the slot's old contents,
  with success.
* `session_script`: a script started from an explorer below the partition menu connects
  the other device. Back in the menu the heading (`gptmenu.c:76`) still names the
  device it was opened with, and its entries are dumped from and flashed to the other.
* `script_exit`: `stdWhile` takes a block that returned NULL for one left by `break()`
  whenever `scriptLastError` is `SCRIPT_BREAK`, which nothing but a printed error
  resets. After `while (c) { break() }`, `exit()` in a later loop only leaves that
  loop, although `standardLibrary.c:113` says that it "will exit runtime".

Other departures the models follow, without a run: `emummc_storage_set_mmc_partition`
drops the result of the switch (`emummc.c:276`), so the check in `keys.c:243`
("Unable to set partition.") can never fire (`AccessReachesWhatIsMeant` fails with
`MmcMayFail`); the entries of a freed GPT table can be found by name after another device
was connected (`nx_emmc.c:61`); a dump or flash of a script (`emmcread`, `emmcwrite`) puts
another partition under an explorer that is open on `bis:` (`scripted` in `Session`);
the clipboard holds a path on `bis:` while a dump changes the partition behind it, and a
paste of a copy then reads the other partition, where `README.md:31` promises "Deleting, copying,
renaming and moving files"; `FolderCopy` looks for a destination inside the source
only while a folder is on the explorer's clipboard (`fscopy.c:95`), so `copydir` of a
script copies a folder into its own subfolder without end (with `ScriptsOverlap`),
where `err.c:29` says "Can't move/copy folder into itself"; a write whose write-back
failed in `nx_emmc_bis_finalize` reports success; "Clipboard -> Partition" stays
enabled after the clipboard has been emptied in an explorer opened from that
menu, and flashing then takes the name of a NULL path (`gptmenu.c:85`); `sd_mount`
reports success while a card whose re-initialisation failed counts as mounted; a dump
reports success when FAT32 has cut it off or `f_close` has failed; the index
of the main menu lies behind its entries when the scripts of the card have gone; the SD
mode stays at `SD_INIT_FAIL` where the comment says "Reset to max.";
`FileCopy` ignores `f_close`; a restore drops the bytes after the last whole sector;
a folder pasted over its own parent overwrites what it still has to read; a file picked
for a move, in whose place a folder has come meanwhile, is moved by its name alone
(`explorer.c:96`; the check before it knows a folder only by the copy mode), so that
pasting it inside that folder makes `f_rename` hang the folder below itself: it is lost
and the move reports success, where `README.md:31` promises "Deleting, copying, renaming
and moving files". `CopyIsWhole` leaves out these last two (`Brings`).

## Proofs

All proofs hold for every value of the constants that satisfies the named
assumptions of the modules. What is proved here and would be shallow as a question
to TLC is not repeated in a run: the type invariants of the modules with proofs,
`LookupExact` and `ClipboardWhole`.

`BisCacheProofs` proves `Spec => []TypeOK`, `[]SlotsOwned` and `[]DirtyCounted`
for any geometry and any pattern of failures. `SlotsOwned` is inductive only with
the type facts of the loop variables (a block stays inside a cluster of the
partition, the remaining count fits) and the fact that the cache counts as filled
only when all slots have been used; `DirtyCounted` counts the dirty slots with
`Cardinality` and follows each step's effect on that set (one slot added,
one removed, or nothing).

It then assumes `ReadsMayFail = FALSE` and proves `[]LookupExact`,
`[]CleanSlotsMatchEmmc` and `Spec => OnlyClientData`. The inductive invariant
`Clean` adds that requests stay aligned to clusters (`LoopAligned`, which needs
the arithmetic of `\div` and `%`) and that a slot is in use only once a partition
is selected. The assumption is needed: `bis_stale_read` is what happens without.

Its last part proves the refinement `Spec => ImplementsDisk` assuming that the eMMC
obeys (`ReadsMayFail = WritesMayFail = FALSE`), after `[]NothingDirtyBetweenCalls`
under the same assumption. The invariant `Swept` says
that the dirty count is *exactly* the number of dirty slots, that they are all ahead
of the walk of finalize, and that outside a write there is none; the walk reaches all
of them because a set of naturals has a smallest element. Each action of the cache
then has a lemma that names the action of the disk it is: a miss is a plain read
because it changes no visible content, a flush is `Sync`, a write to a slot changes
what is visible and not what is durable.

`SessionProofs` proves, of the mounts, `[]TypeOK`, `[]ConnectedDeviceIsActive` and
`[]MountedFromConnectedDevice` with no assumption, so for every placement of the partition
table and every failing command, and `[]AccessReachesWhatIsMeant` assuming that the eMMC
obeys (`MmcMayFail = FALSE`; with `MmcMayFail` it does not hold). The inductive
invariant `Mounting` adds to the mount that it implies a connection and that there is none
while the keys are looked for. It says nothing of the table: a mount takes the device and the
area from what is selected when it is made, and only the bounds from the table.

`HeapProofs` proves all of the allocator, for blocks of any size in any order:
`[]TypeOK`, `[]Tiled`, `[]Coalesced`, `Spec => GrowsOnlyWhenFull` and the refinement
`Spec => ImplementsStore`. The inductive invariant `Strong` is `TypeOK`, `Tiled` and
two facts about the walks: what a walk of `_heap_free` has passed has no two free
neighbours (`Walk`), and what a search of `_heap_alloc` has passed does not fit
(`Search`). That the walk may go on from a header merged away is one of its cases.

`SdCardProofs` proves `[]TypeOK`, `[]LossIsReported`, `Spec => TransferOnOneCard` and
`Spec => GivenUpLast` for any number of cards and chunks. `Held` says that `sd_storage`
is there while a transfer runs, so that whatever takes it away ends in a failure or in
another initialisation; `OneCard` says that, while
the card is initialised (`ready`), what has been moved since the last start of the
transfer was moved on the card now in the slot; `Ladder`, that the modes tried so far have no gap between the
mode begun with and the mode in use.

`EmmcFileProofs` proves `[]TypeOK`, `[]AsksFirst`, `[]DumpIsWhole` and
`[]RestoreIsWhole` for areas, buffers, files, image files and room on the card of any size,
with no assumption on how they lie to each other. The invariants `DumpImage` and
`RestoreImage` relate what has been transferred and `Answered` to `curLba`, up to where
the card's file system cuts the file off, and `Aligned` says where a round may begin.

Of the session `SessionProofs` proves `[]UiTypeOK`, `[]ClipboardWhole`, `Spec =>
MoveStaysOnItsVolume` and `[]ExplorerReachesItsPartition`, all with no assumption.
`StepBelow` shows that every step of a session but `FormatSD` is a step of
`MountManager` or leaves its variables alone, so the invariants proved there carry over,
and only `FormatSD` and what the menus add has to be looked at: above all that the
partition menu's device stays connected as long as no script has run (`MenuHolds`).

`FoldersProofs` proves every safety property of `Folders` for volumes of any shape and
depth, any number of calls and any failing accesses. It starts from lemmas about paths
(what `Carried` does to prefixes and to appended names), about trees (what is above an
entry is a folder, by a smallest counterexample; putting, dropping and renaming keep a
tree) and about the frames (`Links`: they lead down from the folder of the call). Each
action is then shown to be `Stepped`: its effect on the volume is one of a copy, of a
deletion or of a move, at a place the call allows, and the stack grows or shrinks by the
frame it should. The invariants rest on that, not on the actions:
`Shape` gives `[]TypeOK`; `Kept`, that what has changed since the call began was
permitted, gives `[]OnlyTargetChanges`, and with it that the source of a copy apart from
its destination stays as it was, which the other proofs need; `Remains` and `Removed`
say that a deletion has taken only what was there and that each frame still has to do
whatever is left below it, and give `[]DeleteIsWhole`; `Bounded` says that nothing below
the source is deeper than what was there, which a copy into itself would break, and
gives `[]RecursionBounded` assuming `ScriptsOverlap = FALSE`; `Progress` says that each
entry of a folder being copied is still to do, is the next frame's folder, or has
arrived with all below it, and with `Arrived` gives `[]CopyIsWhole`, assuming
`ClosesMayFail = FALSE`. Both assumptions are needed: the other values are the findings
above. `Spec => StopsAtFirstError` is proved without an invariant.

`MenuProofs` proves `[]StartsOnAnEntry`, `[]ShowsTheChoice` and `Spec => ReturnsAChoice`
for lists and pages of any length and any number of scripts built in. The inductive invariant
says that the index lies on an entry that can be chosen while the menu is drawn and
waits (`Chosen`), in which list it may have gone behind the end (`Astray`), and that the box shows exactly what
drawing the whole page would (`OnScreen`); that a partial redraw keeps it needs the
rank of an entry among the visible ones, which is counted with `Cardinality`.

`ScriptProofs` proves `[]TypeOK`, `[]NoDangling` and `[]CountsExact` for scripts of any
statements, with any number of variables, entries and values and any depth of calls,
assuming `Features = {}` (with `break`, `foreach` or `project` they do not hold, see *ScriptEval*) and `MaxTags < TagLimit` (no value has so many
references that its `u8` count wraps). The inductive invariant `Inv` has two parts.
`Sound` says that the count of a cell is the number of references to it, those of other
cells and those from outside (`Ext`: variables, the C stack, the value being returned),
or larger when one was lost, and that a free cell has none. `StackOK` says what each
frame needs of those below it (`Sits`): above all that the value a built-in function works
on, to which its frame has no reference of its own, is held by a frame below, is kept by
a function that one holds, or was lost and therefore stays (`Belongs`). Adding a value,
taking a reference, releasing references and setting an entry each have a lemma that
keeps `Sound` and leaves the values in use as they were (`Step`); that a release frees no
cell that is still referred to is counted over the smallest closed set of `ReleaseAll`.
Each action then says how it moves references between the stack, the variables and the
heap. `[]ExitStops` is proved assuming only that there is no `break`: unless NULL is being
returned, a step leaves `exited` alone or returns NULL itself (`StaysNull`).

The proofs corrected the models where they did not go through: a `while` without
arguments (no condition to set aside), the guards of `eval` for operands and operators,
the effect of an operator without a left side, and a move of a file
below itself.

Only model-checked: the liveness properties, which are out of the prover's reach, as are
ENABLED and induction over recursive data. The cases that the assumptions of the
theorems leave out are those named with each of them.

## Not modelled

Uncached reads of the cache (unreachable), AES-XTS and key derivation, the
`emummc.ini` parser and the offset of a raw emuMMC, the script parser, the row menus,
the SD error statistics, drawing, host tools and the vendored libraries except where
a model states how this code uses them (`external` in the map). Most of the repository
is the vendored BDK (FatFs, LVGL, USB, DRAM training, display): the models cover the
program's own logic and, of the BDK, the heap and the SD transfer loop it rests on.

## Plan

The order in which the project was built and goes on: the cluster cache and the
mount manager (where data is lost), the session above them, the card, the loops and
the file operations; then the heap, the menus and the script engine. Open:
the conversion of the script parser, the key store, and the raw emuMMC with the parser
of `emummc.ini`.
