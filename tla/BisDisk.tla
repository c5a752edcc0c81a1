------------------------------ MODULE BisDisk ------------------------------
(***************************************************************************)
(* What the BIS driver (source/storage/nx_emmc_bis.c) promises to FatFs    *)
(* and to the dump and restore loops, with no cluster cache in sight.      *)
(*                                                                         *)
(* A partition is an array of sectors.  A read returns what the latest     *)
(* write stored.  A write becomes visible block by block, and when the     *)
(* call has returned, everything it wrote is also durable: it survives a   *)
(* reset of the console.  In between, any part of it may be.               *)
(***************************************************************************)
EXTENDS Integers

CONSTANTS
  Part,      (* the encrypted partitions of the eMMC                       *)
  NoPart,    (* no partition is selected yet                               *)
  Sector,    (* the sectors of a partition                                 *)
  Content    (* what one sector can hold                                   *)

VARIABLES
  part,      (* the selected partition                                     *)
  disk,      (* what a read of a sector returns                            *)
  durable,   (* what a reset would leave of it                             *)
  op,        (* the call in progress: "idle", "read" or "write"            *)
  todo,      (* the sectors the call has not transferred yet               *)
  out,       (* the sectors the last step handed to the caller             *)
  ret        (* the result of the last call, 0 for success                 *)

vars == <<part, disk, durable, op, todo, out, ret>>

NoBlock == [x \in {} |-> x]

Init ==
  /\ part = NoPart
  /\ durable \in [Part -> [Sector -> Content]]
  /\ disk = durable
  /\ op = "idle" /\ todo = {} /\ out = NoBlock /\ ret = 0

(* Another partition is selected between two calls.                        *)
Select(p) ==
  /\ op = "idle"
  /\ part' = p
  /\ out' = NoBlock
  /\ UNCHANGED <<disk, durable, op, todo, ret>>

Call(kind, sectors) ==
  /\ op = "idle"
  /\ op' = kind /\ todo' = sectors /\ ret' = 1 /\ out' = NoBlock
  /\ UNCHANGED <<part, disk, durable>>

Finish(res) == op' = "idle" /\ todo' = {} /\ ret' = res

(* The calls fail when no partition is selected.                           *)
NotReady ==
  /\ op # "idle" /\ part = NoPart
  /\ Finish(1)
  /\ out' = NoBlock
  /\ UNCHANGED <<part, disk, durable>>

ReadSome(S) ==
  /\ op = "read" /\ part \in Part
  /\ S # {} /\ S \subseteq todo
  /\ out' = [x \in S |-> disk[part][x]]
  /\ IF S = todo THEN Finish(0) ELSE todo' = todo \ S /\ UNCHANGED <<op, ret>>
  /\ UNCHANGED <<part, disk, durable>>

(* Some sectors of the call take new contents; durability may lag.         *)
WriteSome(S) ==
  /\ op = "write" /\ part \in Part
  /\ S # {} /\ S \subseteq todo
  /\ todo' = todo \ S
  /\ \E d \in [S -> Content], D \in SUBSET S :
       /\ disk' = [disk EXCEPT ![part] =
                     [x \in Sector |-> IF x \in S THEN d[x] ELSE @[x]]]
       /\ durable' = [durable EXCEPT ![part] =
                     [x \in Sector |-> IF x \in D THEN d[x] ELSE @[x]]]
  /\ \/ UNCHANGED <<op, ret>>
     \/ todo' = {} /\ disk' = durable' /\ Finish(0)
  /\ out' = NoBlock
  /\ UNCHANGED part

(* Visible contents become durable, never the other way round.             *)
Sync(S) ==
  /\ op = "write" /\ part \in Part
  /\ durable' = [durable EXCEPT ![part] =
                   [x \in Sector |-> IF x \in S THEN disk[part][x] ELSE @[x]]]
  /\ out' = NoBlock
  /\ UNCHANGED <<part, disk, op, todo, ret>>

WriteReturn ==
  /\ op = "write" /\ part \in Part /\ todo = {}
  /\ disk = durable
  /\ Finish(0)
  /\ out' = NoBlock
  /\ UNCHANGED <<part, disk, durable>>

(* The console is reset or loses power, at any moment.                     *)
Reset ==
  /\ part' = NoPart
  /\ disk' = durable
  /\ op' = "idle" /\ todo' = {} /\ out' = NoBlock /\ ret' = 0
  /\ UNCHANGED durable

Next ==
  \/ \E p \in Part : Select(p)
  \/ \E kind \in {"read", "write"}, S \in SUBSET Sector : Call(kind, S)
  \/ NotReady
  \/ \E S \in SUBSET Sector : ReadSome(S) \/ WriteSome(S) \/ Sync(S)
  \/ WriteReturn
  \/ Reset

Spec == Init /\ [][Next]_vars
=============================================================================
