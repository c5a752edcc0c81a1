-------------------------------- MODULE Heap --------------------------------
(***************************************************************************)
(* The allocator behind every malloc, calloc and free of the program       *)
(* (bdk/mem/heap.c).                                                       *)
(*                                                                         *)
(* Addresses and sizes count units of sizeof(hnode_t) bytes, to which      *)
(* _heap_alloc rounds: a node is one unit of header and then its memory.   *)
(* The functions used, size, prev and next are the headers in the list, by *)
(* address; what is left behind by a header that was merged away is not    *)
(* kept.  A step is one round of the loop of _heap_alloc or _heap_free.    *)
(* calloc asks for a block as malloc does and clears what it asked for,    *)
(* rounded, which is never more than the block.                            *)
(***************************************************************************)
EXTENDS Integers, FiniteSets

CONSTANTS
  Start,       (* where heap_init puts the first node                      *)
  MinLeft,     (* the rest of a node that is worth a node: 4               *)
  Request,     (* the units a caller asks for                              *)
  MaxTop,      (* bound: no call is begun that makes the heap larger       *)
  MaxNodes     (* bound: nor when it has so many nodes                     *)

ASSUME StartAssumption   == Start \in Nat \ {0}
ASSUME MinLeftAssumption == MinLeft \in Nat \ {0}
ASSUME RequestAssumption == Request \subseteq Nat

NULL == 0

VARIABLES
  first,       (* heap->first                                              *)
  used, size, prev, next,
  pc,          (* what is running: "idle", "alloc" or "free"               *)
  node,        (* the cursor of its loop                                   *)
  want         (* the size asked for, rounded                              *)

list == <<first, used, size, prev, next>>
vars == <<list, pc, node, want>>

-----------------------------------------------------------------------------
Nodes  == DOMAIN size
End(n) == n + 1 + size[n]

(* f with the value v at a new or an old address.                          *)
Put(f, a, v) == [n \in DOMAIN f \cup {a} |-> IF n = a THEN v ELSE f[n]]
Drop(f, a)   == [n \in DOMAIN f \ {a} |-> f[n]]

NoNodes == [n \in {} |-> 0]

(* _heap_create.                                                           *)
Init ==
  /\ first = NULL
  /\ used = NoNodes /\ size = NoNodes /\ prev = NoNodes /\ next = NoNodes
  /\ pc = "idle" /\ node = NULL /\ want = -1

-----------------------------------------------------------------------------
Top == IF Nodes = {} THEN Start
       ELSE LET last == CHOOSE n \in Nodes : next[n] = NULL IN End(last)

Malloc(n) ==
  /\ pc = "idle"
  /\ Cardinality(Nodes) < MaxNodes
  /\ Top + 1 + n <= MaxTop \/ \E m \in Nodes : ~used[m] /\ n <= size[m]
  /\ pc' = "alloc" /\ want' = n /\ node' = first
  /\ UNCHANGED list

Return == pc' = "idle" /\ node' = NULL /\ want' = -1

(* A node that is used, of this size, after and before these.              *)
NewNode(a, n, before, after, taken) ==
  /\ used' = Put(used, a, taken)
  /\ size' = Put(size, a, n)
  /\ prev' = Put(prev, a, before)
  /\ next' = Put(next, a, after)

AllocFirst ==
  /\ pc = "alloc" /\ first = NULL
  /\ first' = Start
  /\ NewNode(Start, want, NULL, NULL, TRUE)
  /\ Return

(* Mutation: the header counts as memory.                                  *)
FitsTight(n) == ~used[n] /\ want <= size[n] + 1

(* Mutation: a node of exactly the size is passed over.                    *)
FitsLoose(n) == ~used[n] /\ want < size[n]

Fits(n) == ~used[n] /\ want <= size[n]

(* Mutation: the walk stops at a free node that is too small.              *)
AllocNextWaits ==
  /\ pc = "alloc" /\ node # NULL
  /\ ~Fits(node)
  /\ next[node] # NULL
  /\ node' = IF used[node] THEN next[node] ELSE node
  /\ UNCHANGED <<list, pc, want>>

AllocNext ==
  /\ pc = "alloc" /\ node # NULL
  /\ ~Fits(node)
  /\ next[node] # NULL
  /\ node' = next[node]
  /\ UNCHANGED <<list, pc, want>>

(* Mutation: the node after the rest keeps its way back to the whole.      *)
SplitForgetsBack(n, rest) ==
  /\ used' = Put([used EXCEPT ![n] = TRUE], rest, FALSE)
  /\ size' = Put([size EXCEPT ![n] = want], rest, size[n] - want - 1)
  /\ next' = Put([next EXCEPT ![n] = rest], rest, next[n])
  /\ prev' = Put(prev, rest, n)

(* The node is cut; the rest becomes a free node behind it.                *)
Split(n, rest) ==
  /\ used' = Put([used EXCEPT ![n] = TRUE], rest, FALSE)
  /\ size' = Put([size EXCEPT ![n] = want], rest, size[n] - want - 1)
  /\ next' = Put([next EXCEPT ![n] = rest], rest, next[n])
  /\ prev' = [m \in DOMAIN prev \cup {rest} |->
                IF m = rest THEN n ELSE IF m = next[n] THEN rest ELSE prev[m]]

WorthANode(n) == size[n] - want >= MinLeft

AllocTake ==
  /\ pc = "alloc" /\ node # NULL
  /\ Fits(node)
  /\ IF WorthANode(node)
     THEN Split(node, node + 1 + want)
     ELSE /\ used' = [used EXCEPT ![node] = TRUE]
          /\ UNCHANGED <<size, prev, next>>
  /\ Return
  /\ UNCHANGED first

(* No node fits: a new one behind the last.                                *)
AllocAppend ==
  /\ pc = "alloc" /\ node # NULL
  /\ ~Fits(node)
  /\ next[node] = NULL
  /\ LET new == End(node) IN
       /\ used' = Put(used, new, TRUE)
       /\ size' = Put(size, new, want)
       /\ prev' = Put(prev, new, node)
       /\ next' = Put([next EXCEPT ![node] = new], new, NULL)
  /\ Return
  /\ UNCHANGED first

-----------------------------------------------------------------------------
(* free of a block that was handed out; NULL is below the heap and ignored.*)
Free(n) ==
  /\ pc = "idle"
  /\ n \in Nodes /\ used[n]
  /\ used' = [used EXCEPT ![n] = FALSE]
  /\ pc' = "free" /\ node' = first
  /\ UNCHANGED <<first, size, prev, next, want>>

MergeWithPrevious ==
  LET p == prev[node] IN
    /\ used' = Drop(used, node)
    /\ size' = [m \in Nodes \ {node} |-> IF m = p THEN size[p] + size[node] + 1 ELSE size[m]]
    /\ next' = [m \in Nodes \ {node} |-> IF m = p THEN next[node] ELSE next[m]]
    /\ prev' = [m \in Nodes \ {node} |-> IF m = next[node] THEN p ELSE prev[m]]

Mergeable(n) == ~used[n] /\ prev[n] # NULL /\ ~used[prev[n]]

(* Mutation: a walk that starts at the freed node and stops after it.      *)
FreeNextOnce ==
  /\ pc = "free" /\ node # NULL
  /\ IF Mergeable(node) THEN MergeWithPrevious ELSE UNCHANGED <<used, size, prev, next>>
  /\ IF Mergeable(node) THEN node' = NULL /\ pc' = "idle"
     ELSE node' = next[node] /\ pc' = IF next[node] = NULL THEN "idle" ELSE "free"
  /\ UNCHANGED <<first, want>>

(* One round of the walk over the whole list.                              *)
FreeNext ==
  /\ pc = "free" /\ node # NULL
  /\ IF Mergeable(node) THEN MergeWithPrevious ELSE UNCHANGED <<used, size, prev, next>>
  /\ node' = next[node]
  /\ pc' = IF next[node] = NULL THEN "idle" ELSE "free"
  /\ UNCHANGED <<first, want>>

Step == AllocFirst \/ AllocNext \/ AllocTake \/ AllocAppend \/ FreeNext

Next ==
  \/ \E n \in Request : Malloc(n)
  \/ \E n \in Nodes : Free(n)
  \/ Step

Spec == Init /\ [][Next]_vars

(* One thread: a call that has begun goes on.                              *)
FairSpec == Spec /\ WF_vars(Step)

-----------------------------------------------------------------------------
TypeOK ==
  /\ first \in {NULL, Start}
  /\ used \in [Nodes -> BOOLEAN]
  /\ size \in [Nodes -> Nat]
  /\ prev \in [Nodes -> Nodes \cup {NULL}]
  /\ next \in [Nodes -> Nodes \cup {NULL}]
  /\ Nodes \subseteq Nat \ {NULL}
  /\ pc \in {"idle", "alloc", "free"}
  /\ node \in Nodes \cup {NULL}
  /\ want \in Nat \cup {-1}

(* The nodes lie one behind the other, without a gap and without overlap,  *)
(* and the list goes through them in both directions: nothing is lost by   *)
(* any order of calls, and a block never reaches into the next header.     *)
Tiled ==
  /\ first = IF Nodes = {} THEN NULL ELSE Start
  /\ \A n \in Nodes :
       /\ prev[n] = NULL <=> n = Start
       /\ prev[n] # NULL => next[prev[n]] = n
       /\ next[n] # NULL => next[n] = End(n) /\ prev[next[n]] = n
       /\ next[n] = NULL => \A m \in Nodes : m <= n
       /\ \A m \in Nodes : m < n => End(m) <= n

(* Between two calls no two neighbours are free: one walk merges all there *)
(* is to merge, so that free space is as large as it can be.               *)
Coalesced ==
  pc = "idle" => \A n \in Nodes : ~used[n] /\ next[n] # NULL => used[next[n]]

(* The heap grows only when no free node holds what is asked for.           *)
GrowsOnlyWhenFull ==
  [][\A a \in Nodes' : (\A n \in Nodes : End(n) <= a) =>
       \A n \in Nodes : used[n] \/ size[n] < want]_vars

(* malloc and free come back.                                              *)
CallsReturn == pc # "idle" ~> pc = "idle"

-----------------------------------------------------------------------------
(* The blocks handed out; a caller knows a node by the address behind its  *)
(* header.                                                                 *)
Blocks == [a \in {n + 1 : n \in {m \in Nodes : used[m]}} |-> size[a - 1]]

Store == INSTANCE HeapStore WITH blocks <- Blocks, want <- want

(* The allocator keeps the promise of HeapStore.                           *)
ImplementsStore == Store!Spec
=============================================================================
