----------------------------- MODULE HeapStore -----------------------------
(***************************************************************************)
(* What malloc and free (bdk/mem/heap.c) promise to everything that runs   *)
(* on the console: a block handed out is at least as large as it was asked *)
(* for, lies clear of every other block, and stays what it is until it is  *)
(* freed.                                                                  *)
(***************************************************************************)
EXTENDS Integers

VARIABLES
  blocks,    (* the units of each block handed out, by its address         *)
  want       (* the units the call in progress asks for, -1 without one    *)

vars == <<blocks, want>>

Disjoint(a, m, b, n) == a + m <= b \/ b + n <= a

Init ==
  /\ blocks = [a \in {} |-> 0]
  /\ want = -1

Ask ==
  /\ want = -1
  /\ want' \in Nat
  /\ UNCHANGED blocks

Give ==
  /\ want # -1
  /\ \E a \in DOMAIN blocks' \ DOMAIN blocks :
       /\ DOMAIN blocks' = DOMAIN blocks \cup {a}
       /\ blocks'[a] >= want
       /\ \A b \in DOMAIN blocks :
            /\ blocks'[b] = blocks[b]
            /\ Disjoint(a, blocks'[a], b, blocks[b])
  /\ want' = -1

Return ==
  /\ want = -1
  /\ \E a \in DOMAIN blocks :
       blocks' = [b \in DOMAIN blocks \ {a} |-> blocks[b]]
  /\ UNCHANGED want

Next == Ask \/ Give \/ Return

Spec == Init /\ [][Next]_vars
=============================================================================
