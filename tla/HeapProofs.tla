----------------------------- MODULE HeapProofs -----------------------------
(***************************************************************************)
(* Proofs about Heap, for every start, every granularity of rests and      *)
(* every set of sizes asked for.                                           *)
(***************************************************************************)
EXTENDS Heap, TLAPS

USE StartAssumption, MinLeftAssumption, RequestAssumption DEF NULL

(* Where the list begins, where the cursor is and what is asked for, in    *)
(* each kind of call.                                                      *)
Cursor ==
  /\ first \in Nodes \cup {NULL}
  /\ \A n \in Nodes : Start <= n
  /\ pc = "idle"  => node = NULL
  /\ pc = "free"  => node # NULL
  /\ pc = "alloc" => want \in Nat /\ (node = NULL <=> first = NULL)
  /\ pc # "alloc" => want = -1

Inv == TypeOK /\ Tiled /\ Cursor

-----------------------------------------------------------------------------
(* What each kind of step makes of the list, node by node, and that the    *)
(* list is then laid out as Tiled says.                                    *)
LEMMA FirstTiled ==
  ASSUME Inv, AllocFirst
  PROVE  Inv'
<1> USE DEF Inv, TypeOK, Tiled, Cursor, AllocFirst, NewNode, Return, Put, Nodes, End
<1>1. Nodes = {}
  OBVIOUS
<1>2. Nodes' = {Start} /\ size'[Start] = want /\ next'[Start] = NULL /\ prev'[Start] = NULL /\ used'[Start] = TRUE
  BY <1>1
<1>3. TypeOK'
  BY <1>1, <1>2
<1>4. Tiled'
  BY <1>2, <1>3
<1>5. Cursor'
  OBVIOUS
<1> QED BY <1>3, <1>4, <1>5

LEMMA SplitShape ==
  ASSUME Inv, pc = "alloc", node # NULL, Fits(node), WorthANode(node),
         Split(node, node + 1 + want), Return, UNCHANGED first
  PROVE  LET rest == node + 1 + want IN
         /\ /\ node \in Nodes /\ want \in Nat /\ size[node] \in Nat
            /\ size[node] - want >= 1 /\ first = Start /\ Start \in Nodes
            /\ rest \in Nat \ {NULL} /\ node < rest /\ rest < End(node)
            /\ Nodes \subseteq Nat \ {NULL} /\ End(node) \in Nat
         /\ rest \notin Nodes
         /\ /\ Nodes' = Nodes \cup {rest}
            /\ size' = [m \in Nodes \cup {rest} |-> IF m = rest THEN size[node] - want - 1 ELSE IF m = node THEN want ELSE size[m]]
            /\ next' = [m \in Nodes \cup {rest} |-> IF m = rest THEN next[node] ELSE IF m = node THEN rest ELSE next[m]]
            /\ prev' = [m \in Nodes \cup {rest} |-> IF m = rest THEN node ELSE IF m = next[node] THEN rest ELSE prev[m]]
            /\ used' = [m \in Nodes \cup {rest} |-> IF m = rest THEN FALSE ELSE IF m = node THEN TRUE ELSE used[m]]
<1> DEFINE rest == node + 1 + want
<1>1. /\ node \in Nodes /\ want \in Nat /\ size[node] \in Nat
      /\ size[node] - want >= 1 /\ first = Start /\ Start \in Nodes
      /\ rest \in Nat \ {NULL} /\ node < rest /\ rest < End(node)
      /\ Nodes \subseteq Nat \ {NULL} /\ End(node) \in Nat
  BY DEF Inv, Cursor, Tiled, TypeOK, WorthANode, End
<1>2. rest \notin Nodes
  <2> SUFFICES ASSUME rest \in Nodes PROVE FALSE
    OBVIOUS
  <2>1. End(node) <= rest
    BY <1>1 DEF Inv, Tiled
  <2> QED BY <1>1, <2>1 DEF End
<1>3. /\ Nodes' = Nodes \cup {rest}
      /\ size' = [m \in Nodes \cup {rest} |-> IF m = rest THEN size[node] - want - 1 ELSE IF m = node THEN want ELSE size[m]]
      /\ next' = [m \in Nodes \cup {rest} |-> IF m = rest THEN next[node] ELSE IF m = node THEN rest ELSE next[m]]
      /\ prev' = [m \in Nodes \cup {rest} |-> IF m = rest THEN node ELSE IF m = next[node] THEN rest ELSE prev[m]]
      /\ used' = [m \in Nodes \cup {rest} |-> IF m = rest THEN FALSE ELSE IF m = node THEN TRUE ELSE used[m]]
  BY <1>1, <1>2 DEF Split, Put, Inv, TypeOK, Nodes
<1> QED BY <1>1, <1>2, <1>3

LEMMA SplitTiled ==
  ASSUME Inv, pc = "alloc", node # NULL, Fits(node), WorthANode(node),
         Split(node, node + 1 + want), Return, UNCHANGED first
  PROVE  Inv'
<1> DEFINE rest == node + 1 + want
<1>1. /\ node \in Nodes /\ want \in Nat /\ size[node] \in Nat
      /\ size[node] - want >= 1 /\ first = Start /\ Start \in Nodes
      /\ rest \in Nat \ {NULL} /\ node < rest /\ rest < End(node)
      /\ Nodes \subseteq Nat \ {NULL} /\ End(node) \in Nat
  BY SplitShape
<1>2. rest \notin Nodes
  BY SplitShape
<1>3. /\ Nodes' = Nodes \cup {rest}
      /\ size' = [m \in Nodes \cup {rest} |-> IF m = rest THEN size[node] - want - 1 ELSE IF m = node THEN want ELSE size[m]]
      /\ next' = [m \in Nodes \cup {rest} |-> IF m = rest THEN next[node] ELSE IF m = node THEN rest ELSE next[m]]
      /\ prev' = [m \in Nodes \cup {rest} |-> IF m = rest THEN node ELSE IF m = next[node] THEN rest ELSE prev[m]]
      /\ used' = [m \in Nodes \cup {rest} |-> IF m = rest THEN FALSE ELSE IF m = node THEN TRUE ELSE used[m]]
  BY SplitShape
<1> HIDE DEF rest
<1>4. TypeOK'
  <2>1. size' \in [Nodes' -> Nat]
    BY <1>1, <1>3 DEF Inv, TypeOK
  <2>2. used' \in [Nodes' -> BOOLEAN]
    BY <1>1, <1>3 DEF Inv, TypeOK
  <2>3. prev' \in [Nodes' -> Nodes' \cup {NULL}] /\ next' \in [Nodes' -> Nodes' \cup {NULL}]
    BY <1>1, <1>3 DEF Inv, TypeOK
  <2> QED BY <1>1, <1>3, <2>1, <2>2, <2>3 DEF Inv, TypeOK, Return
<1>5. \A m \in Nodes' : End(m)' = IF m = node THEN rest ELSE IF m = rest THEN End(node) ELSE End(m)
  BY <1>1, <1>2, <1>3 DEF Inv, TypeOK, End, rest
<1>6. ASSUME NEW n \in Nodes'
      PROVE  /\ prev'[n] = NULL <=> n = Start
             /\ prev'[n] # NULL => next'[prev'[n]] = n
             /\ next'[n] # NULL => next'[n] = End(n)' /\ prev'[next'[n]] = n
             /\ next'[n] = NULL => \A m \in Nodes' : m <= n
             /\ \A m \in Nodes' : m < n => End(m)' <= n
  <2>1. prev'[n] = NULL <=> n = Start
    BY <1>1, <1>2, <1>3 DEF Inv, Tiled, TypeOK
  <2>2. prev'[n] # NULL => next'[prev'[n]] = n
    BY <1>1, <1>2, <1>3 DEF Inv, Tiled, TypeOK
  <2>3. next'[n] # NULL => next'[n] = End(n)' /\ prev'[next'[n]] = n
    BY <1>1, <1>2, <1>3, <1>5 DEF Inv, Tiled, TypeOK
  <2>4. next'[n] = NULL => \A m \in Nodes' : m <= n
    BY <1>1, <1>2, <1>3, <1>5 DEF Inv, Tiled, TypeOK
  <2>5. ASSUME NEW m \in Nodes', m < n PROVE End(m)' <= n
    <3>1. \A a, b \in Nodes : a < b => End(a) <= b
      BY DEF Inv, Tiled
    <3>2. Nodes \subseteq Nat /\ End(node) \in Nat
      BY <1>1 DEF Inv, TypeOK, End
    <3>3. CASE m = rest
      BY <1>1, <1>3, <1>5, <2>5, <3>1, <3>2, <3>3
    <3>4. CASE m = node
      BY <1>1, <1>3, <1>5, <2>5, <3>1, <3>2, <3>4
    <3>5. CASE m # node /\ m # rest
      <4>1. End(m)' = End(m)
        BY <1>3, <1>5, <3>5
      <4>2. n = rest => m < node
        BY <1>1, <1>3, <2>5, <3>1, <3>2, <3>5
      <4> QED BY <1>1, <1>3, <2>5, <3>1, <3>2, <3>5, <4>1, <4>2 DEF Inv, TypeOK, End
    <3> QED BY <3>3, <3>4, <3>5
  <2> QED BY <2>1, <2>2, <2>3, <2>4, <2>5
<1>7. Tiled'
  BY <1>1, <1>3, <1>6 DEF Tiled
<1> QED BY <1>1, <1>3, <1>4, <1>7 DEF Inv, Cursor, Return

LEMMA AppendShape ==
  ASSUME Inv, AllocAppend
  PROVE  LET new == End(node) IN
         /\ /\ node \in Nodes /\ want \in Nat /\ size[node] \in Nat /\ next[node] = NULL
            /\ new \in Nat \ {NULL} /\ node < new /\ first = Start /\ Start \in Nodes
            /\ \A m \in Nodes : m <= node
            /\ Nodes \subseteq Nat \ {NULL}
         /\ new \notin Nodes
         /\ /\ Nodes' = Nodes \cup {new}
            /\ size' = [m \in Nodes \cup {new} |-> IF m = new THEN want ELSE size[m]]
            /\ next' = [m \in Nodes \cup {new} |-> IF m = new THEN NULL ELSE IF m = node THEN new ELSE next[m]]
            /\ prev' = [m \in Nodes \cup {new} |-> IF m = new THEN node ELSE prev[m]]
            /\ used' = [m \in Nodes \cup {new} |-> IF m = new THEN TRUE ELSE used[m]]
<1> DEFINE new == End(node)
<1>1. /\ node \in Nodes /\ want \in Nat /\ size[node] \in Nat /\ next[node] = NULL
      /\ new \in Nat \ {NULL} /\ node < new /\ first = Start /\ Start \in Nodes
      /\ \A m \in Nodes : m <= node
      /\ Nodes \subseteq Nat \ {NULL}
  <2>1. /\ node \in Nodes /\ want \in Nat /\ size[node] \in Nat /\ next[node] = NULL
        /\ Nodes \subseteq Nat \ {NULL}
    BY DEF Inv, Cursor, TypeOK, AllocAppend
  <2>2. first = Start /\ Start \in Nodes /\ \A m \in Nodes : m <= node
    BY <2>1 DEF Inv, Cursor, Tiled
  <2>3. new \in Nat \ {NULL} /\ node < new
    BY <2>1 DEF End
  <2> QED BY <2>1, <2>2, <2>3
<1>2. new \notin Nodes
  BY <1>1 DEF Inv, TypeOK
<1>3. /\ Nodes' = Nodes \cup {new}
      /\ size' = [m \in Nodes \cup {new} |-> IF m = new THEN want ELSE size[m]]
      /\ next' = [m \in Nodes \cup {new} |-> IF m = new THEN NULL ELSE IF m = node THEN new ELSE next[m]]
      /\ prev' = [m \in Nodes \cup {new} |-> IF m = new THEN node ELSE prev[m]]
      /\ used' = [m \in Nodes \cup {new} |-> IF m = new THEN TRUE ELSE used[m]]
  BY <1>1, <1>2 DEF AllocAppend, Put, Inv, TypeOK, Nodes
<1> QED BY <1>1, <1>2, <1>3

LEMMA AppendTiled ==
  ASSUME Inv, AllocAppend
  PROVE  Inv'
<1> DEFINE new == End(node)
<1>1. /\ node \in Nodes /\ want \in Nat /\ size[node] \in Nat /\ next[node] = NULL
      /\ new \in Nat \ {NULL} /\ node < new /\ first = Start /\ Start \in Nodes
      /\ \A m \in Nodes : m <= node
      /\ Nodes \subseteq Nat \ {NULL}
  BY AppendShape
<1>2. new \notin Nodes
  BY AppendShape
<1>3. /\ Nodes' = Nodes \cup {new}
      /\ size' = [m \in Nodes \cup {new} |-> IF m = new THEN want ELSE size[m]]
      /\ next' = [m \in Nodes \cup {new} |-> IF m = new THEN NULL ELSE IF m = node THEN new ELSE next[m]]
      /\ prev' = [m \in Nodes \cup {new} |-> IF m = new THEN node ELSE prev[m]]
      /\ used' = [m \in Nodes \cup {new} |-> IF m = new THEN TRUE ELSE used[m]]
  BY AppendShape
<1>4. \A m \in Nodes : End(m) <= new /\ m < new
  BY <1>1 DEF Inv, Tiled, TypeOK, End
<1>5. \A m \in Nodes : End(m)' = End(m)
  BY <1>2, <1>3 DEF End
<1> HIDE DEF new
<1>6. TypeOK'
  <2>1. size' \in [Nodes' -> Nat]
    BY <1>1, <1>3 DEF Inv, TypeOK
  <2>2. used' \in [Nodes' -> BOOLEAN]
    BY <1>1, <1>3 DEF Inv, TypeOK
  <2>3. prev' \in [Nodes' -> Nodes' \cup {NULL}] /\ next' \in [Nodes' -> Nodes' \cup {NULL}]
    BY <1>1, <1>3 DEF Inv, TypeOK
  <2> QED BY <1>1, <1>3, <2>1, <2>2, <2>3 DEF Inv, TypeOK, AllocAppend, Return
<1>7. ASSUME NEW n \in Nodes'
      PROVE  /\ prev'[n] = NULL <=> n = Start
             /\ prev'[n] # NULL => next'[prev'[n]] = n
             /\ next'[n] # NULL => next'[n] = End(n)' /\ prev'[next'[n]] = n
             /\ next'[n] = NULL => \A m \in Nodes' : m <= n
             /\ \A m \in Nodes' : m < n => End(m)' <= n
  <2>1. prev'[n] = NULL <=> n = Start
    BY <1>1, <1>2, <1>3, <1>4 DEF Inv, Tiled, TypeOK
  <2>2. prev'[n] # NULL => next'[prev'[n]] = n
    BY <1>1, <1>2, <1>3 DEF Inv, Tiled, TypeOK
  <2>3. next'[n] # NULL => next'[n] = End(n)' /\ prev'[next'[n]] = n
    BY <1>1, <1>2, <1>3, <1>5 DEF Inv, Tiled, TypeOK, new
  <2>4. next'[n] = NULL => \A m \in Nodes' : m <= n
    BY <1>1, <1>2, <1>3, <1>4 DEF Inv, Tiled, TypeOK
  <2>5. ASSUME NEW m \in Nodes', m < n PROVE End(m)' <= n
    <3>1. \A a, b \in Nodes : a < b => End(a) <= b
      BY DEF Inv, Tiled
    <3>2. Nodes \subseteq Nat
      BY DEF Inv, TypeOK
    <3> QED BY <1>1, <1>2, <1>3, <1>4, <1>5, <2>5, <3>1, <3>2
  <2> QED BY <2>1, <2>2, <2>3, <2>4, <2>5
<1>8. Tiled'
  BY <1>1, <1>3, <1>7 DEF Tiled, AllocAppend
<1>9. Cursor'
  <2>1. \A n \in Nodes' : Start <= n
    BY <1>1, <1>3 DEF Inv, Cursor
  <2> QED BY <1>1, <1>3, <2>1 DEF Cursor, AllocAppend, Return
<1> QED BY <1>6, <1>8, <1>9 DEF Inv

LEMMA MergeShape ==
  ASSUME Inv, FreeNext, Mergeable(node)
  PROVE  LET p == prev[node]
             q == next[node] IN
         /\ /\ node \in Nodes /\ p \in Nodes /\ p # NULL /\ node # NULL
            /\ next[p] = node /\ node = End(p) /\ p < node /\ node # Start
            /\ size[node] \in Nat /\ size[p] \in Nat /\ first = Start
            /\ q \in Nodes \cup {NULL} /\ Nodes \subseteq Nat \ {NULL}
         /\ /\ Nodes' = Nodes \ {node}
            /\ size' = [m \in Nodes \ {node} |-> IF m = p THEN size[p] + size[node] + 1 ELSE size[m]]
            /\ next' = [m \in Nodes \ {node} |-> IF m = p THEN q ELSE next[m]]
            /\ prev' = [m \in Nodes \ {node} |-> IF m = q THEN p ELSE prev[m]]
            /\ used' = [m \in Nodes \ {node} |-> used[m]]
<1> DEFINE p == prev[node]
           q == next[node]
<1>1. /\ node \in Nodes /\ p \in Nodes /\ p # NULL /\ node # NULL
      /\ next[p] = node /\ node = End(p) /\ p < node /\ node # Start
      /\ size[node] \in Nat /\ size[p] \in Nat /\ first = Start
      /\ q \in Nodes \cup {NULL} /\ Nodes \subseteq Nat \ {NULL}
  <2>1. node \in Nodes /\ node # NULL /\ p # NULL /\ first = Start /\ Nodes \subseteq Nat \ {NULL}
    BY DEF Inv, TypeOK, FreeNext, Mergeable, Tiled
  <2>2. p \in Nodes /\ q \in Nodes \cup {NULL} /\ size[node] \in Nat
    BY <2>1 DEF Inv, TypeOK
  <2>3. next[p] = node /\ node # Start
    BY <2>1, <2>2 DEF Inv, Tiled
  <2>4. size[p] \in Nat /\ node = End(p)
    BY <2>1, <2>2, <2>3 DEF Inv, Tiled, TypeOK
  <2>5. \A m \in Nodes : size[m] \in Nat => m < End(m)
    BY <2>1 DEF End
  <2>6. p < node
    BY <2>2, <2>4, <2>5
  <2> QED BY <2>1, <2>2, <2>3, <2>4, <2>6
<1>2. /\ Nodes' = Nodes \ {node}
      /\ size' = [m \in Nodes \ {node} |-> IF m = p THEN size[p] + size[node] + 1 ELSE size[m]]
      /\ next' = [m \in Nodes \ {node} |-> IF m = p THEN q ELSE next[m]]
      /\ prev' = [m \in Nodes \ {node} |-> IF m = q THEN p ELSE prev[m]]
      /\ used' = [m \in Nodes \ {node} |-> used[m]]
  BY <1>1 DEF FreeNext, MergeWithPrevious, Drop, Inv, TypeOK, Nodes
<1> QED BY <1>1, <1>2

LEMMA MergeTiled ==
  ASSUME Inv, FreeNext, Mergeable(node)
  PROVE  Inv'
<1> DEFINE p == prev[node]
           q == next[node]
<1>1. /\ node \in Nodes /\ p \in Nodes /\ p # NULL /\ node # NULL
      /\ next[p] = node /\ node = End(p) /\ p < node /\ node # Start
      /\ size[node] \in Nat /\ size[p] \in Nat /\ first = Start
      /\ q \in Nodes \cup {NULL} /\ Nodes \subseteq Nat \ {NULL}
  BY MergeShape
<1>2. /\ Nodes' = Nodes \ {node}
      /\ size' = [m \in Nodes \ {node} |-> IF m = p THEN size[p] + size[node] + 1 ELSE size[m]]
      /\ next' = [m \in Nodes \ {node} |-> IF m = p THEN q ELSE next[m]]
      /\ prev' = [m \in Nodes \ {node} |-> IF m = q THEN p ELSE prev[m]]
      /\ used' = [m \in Nodes \ {node} |-> used[m]]
  BY MergeShape
<1>3. \A m \in Nodes : next[m] = node => m = p
  BY <1>1 DEF Inv, Tiled, TypeOK
<1>4. \A m \in Nodes : prev[m] = node => m = q
  BY <1>1 DEF Inv, Tiled, TypeOK
<1>5. q # NULL => q = End(node) /\ prev[q] = node /\ q \notin {node, p}
  BY <1>1 DEF Inv, Tiled, TypeOK, End
<1>6. \A m \in Nodes' : End(m)' = IF m = p THEN End(node) ELSE End(m)
  <2>1. p \in Nodes' /\ p # node /\ size'[p] = size[p] + size[node] + 1
    BY <1>1, <1>2
  <2>2. \A m \in Nodes' : m # p => size'[m] = size[m]
    BY <1>2
  <2>3. p + 1 + size'[p] = node + 1 + size[node]
    <3>1. p \in Nat /\ node = p + 1 + size[p]
      BY <1>1 DEF End
    <3> QED BY <1>1, <2>1, <3>1
  <2> QED BY <2>2, <2>3 DEF End
<1>7. \A a, b \in Nodes : a < b => End(a) <= b
  BY DEF Inv, Tiled
<1> HIDE DEF p, q
<1>8. TypeOK'
  <2>1. prev' \in [Nodes' -> Nodes' \cup {NULL}]
    <3>1. \A m \in Nodes : prev[m] \in Nodes \cup {NULL}
      BY DEF Inv, TypeOK
    <3>2. p \in Nodes'
      BY <1>1, <1>2
    <3> QED BY <1>2, <1>4, <3>1, <3>2
  <2>2. next' \in [Nodes' -> Nodes' \cup {NULL}]
    BY <1>1, <1>2, <1>3, <1>5 DEF Inv, TypeOK
  <2>3. size' \in [Nodes' -> Nat]
    <3>1. \A m \in Nodes : size[m] \in Nat
      BY DEF Inv, TypeOK
    <3>2. size[p] + size[node] + 1 \in Nat
      BY <1>1
    <3> QED BY <1>2, <3>1, <3>2
  <2>4. used' \in [Nodes' -> BOOLEAN]
    BY <1>1, <1>2 DEF Inv, TypeOK
  <2>5. node' \in Nodes' \cup {NULL}
    BY <1>1, <1>2, <1>5 DEF FreeNext, q
  <2> QED BY <1>1, <1>2, <2>1, <2>2, <2>3, <2>4, <2>5 DEF Inv, TypeOK, FreeNext
<1>9. ASSUME NEW n \in Nodes'
      PROVE  /\ prev'[n] = NULL <=> n = Start
             /\ prev'[n] # NULL => next'[prev'[n]] = n
             /\ next'[n] # NULL => next'[n] = End(n)' /\ prev'[next'[n]] = n
             /\ next'[n] = NULL => \A m \in Nodes' : m <= n
             /\ \A m \in Nodes' : m < n => End(m)' <= n
  <2>1. prev'[n] = NULL <=> n = Start
    BY <1>1, <1>2, <1>5 DEF Inv, Tiled, TypeOK
  <2>2. prev'[n] # NULL => next'[prev'[n]] = n
    BY <1>1, <1>2, <1>3, <1>4, <1>5 DEF Inv, Tiled, TypeOK
  <2>3. next'[n] # NULL => next'[n] = End(n)' /\ prev'[next'[n]] = n
    <3>1. CASE n = p
      BY <1>1, <1>2, <1>5, <1>6, <3>1
    <3>2. CASE n # p /\ next[n] # NULL
      <4>1. next'[n] = next[n] /\ next[n] # node /\ n \in Nodes
        BY <1>2, <1>3, <3>2
      <4>2. next[n] = End(n) /\ prev[next[n]] = n /\ next[n] \in Nodes
        BY <3>2, <4>1 DEF Inv, Tiled, TypeOK
      <4>3. next[n] # q
        BY <1>1, <1>2, <1>5, <3>2, <4>2
      <4> QED BY <1>2, <1>6, <3>2, <4>1, <4>2, <4>3
    <3>3. CASE n # p /\ next[n] = NULL
      BY <1>2, <3>3
    <3> QED BY <3>1, <3>2, <3>3
  <2>4. next'[n] = NULL => \A m \in Nodes' : m <= n
    <3>1. \A b \in Nodes : next[b] = NULL => \A m \in Nodes : m <= b
      BY DEF Inv, Tiled
    <3>2. CASE n = p
      <4> SUFFICES ASSUME q = NULL, NEW m \in Nodes' PROVE m <= p
        BY <1>1, <1>2, <3>2
      <4>1. m <= node /\ m # node
        BY <1>1, <1>2, <3>1 DEF q
      <4>2. End(m) <= node
        BY <1>1, <1>2, <1>7, <4>1
      <4>3. ~(p < m)
        BY <1>1, <1>2, <1>7, <4>2, <4>1
      <4> QED BY <1>1, <1>2, <4>3
    <3> QED BY <1>1, <1>2, <3>1, <3>2
  <2>5. ASSUME NEW m \in Nodes', m < n PROVE End(m)' <= n
    <3>1. CASE m = p
      <4>1. node < n
        <5>1. End(p) <= n /\ n # node
          BY <1>1, <1>2, <1>7, <2>5, <3>1
        <5> QED BY <1>1, <1>2, <5>1
      <4>2. End(node) <= n
        BY <1>1, <1>2, <1>7, <4>1
      <4> QED BY <1>6, <3>1, <4>2
    <3> QED BY <1>1, <1>2, <1>6, <1>7, <2>5, <3>1
  <2> QED BY <2>1, <2>2, <2>3, <2>4, <2>5
<1>10. Tiled'
  <2>1. first' = Start /\ Nodes' # {}
    BY <1>1, <1>2 DEF FreeNext
  <2> QED BY <1>9, <2>1 DEF Tiled
<1>11. Cursor'
  BY <1>1, <1>2 DEF Inv, Cursor, FreeNext, q
<1> QED BY <1>8, <1>10, <1>11 DEF Inv

LEMMA SameListTiled ==
  ASSUME Inv, UNCHANGED <<first, size, prev, next>>, used' \in [Nodes -> BOOLEAN],
         node' \in Nodes \cup {NULL}, pc' \in {"idle", "alloc", "free"}, want' \in Nat \cup {-1},
         pc' = "idle" => node' = NULL, pc' = "free" => node' # NULL,
         pc' = "alloc" => want' \in Nat /\ (node' = NULL <=> first = NULL), pc' # "alloc" => want' = -1
  PROVE  Inv'
<1>1. Nodes' = Nodes /\ \A n \in Nodes : End(n)' = End(n)
  BY DEF Nodes, End
<1>2. TypeOK'
  BY <1>1 DEF Inv, TypeOK
<1>3. Tiled'
  BY <1>1 DEF Inv, Tiled
<1>4. Cursor'
  BY <1>1 DEF Inv, Cursor
<1> QED BY <1>2, <1>3, <1>4 DEF Inv

LEMMA InvInit == Init => Inv
  BY DEF Init, Inv, TypeOK, Tiled, Cursor, Nodes, NoNodes

LEMMA InvNext == Inv /\ [Next]_vars => Inv'
<1> SUFFICES ASSUME Inv, [Next]_vars PROVE Inv'
  OBVIOUS
<1>0. /\ TypeOK /\ Tiled /\ Cursor
  BY DEF Inv
<1>1. ASSUME NEW n \in Request, Malloc(n) PROVE Inv'
  <2>1. node' = NULL <=> first = NULL
    BY <1>1 DEF Malloc
  <2>2. node' \in Nodes \cup {NULL}
    BY <1>0, <1>1 DEF Malloc, Cursor
  <2> QED BY <1>0, <1>1, <2>1, <2>2, SameListTiled DEF Malloc, list, TypeOK
<1>2. ASSUME NEW n \in Nodes, Free(n) PROVE Inv'
  <2>1. used' \in [Nodes -> BOOLEAN]
    BY <1>0, <1>2 DEF Free, TypeOK
  <2>2. node' \in Nodes /\ node' # NULL
    BY <1>0, <1>2 DEF Free, TypeOK, Cursor, Tiled
  <2>3. want' = -1
    BY <1>0, <1>2 DEF Free, Cursor
  <2> QED BY <1>2, <2>1, <2>2, <2>3, SameListTiled DEF Free
<1>3. CASE AllocFirst
  BY <1>3, FirstTiled
<1>4. CASE AllocNext
  <2>1. node \in Nodes /\ node' = next[node] /\ next[node] \in Nodes /\ next[node] # NULL
    BY <1>0, <1>4 DEF AllocNext, TypeOK
  <2>2. first # NULL
    BY <1>0, <1>4 DEF AllocNext, Cursor
  <2> QED BY <1>0, <1>4, <2>1, <2>2, SameListTiled DEF AllocNext, TypeOK, Cursor, list
<1>5. CASE AllocTake
  <2>1. CASE WorthANode(node)
    BY <1>5, <2>1, SplitTiled DEF AllocTake
  <2>2. CASE ~WorthANode(node)
    <3>1. used' \in [Nodes -> BOOLEAN]
      BY <1>0, <1>5, <2>2 DEF AllocTake, TypeOK
    <3> QED BY <1>0, <1>5, <2>2, <3>1, SameListTiled DEF AllocTake, Return
  <2> QED BY <2>1, <2>2
<1>6. CASE AllocAppend
  BY <1>6, AppendTiled
<1>7. CASE FreeNext
  <2>1. CASE Mergeable(node)
    BY <1>7, <2>1, MergeTiled
  <2>2. CASE ~Mergeable(node)
    <3>1. node \in Nodes /\ node' \in Nodes \cup {NULL}
      BY <1>0, <1>7 DEF FreeNext, TypeOK
    <3> QED BY <1>0, <1>7, <2>2, <3>1, SameListTiled DEF FreeNext, TypeOK, Cursor
  <2> QED BY <2>1, <2>2
<1>8. CASE UNCHANGED vars
  BY <1>0, <1>8, SameListTiled DEF vars, list, TypeOK, Cursor
<1> QED BY <1>1, <1>2, <1>3, <1>4, <1>5, <1>6, <1>7, <1>8 DEF Next, Step

(* The allocator's state is well-formed in every run.                      *)
THEOREM Typed == Spec => []TypeOK
<1>1. Inv => TypeOK
  BY DEF Inv
<1> QED BY InvInit, InvNext, <1>1, PTL DEF Spec

(* No order of calls to malloc and free loses a piece of the heap or lets  *)
(* two nodes overlap: the list of nodes always tiles it.                   *)
THEOREM AlwaysTiled == Spec => []Tiled
<1>1. Inv => Tiled
  BY DEF Inv
<1> QED BY InvInit, InvNext, <1>1, PTL DEF Spec

-----------------------------------------------------------------------------
(* Two free neighbours are there only while a walk of free has not reached *)
(* the second of them yet.                                                 *)
Walk ==
  \A n \in Nodes : ~used[n] /\ next[n] # NULL /\ ~used[next[n]] =>
                      pc = "free" /\ next[n] >= node

(* The search has passed by nothing that would do.                         *)
Search ==
  pc = "alloc" /\ node # NULL =>
    \A n \in Nodes : n < node => used[n] \/ size[n] < want

LEMMA OnFrom ==
  ASSUME Inv, node \in Nodes, NEW n \in Nodes
  PROVE  /\ n > node => next[node] # NULL /\ n >= next[node]
         /\ next[node] # NULL /\ n < next[node] => n <= node
<1> USE DEF Inv
<1>1. Nodes \subseteq Nat \ {NULL}
  BY DEF TypeOK
<1>2. n > node => End(node) <= n
  BY <1>1 DEF Tiled
<1>3. next[node] = NULL => n <= node
  BY DEF Tiled
<1>4. next[node] # NULL => next[node] = End(node) /\ next[node] \in Nodes
  BY DEF Tiled, TypeOK
<1>5. n \in Nat /\ node \in Nat
  BY <1>1
<1>6. n > node => next[node] # NULL /\ n >= next[node]
  BY <1>2, <1>3, <1>4, <1>5
<1>7. ASSUME next[node] # NULL, n < next[node] PROVE n <= node
  <2>1. next[node] \in Nat
    BY <1>1, <1>4, <1>7
  <2> QED BY <1>5, <1>6, <1>7, <2>1
<1> QED BY <1>6, <1>7

LEMMA WalkNext ==
  ASSUME Inv, Walk, [Next]_vars
  PROVE  Walk'
<1> SUFFICES ASSUME NEW n \in Nodes', ~used'[n], next'[n] # NULL, ~used'[next'[n]]
             PROVE  pc' = "free" /\ next'[n] >= node'
  BY DEF Walk
<1>0. TypeOK /\ Tiled /\ Cursor
  BY DEF Inv
<1>1. ASSUME NEW r \in Request, Malloc(r) PROVE FALSE
  BY <1>1 DEF Malloc, list, Walk, Nodes
<1>2. ASSUME NEW b \in Nodes, Free(b) PROVE pc' = "free" /\ next'[n] >= node'
  <2>1. n \in Nodes /\ next'[n] \in Nodes
    BY <1>0, <1>2 DEF Free, Nodes, TypeOK
  <2>2. node' = Start
    BY <1>0, <1>2 DEF Free, Tiled
  <2> QED BY <1>0, <1>2, <2>1, <2>2 DEF Free, Cursor
<1>3. CASE AllocFirst
  BY <1>0, <1>3 DEF AllocFirst, NewNode, Put, Nodes, TypeOK, Tiled
<1>4. CASE AllocNext
  BY <1>4 DEF AllocNext, list, Walk, Nodes
<1>5. CASE AllocTake
  <2>1. CASE WorthANode(node)
    <3> DEFINE rest == node + 1 + want
    <3>1. /\ node \in Nodes /\ rest \notin Nodes /\ node # rest /\ Nodes' = Nodes \cup {rest} /\ rest # NULL
          /\ next' = [m \in Nodes \cup {rest} |-> IF m = rest THEN next[node] ELSE IF m = node THEN rest ELSE next[m]]
          /\ used' = [m \in Nodes \cup {rest} |-> IF m = rest THEN FALSE ELSE IF m = node THEN TRUE ELSE used[m]]
      BY <1>5, <2>1, SplitShape DEF AllocTake
    <3> HIDE DEF rest
    <3>2. ~used[node] /\ pc = "alloc"
      BY <1>5 DEF AllocTake, Fits
    <3>3. \A m \in Nodes : next[m] \in Nodes \cup {NULL}
      BY <1>0 DEF TypeOK
    <3>4. \A m \in Nodes : used[m] \/ next[m] = NULL \/ used[next[m]]
      BY <3>2 DEF Walk
    <3> QED BY <3>1, <3>2, <3>3, <3>4
  <2>2. CASE ~WorthANode(node)
    <3>1. node \in Nodes /\ pc = "alloc" /\ Nodes' = Nodes /\ next' = next /\ used' = [used EXCEPT ![node] = TRUE]
      BY <1>0, <1>5, <2>2 DEF AllocTake, TypeOK, Nodes
    <3>2. \A m \in Nodes : next[m] \in Nodes \cup {NULL} /\ (used[m] \/ next[m] = NULL \/ used[next[m]])
      BY <1>0, <3>1 DEF Walk, TypeOK
    <3> QED BY <1>0, <3>1, <3>2 DEF TypeOK
  <2> QED BY <2>1, <2>2
<1>6. CASE AllocAppend
  <2> DEFINE new == End(node)
  <2>1. /\ node \in Nodes /\ new \notin Nodes /\ Nodes' = Nodes \cup {new}
        /\ next' = [m \in Nodes \cup {new} |-> IF m = new THEN NULL ELSE IF m = node THEN new ELSE next[m]]
        /\ used' = [m \in Nodes \cup {new} |-> IF m = new THEN TRUE ELSE used[m]]
    BY <1>6, AppendShape
  <2> HIDE DEF new
  <2>2. \A m \in Nodes : next[m] \in Nodes \cup {NULL} /\ (used[m] \/ next[m] = NULL \/ used[next[m]])
    BY <1>0, <1>6 DEF Walk, TypeOK, AllocAppend
  <2> QED BY <2>1, <2>2
<1>7. CASE FreeNext
  <2>0. /\ node \in Nodes /\ node # NULL /\ node' = next[node]
        /\ pc' = (IF next[node] = NULL THEN "idle" ELSE "free")
        /\ Nodes \subseteq Nat \ {NULL} /\ \A m \in Nodes : next[m] \in Nodes \cup {NULL}
    BY <1>0, <1>7 DEF FreeNext, TypeOK
  <2>1. CASE Mergeable(node)
    <3> DEFINE p == prev[node]
               q == next[node]
    <3>1. /\ p \in Nodes /\ Nodes' = Nodes \ {node}
          /\ next' = [m \in Nodes \ {node} |-> IF m = p THEN q ELSE next[m]]
          /\ used' = [m \in Nodes \ {node} |-> used[m]]
      BY <1>7, <2>1, MergeShape
    <3> HIDE DEF p
    <3>2. CASE n = p
      <4>1. next'[n] = q /\ q \in Nat
        BY <2>0, <3>1, <3>2
      <4> QED BY <2>0, <4>1
    <3>3. CASE n # p
      <4>1. /\ n \in Nodes /\ next'[n] = next[n] /\ next[n] \in Nodes /\ ~used[n]
        BY <2>0, <3>1, <3>3
      <4>2. next[n] # node
        BY <2>0, <3>3, <4>1 DEF Inv, Tiled, p
      <4>3. ~used[next[n]]
        BY <3>1, <4>1, <4>2
      <4>4. next[n] > node
        <5>1. next[n] >= node
          BY <2>0, <4>1, <4>3 DEF Walk
        <5>2. next[n] \in Nat /\ node \in Nat
          BY <2>0, <4>1
        <5> QED BY <4>2, <5>1, <5>2
      <4> QED BY <2>0, <4>1, <4>4, OnFrom
    <3> QED BY <3>2, <3>3
  <2>2. CASE ~Mergeable(node)
    <3>1. used' = used /\ next' = next /\ Nodes' = Nodes
      BY <1>7, <2>2 DEF FreeNext, Nodes
    <3>2. n \in Nodes /\ next[n] \in Nodes /\ next[n] >= node /\ prev[next[n]] = n
      BY <1>0, <2>0, <3>1 DEF Walk, Tiled
    <3>3. next[n] # node
      BY <2>0, <2>2, <3>1, <3>2 DEF Mergeable
    <3>4. next[n] > node
      <4>1. next[n] \in Nat /\ node \in Nat
        BY <2>0, <3>2
      <4> QED BY <3>2, <3>3, <4>1
    <3> QED BY <2>0, <3>1, <3>2, <3>4, OnFrom
  <2> QED BY <2>1, <2>2
<1>8. CASE UNCHANGED vars
  BY <1>8 DEF vars, list, Walk, Nodes
<1> QED BY <1>1, <1>2, <1>3, <1>4, <1>5, <1>6, <1>7, <1>8 DEF Next, Step

LEMMA SearchNext ==
  ASSUME Inv, Search, [Next]_vars
  PROVE  Search'
<1>0. TypeOK /\ Tiled /\ Cursor
  BY DEF Inv
<1>1. ASSUME NEW r \in Request, Malloc(r) PROVE Search'
  <2>1. Nodes' = Nodes /\ (node' # NULL => node' = Start)
    BY <1>0, <1>1 DEF Malloc, list, Nodes, Tiled
  <2>2. \A n \in Nodes : ~(n < Start)
    BY <1>0 DEF Cursor, TypeOK
  <2> QED BY <2>1, <2>2 DEF Search
<1>2. CASE AllocNext
  <2>1. /\ node \in Nodes /\ node' = next[node] /\ Nodes' = Nodes /\ next[node] # NULL
        /\ used' = used /\ size' = size /\ want' = want /\ pc = "alloc" /\ node # NULL
    BY <1>0, <1>2 DEF AllocNext, TypeOK, list, Nodes
  <2>2. used[node] \/ size[node] < want
    BY <1>0, <1>2, <2>1 DEF AllocNext, Fits, TypeOK, Cursor
  <2>3. \A n \in Nodes : n < next[node] => n < node \/ n = node
    BY <1>0, <2>1, OnFrom DEF TypeOK
  <2> QED BY <2>1, <2>2, <2>3 DEF Search
<1>3. CASE UNCHANGED vars
  BY <1>3 DEF vars, list, Search, Nodes
<1>4. ASSUME NEW b \in Nodes, Free(b) PROVE Search'
  BY <1>4 DEF Free, Search
<1>5. CASE AllocFirst \/ AllocTake \/ AllocAppend
  BY <1>5 DEF AllocFirst, AllocTake, AllocAppend, Return, Search
<1>6. CASE FreeNext
  BY <1>6 DEF FreeNext, Search
<1> QED BY <1>1, <1>2, <1>3, <1>4, <1>5, <1>6 DEF Next, Step

Strong == Inv /\ Walk /\ Search

LEMMA StrongAlways == Spec => []Strong
<1>1. Init => Strong
  BY InvInit DEF Strong, Walk, Search, Init, Nodes, NoNodes
<1>2. Strong /\ [Next]_vars => Strong'
  BY InvNext, WalkNext, SearchNext DEF Strong
<1> QED BY <1>1, <1>2, PTL DEF Spec

(* Between two calls no two neighbours are free, however often malloc has  *)
(* cut nodes and free has merged them: a walk that merges a node with the  *)
(* one before it goes on from a header that is no longer in the list, and  *)
(* still misses no pair.                                                   *)
THEOREM AlwaysCoalesced == Spec => []Coalesced
<1>1. Strong => Coalesced
  BY DEF Strong, Walk, Coalesced
<1> QED BY <1>1, StrongAlways, PTL

Grows == \A a \in Nodes' : (\A n \in Nodes : End(n) <= a) =>
                             \A n \in Nodes : used[n] \/ size[n] < want

LEMMA GrowsStep ==
  ASSUME Inv, Search, [Next]_vars
  PROVE  Grows
<1>0. TypeOK /\ Tiled /\ Cursor /\ Nodes \subseteq Nat
  BY DEF Inv, TypeOK
<1>1. ASSUME Nodes' \subseteq Nodes PROVE Grows
  <2>1. \A a \in Nodes : ~(End(a) <= a)
    BY <1>0 DEF TypeOK, End
  <2> QED BY <1>1, <2>1 DEF Grows
<1>2. ASSUME NEW r \in Request, Malloc(r) PROVE Grows
  BY <1>1, <1>2 DEF Malloc, list, Nodes
<1>3. ASSUME NEW b \in Nodes, Free(b) PROVE Grows
  BY <1>1, <1>3 DEF Free, Nodes
<1>4. CASE AllocFirst
  BY <1>0, <1>4 DEF AllocFirst, Tiled, Grows
<1>5. CASE AllocNext
  BY <1>1, <1>5 DEF AllocNext, list, Nodes
<1>6. CASE AllocTake
  <2>1. CASE WorthANode(node)
    <3> DEFINE rest == node + 1 + want
    <3>1. /\ node \in Nodes /\ Nodes' = Nodes \cup {rest}
          /\ rest \in Nat /\ rest < End(node) /\ End(node) \in Nat
      BY <1>6, <2>1, SplitShape DEF AllocTake
    <3> HIDE DEF rest
    <3>2. ~(End(node) <= rest)
      BY <3>1
    <3>3. \A a \in Nodes : ~(End(a) <= a)
      BY <1>0 DEF TypeOK, End
    <3> QED BY <3>1, <3>2, <3>3 DEF Grows
  <2>2. CASE ~WorthANode(node)
    BY <1>1, <1>6, <2>2 DEF AllocTake, Nodes
  <2> QED BY <2>1, <2>2
<1>7. CASE AllocAppend
  <2>1. /\ node \in Nodes /\ node # NULL /\ pc = "alloc" /\ ~Fits(node)
        /\ \A m \in Nodes : m <= node
    BY <1>0, <1>7 DEF AllocAppend, TypeOK, Tiled
  <2>2. used[node] \/ size[node] < want
    BY <1>0, <2>1 DEF Fits, TypeOK, Cursor
  <2>3. \A m \in Nodes : m = node \/ m < node
    BY <1>0, <2>1
  <2> QED BY <2>1, <2>2, <2>3 DEF Search, Grows
<1>8. CASE FreeNext
  <2>1. CASE Mergeable(node)
    BY <1>1, <1>8, <2>1, MergeShape
  <2>2. CASE ~Mergeable(node)
    BY <1>1, <1>8, <2>2 DEF FreeNext, Nodes
  <2> QED BY <2>1, <2>2
<1>9. CASE UNCHANGED vars
  BY <1>1, <1>9 DEF vars, list, Nodes
<1> QED BY <1>2, <1>3, <1>4, <1>5, <1>6, <1>7, <1>8, <1>9 DEF Next, Step

(* malloc takes new room behind the last node only when no free node is    *)
(* large enough.                                                           *)
THEOREM NeverGrowsInVain == Spec => GrowsOnlyWhenFull
<1>1. Strong /\ [Next]_vars => Grows
  BY GrowsStep DEF Strong
<1> QED BY <1>1, StrongAlways, PTL DEF Spec, GrowsOnlyWhenFull, Grows

-----------------------------------------------------------------------------
(* The blocks handed out before and after a step.                          *)
Taken == {m \in Nodes : used[m]}

LEMMA BlockOf ==
  ASSUME Inv
  PROVE  /\ DOMAIN Blocks = {m + 1 : m \in Taken}
         /\ \A m \in Taken : m + 1 \in DOMAIN Blocks /\ Blocks[m + 1] = size[m]
         /\ Nodes \subseteq Nat
<1>1. Nodes \subseteq Nat
  BY DEF Inv, TypeOK
<1>2. \A m \in Taken : (m + 1) - 1 = m
  BY <1>1 DEF Taken
<1> QED BY <1>1, <1>2 DEF Blocks, Taken

LEMMA SameBlocks ==
  ASSUME Inv, Inv', Taken' = Taken, \A m \in Taken : size'[m] = size[m]
  PROVE  Blocks' = Blocks
<1>1. Blocks = [a \in {m + 1 : m \in Taken} |-> size[a - 1]]
  BY DEF Blocks, Taken
<1>2. Blocks' = [a \in {m + 1 : m \in Taken} |-> size'[a - 1]]
  BY DEF Blocks, Taken
<1>3. \A m \in Taken : (m + 1) - 1 = m
  BY DEF Inv, TypeOK, Taken
<1> QED BY <1>1, <1>2, <1>3

(* The node that an allocation hands out: it was not handed out before, it *)
(* is large enough, and no other block changes.                            *)
LEMMA GiveStep ==
  ASSUME Inv, Inv', pc = "alloc", want' = -1, NEW n \in Nodes',
         n \notin Taken, Taken' = Taken \cup {n}, want <= size'[n],
         \A m \in Taken : size'[m] = size[m]
  PROVE  Store!Give
<1> DEFINE a == n + 1
<1>1. /\ want # -1
      /\ DOMAIN Blocks = {m + 1 : m \in Taken}
      /\ \A m \in Taken : m + 1 \in DOMAIN Blocks /\ Blocks[m + 1] = size[m]
      /\ Nodes \subseteq Nat
  BY BlockOf DEF Inv, Cursor
<1>2. /\ DOMAIN Blocks' = {m + 1 : m \in Taken'}
      /\ \A m \in Taken' : m + 1 \in DOMAIN Blocks' /\ (Blocks')[m + 1] = size'[m]
      /\ Nodes' \subseteq Nat
  <2>1. Nodes' \subseteq Nat
    BY DEF Inv, TypeOK
  <2>2. \A m \in Taken' : m + 1 - 1 = m
    BY <2>1 DEF Taken
  <2> QED BY <2>1, <2>2 DEF Blocks, Taken
<1>3. a \in DOMAIN Blocks' \ DOMAIN Blocks
  BY <1>1, <1>2 DEF Taken
<1>4. DOMAIN Blocks' = DOMAIN Blocks \cup {a}
  BY <1>1, <1>2
<1>5. (Blocks')[a] >= want
  BY <1>2 DEF Inv, TypeOK, Cursor
<1>6. ASSUME NEW b \in DOMAIN Blocks
      PROVE  (Blocks')[b] = Blocks[b] /\ Store!Disjoint(a, (Blocks')[a], b, Blocks[b])
  <2>1. PICK m \in Taken : b = m + 1
    BY <1>1
  <2>2. (Blocks')[b] = size[m] /\ Blocks[b] = size[m] /\ (Blocks')[a] = size'[n]
    BY <1>1, <1>2, <2>1
  <2>3. m \in Nodes' /\ m # n /\ size'[m] = size[m] /\ m \in Nat /\ n \in Nat
    BY <1>2, <2>1 DEF Taken
  <2>4. (m < n => m + 1 + size'[m] <= n) /\ (n < m => n + 1 + size'[n] <= m)
    BY <2>3 DEF Inv, Tiled, End
  <2>5. size'[m] \in Nat /\ size'[n] \in Nat
    BY <2>3 DEF Inv, TypeOK
  <2>6. a + size'[n] <= b \/ b + size'[m] <= a
    BY <2>1, <2>3, <2>4, <2>5
  <2> QED BY <2>2, <2>3, <2>6 DEF Store!Disjoint
<1> QED BY <1>1, <1>3, <1>4, <1>5, <1>6 DEF Store!Give

LEMMA ReturnStep ==
  ASSUME Inv, Inv', NEW n \in Taken, Taken' = Taken \ {n},
         \A m \in Taken' : size'[m] = size[m], want = -1, want' = -1
  PROVE  Store!Return
<1>1. /\ DOMAIN Blocks = {m + 1 : m \in Taken}
      /\ \A m \in Taken : m + 1 \in DOMAIN Blocks /\ Blocks[m + 1] = size[m]
      /\ Nodes \subseteq Nat
  BY BlockOf
<1>2. \A m \in Taken : m + 1 - 1 = m /\ (m + 1 = n + 1 => m = n)
  BY <1>1 DEF Taken
<1>3. Blocks' = [b \in {m + 1 : m \in Taken'} |-> size'[b - 1]]
  BY DEF Blocks, Taken
<1>4. {m + 1 : m \in Taken'} = DOMAIN Blocks \ {n + 1}
  BY <1>1, <1>2
<1>5. \A b \in DOMAIN Blocks \ {n + 1} : size'[b - 1] = Blocks[b]
  <2> SUFFICES ASSUME NEW b \in DOMAIN Blocks \ {n + 1} PROVE size'[b - 1] = Blocks[b]
    OBVIOUS
  <2>1. PICK m \in Taken : b = m + 1
    BY <1>1
  <2>2. m \in Nat
    BY <1>1 DEF Taken
  <2>3. b - 1 = m
    BY <2>1, <2>2
  <2>4. m \in Taken'
    BY <2>1
  <2> QED BY <1>1, <2>1, <2>3, <2>4
<1>6. Blocks' = [b \in DOMAIN Blocks \ {n + 1} |-> Blocks[b]]
  BY <1>3, <1>4, <1>5
<1>7. n + 1 \in DOMAIN Blocks
  BY <1>1
<1> QED BY <1>6, <1>7 DEF Store!Return

LEMMA StoreStep ==
  ASSUME Inv, Inv', [Next]_vars
  PROVE  [Store!Next]_Store!vars
<1> USE DEF Store!Next, Store!vars
<1>0. TypeOK /\ Tiled /\ Cursor
  BY DEF Inv
<1>1. ASSUME NEW r \in Request, Malloc(r) PROVE Store!Ask
  <2>1. Blocks' = Blocks
    BY <1>1, SameBlocks DEF Malloc, list, Taken, Nodes
  <2>2. want = -1
    BY <1>0, <1>1 DEF Malloc, Cursor
  <2> QED BY <1>1, <2>1, <2>2 DEF Malloc, Store!Ask
<1>2. ASSUME NEW b \in Nodes, Free(b) PROVE Store!Return
  <2>1. b \in Taken /\ Taken' = Taken \ {b} /\ \A m \in Taken' : size'[m] = size[m]
    BY <1>0, <1>2 DEF Free, Taken, Nodes, TypeOK
  <2>2. want = -1 /\ want' = -1
    BY <1>0, <1>2 DEF Free, Cursor
  <2> QED BY <2>1, <2>2, ReturnStep
<1>3. CASE AllocFirst
  <2>1. Nodes = {}
    BY <1>0, <1>3 DEF AllocFirst, Tiled
  <2>2. Nodes' = {Start} /\ used'[Start] = TRUE /\ size'[Start] = want
    BY <1>3, <2>1 DEF AllocFirst, NewNode, Put, Nodes
  <2>3. Taken = {} /\ Taken' = {Start}
    BY <2>1, <2>2 DEF Taken
  <2>4. want <= size'[Start]
    BY <1>0, <1>3, <2>2 DEF AllocFirst, Cursor
  <2>5. Store!Give
    BY <1>3, <2>2, <2>3, <2>4, GiveStep DEF AllocFirst, Return
  <2> QED BY <2>5
<1>4. CASE AllocNext
  BY <1>4, SameBlocks DEF AllocNext, list, Taken, Nodes
<1>5. CASE AllocTake
  <2>0. pc = "alloc" /\ want' = -1 /\ want \in Nat
    BY <1>0, <1>5 DEF AllocTake, Return, Cursor
  <2>1. CASE WorthANode(node)
    <3> DEFINE rest == node + 1 + want
    <3>1. /\ node \in Nodes /\ rest \notin Nodes /\ node # rest /\ Nodes' = Nodes \cup {rest}
          /\ size' = [m \in Nodes \cup {rest} |-> IF m = rest THEN size[node] - want - 1 ELSE IF m = node THEN want ELSE size[m]]
          /\ used' = [m \in Nodes \cup {rest} |-> IF m = rest THEN FALSE ELSE IF m = node THEN TRUE ELSE used[m]]
      BY <1>5, <2>1, SplitShape DEF AllocTake
    <3> HIDE DEF rest
    <3>2. node \notin Taken
      BY <1>5 DEF AllocTake, Fits, Taken
    <3>3. Taken' = Taken \cup {node}
      BY <3>1, <3>2 DEF Taken
    <3>4. \A m \in Taken : size'[m] = size[m]
      BY <3>1, <3>2 DEF Taken
    <3>5. node \in Nodes' /\ want <= size'[node]
      BY <2>0, <3>1
    <3>6. Store!Give
      BY <2>0, <3>2, <3>3, <3>4, <3>5, GiveStep
    <3> QED BY <3>6
  <2>2. CASE ~WorthANode(node)
    <3>1. /\ node \in Nodes /\ node \notin Taken /\ Nodes' = Nodes /\ size' = size
          /\ used' = [used EXCEPT ![node] = TRUE]
      BY <1>0, <1>5, <2>2 DEF AllocTake, TypeOK, Nodes, Fits, Taken
    <3>2. Taken' = Taken \cup {node}
      BY <1>0, <3>1 DEF Taken, TypeOK
    <3>3. want <= size'[node]
      BY <1>5, <3>1 DEF AllocTake, Fits
    <3>4. Store!Give
      BY <2>0, <3>1, <3>2, <3>3, GiveStep
    <3> QED BY <3>4
  <2> QED BY <2>1, <2>2
<1>6. CASE AllocAppend
  <2> DEFINE new == End(node)
  <2>0. pc = "alloc" /\ want' = -1
    BY <1>6 DEF AllocAppend, Return
  <2>1. /\ node \in Nodes /\ new \notin Nodes /\ Nodes' = Nodes \cup {new} /\ want \in Nat
        /\ size' = [m \in Nodes \cup {new} |-> IF m = new THEN want ELSE size[m]]
        /\ used' = [m \in Nodes \cup {new} |-> IF m = new THEN TRUE ELSE used[m]]
    BY <1>6, AppendShape
  <2> HIDE DEF new
  <2>2. new \notin Taken /\ Taken' = Taken \cup {new} /\ \A m \in Taken : size'[m] = size[m]
    BY <2>1 DEF Taken
  <2>3. new \in Nodes' /\ want <= size'[new]
    BY <2>1
  <2>4. Store!Give
    BY <2>0, <2>2, <2>3, GiveStep
  <2> QED BY <2>4
<1>7. CASE FreeNext
  <2>1. CASE Mergeable(node)
    <3> DEFINE p == prev[node]
    <3>1. /\ node \in Nodes /\ p \in Nodes /\ Nodes' = Nodes \ {node}
          /\ size' = [m \in Nodes \ {node} |-> IF m = p THEN size[p] + size[node] + 1 ELSE size[m]]
          /\ used' = [m \in Nodes \ {node} |-> used[m]]
      BY <1>7, <2>1, MergeShape
    <3>2. ~used[node] /\ ~used[p]
      BY <2>1 DEF Mergeable
    <3> HIDE DEF p
    <3>3. Taken' = Taken /\ \A m \in Taken : size'[m] = size[m]
      BY <3>1, <3>2 DEF Taken
    <3>4. Blocks' = Blocks
      BY <3>3, SameBlocks
    <3> QED BY <1>7, <3>4 DEF FreeNext
  <2>2. CASE ~Mergeable(node)
    <3>1. Blocks' = Blocks
      BY <1>7, <2>2, SameBlocks DEF FreeNext, Taken, Nodes
    <3> QED BY <1>7, <3>1 DEF FreeNext
  <2> QED BY <2>1, <2>2
<1>8. CASE UNCHANGED vars
  BY <1>8, SameBlocks DEF vars, list, Taken, Nodes
<1> QED BY <1>1, <1>2, <1>3, <1>4, <1>5, <1>6, <1>7, <1>8 DEF Next, Step

(* The allocator keeps what HeapStore promises: a block handed out is as   *)
(* large as asked for, clear of every other, and left alone by the calls   *)
(* of everybody else until it is freed.                                    *)
THEOREM StoreImplemented == Spec => ImplementsStore
<1>1. Init => Store!Init
  BY DEF Init, Store!Init, Blocks, Nodes, NoNodes
<1> QED BY <1>1, InvInit, InvNext, StoreStep, PTL DEF Spec, ImplementsStore, Store!Spec
=============================================================================
