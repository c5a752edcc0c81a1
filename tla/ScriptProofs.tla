---------------------------- MODULE ScriptProofs ----------------------------
(***************************************************************************)
(* Reference counts of the script engine: for scripts of any statements,   *)
(* any depth of calls and any number of values.                            *)
(***************************************************************************)
EXTENDS ScriptEval, FiniteSetTheorems, SequenceTheorems, TLAPS

-----------------------------------------------------------------------------
(* The references from outside of the heap.                                *)

Is(v, i) == IF v = i THEN 1 ELSE 0
Held(f, i) == Count(Holds(f), i)
HeldPlaces(s) == UNION {{d} \X DOMAIN Holds(s[d]) : d \in DOMAIN s}
InStack(s, i) == Cardinality({p \in HeldPlaces(s) : Holds(s[p[1]])[p[2]] = i})
Ext(vs, s, v) == [i \in Ids |-> Count(vs, i) + InStack(s, i) + Is(v, i)]

(* A cell with n references to it; l: one that was lost.  A lost reference *)
(* is never given back, so that its value is never freed.                  *)
CellOK(c, n, l) ==
    /\ ~c.pinned
    /\ c.kind # "view"
    /\ IF Keeps(c.kind) THEN c.base \in Ids ELSE c.base = Null
    /\ IF c.kind = "none" THEN c = Free /\ n = 0 /\ ~l
       ELSE /\ c.tags >= 1
            /\ IF l THEN c.tags > n ELSE c.tags = n

Sound(h, X, L) == /\ h \in [Ids -> Cell]
                  /\ L \subseteq Ids
                  /\ \A i \in Ids : CellOK(h[i], X[i] + Owned(h, Ids, i), i \in L)

-----------------------------------------------------------------------------
(* The frames, and what each needs of those below it.                      *)

Expr == Seq(Tokens)
Set == [to : {"none"}, on : {Null}, name : {<<>>}]
       \cup [to : {"setVar"}, on : {Null}, name : Vars]
       \cup [to : {"setEntry"}, on : Value, name : Keys]
       \cup [to : {"setIndex"}, on : Value, name : Expr]
EvalFrame == [k : {"eval"}, ops : Expr, body : BOOLEAN, ret : BOOLEAN, cur : Value, op : BOOLEAN, opd : Value, set : Set]
ArgsFrame == [k : {"args"}, class : Kinds, of : Value, cond : Seq(Expr), got : Seq(Value), todo : Seq(Expr), runs : BOOLEAN]
LoopFrame == [k : {"loop"}, f : Value, cond : Seq(Expr), asks : BOOLEAN, result : Value]
OtherFrame == [k : {"index"}, of : Value] \cup [k : {"setindex"}, last : BOOLEAN] \cup [k : {"call"}, body : BOOLEAN]
              \cup [k : {"block"}, gives : {"empty", "then", "else"}]
Frame == EvalFrame \cup ArgsFrame \cup LoopFrame \cup OtherFrame

CallableIn(h, f) == KindOf(h, f) \in Std \cup {"member", "function"}

(* The value "of" that a built-in function works on is held by a frame     *)
(* below, or was lost; or the function that keeps it is.                   *)
HeldBelow(s, L, d, v) == v \in L \/ \E e \in 1 .. d - 1 : \E j \in DOMAIN Holds(s[e]) : Holds(s[e])[j] = v
Belongs(s, h, L, d) ==
    LET f == s[d]
    IN  \/ f.of = Null /\ f.class \in Std
        \/ /\ f.of \in Ids /\ h[f.of].kind = f.class
           /\ \E v \in Ids : (v = f.of \/ (Keeps(h[v].kind) /\ h[v].base = f.of)) /\ HeldBelow(s, L, d, v)

(* The arguments of a script function are evaluated for nothing: nothing   *)
(* comes back from an eval upon such a call.                               *)
Discarding(s) == s # <<>> /\ s[Len(s)].k = "call" /\ ~s[Len(s)].body

Sits(s, h, L, d) ==
    /\ d > 1 /\ s[d - 1].k = "call" /\ ~s[d - 1].body => s[d].k = "eval" /\ ~s[d].ret
    /\ s[d].k = "args" => Belongs(s, h, L, d)
    /\ s[d].k = "setindex" => d > 1 /\ s[d - 1].k = "eval" /\ s[d - 1].opd = Null
    /\ s[d].k = "call" => d < MaxFrames
    /\ s[d].k = "loop" => /\ d > 1 /\ d < MaxFrames
                          /\ s[d - 1].k = "args" /\ s[d - 1].got = <<s[d].f>>
                          /\ CallableIn(h, s[d].f) /\ s[d].cond # <<>>

StackOK(s, h, L) == /\ s \in Seq(Frame) /\ Len(s) =< MaxFrames
                    /\ \A d \in 1 .. Len(s) : Sits(s, h, L, d)

Inv == /\ vars \in [Vars -> Value] /\ val \in Value \cup {Running}
       /\ broke = FALSE /\ exited \in BOOLEAN /\ length \in 0 .. MaxLength
       /\ StackOK(stack, heap, lost) /\ (Discarding(stack) => val \notin Ids)
       /\ Sound(heap, Ext(vars, stack, val), lost)

-----------------------------------------------------------------------------
(* Counting.                                                               *)

LEMMA IdsFacts ==
  /\ IsFiniteSet(Ids) /\ Ids \subseteq Nat
  /\ \A i \in Ids : i # Null /\ i # Empty /\ i # Function /\ i # Running
  /\ \A i \in Ids : i \in Value /\ i > 0
  BY SizesAssumption, FS_Interval DEF Ids, Null, Empty, Function, Running, Value

LEMMA UpToFinite ==
  ASSUME NEW n \in Nat
  PROVE  IsFiniteSet(1 .. n)
  BY FS_Interval

LEMMA CountType ==
  ASSUME NEW vs, IsFiniteSet(DOMAIN vs), NEW i
  PROVE  Count(vs, i) \in Nat
<1>1. {x \in DOMAIN vs : vs[x] = i} \subseteq DOMAIN vs
  OBVIOUS
<1> QED BY <1>1, FS_Subset, FS_CardinalityType DEF Count

LEMMA CountSeqType ==
  ASSUME NEW S, NEW s \in Seq(S), NEW i
  PROVE  IsFiniteSet(DOMAIN s) /\ Count(s, i) \in Nat
<1>1. DOMAIN s = 1 .. Len(s) /\ Len(s) \in Nat
  OBVIOUS
<1> QED BY <1>1, FS_Interval, CountType

LEMMA CountNothing ==
  ASSUME NEW i
  PROVE  Count(<<>>, i) = 0
<1>1. {x \in DOMAIN <<>> : <<>>[x] = i} = {}
  OBVIOUS
<1> QED BY <1>1, FS_EmptySet DEF Count

LEMMA IsType ==
  ASSUME NEW v, NEW i
  PROVE  Is(v, i) \in {0, 1} /\ (Is(v, i) = 1 <=> v = i)
  BY DEF Is

LEMMA Hits ==
  ASSUME NEW A, IsFiniteSet(A), NEW x, x \notin A, NEW v, NEW i, NEW B, B = IF v = i THEN A \cup {x} ELSE A
  PROVE  IsFiniteSet(B) /\ Cardinality(A) \in Nat /\ Cardinality(B) = Cardinality(A) + Is(v, i)
  BY FS_AddElement, FS_CardinalityType DEF Is

LEMMA CountAppend ==
  ASSUME NEW S, NEW s \in Seq(S), NEW v \in S, NEW i
  PROVE  Count(Append(s, v), i) = Count(s, i) + Is(v, i)
<1> DEFINE A == {x \in DOMAIN s : s[x] = i}
<1> DEFINE B == {x \in DOMAIN Append(s, v) : Append(s, v)[x] = i}
<1>1. DOMAIN s = 1 .. Len(s) /\ Len(s) \in Nat
  OBVIOUS
<1>2. A \in SUBSET (1 .. Len(s)) /\ Len(s) + 1 \notin A
  BY <1>1
<1>3. DOMAIN Append(s, v) = DOMAIN s \cup {Len(s) + 1} /\ Append(s, v)[Len(s) + 1] = v
  OBVIOUS
<1>4. \A x \in DOMAIN s : Append(s, v)[x] = s[x]
  OBVIOUS
<1>5. B = IF v = i THEN A \cup {Len(s) + 1} ELSE A
  BY <1>2, <1>3, <1>4
<1>6. Count(s, i) = Cardinality(A) /\ Count(Append(s, v), i) = Cardinality(B)
  BY DEF Count
<1> HIDE DEF A, B
<1>7. IsFiniteSet(A)
  <2>1. IsFiniteSet(1 .. Len(s))
    BY <1>1, UpToFinite
  <2> QED BY <1>2, <2>1, FS_Subset
<1> QED BY <1>2, <1>5, <1>6, <1>7, Hits

LEMMA CountOne ==
  ASSUME NEW v, NEW i
  PROVE  Count(<<v>>, i) = Is(v, i)
<1> DEFINE A == {x \in DOMAIN <<v>> : <<v>>[x] = i}
<1>1. A = IF v = i THEN {} \cup {1} ELSE {}
  OBVIOUS
<1>2. Count(<<v>>, i) = Cardinality(A)
  BY DEF Count
<1> HIDE DEF A
<1> QED BY <1>1, <1>2, Hits, FS_EmptySet, IsType

LEMMA CountTwo ==
  ASSUME NEW v, NEW w, NEW i
  PROVE  Count(<<v, w>>, i) = Is(v, i) + Is(w, i)
<1> DEFINE A == IF v = i THEN {} \cup {1} ELSE {}
<1> DEFINE B == IF w = i THEN A \cup {2} ELSE A
<1>1. {x \in DOMAIN <<v, w>> : <<v, w>>[x] = i} = B
  OBVIOUS
<1>2. 2 \notin A
  OBVIOUS
<1>3. IsFiniteSet(A) /\ Cardinality(A) = Is(v, i)
  BY Hits, FS_EmptySet, IsType
<1> HIDE DEF A
<1>4. Cardinality(B) = Is(v, i) + Is(w, i)
  BY <1>2, <1>3, Hits
<1> QED BY <1>1, <1>4 DEF Count

LEMMA CountThree ==
  ASSUME NEW u, NEW v, NEW w, NEW i
  PROVE  Count(<<u, v, w>>, i) = Is(u, i) + Is(v, i) + Is(w, i)
<1> DEFINE A == {x \in DOMAIN <<u, v>> : <<u, v>>[x] = i}
<1> DEFINE B == IF w = i THEN A \cup {3} ELSE A
<1>1. {x \in DOMAIN <<u, v, w>> : <<u, v, w>>[x] = i} = B
  OBVIOUS
<1>2. 3 \notin A /\ A \in SUBSET (1 .. 2)
  OBVIOUS
<1>3. Cardinality(A) = Is(u, i) + Is(v, i)
  BY CountTwo DEF Count
<1> HIDE DEF A
<1>4. IsFiniteSet(A)
  <2>1. IsFiniteSet(1 .. 2)
    BY UpToFinite
  <2> QED BY <1>2, <2>1, FS_Subset
<1>5. Cardinality(B) = Is(u, i) + Is(v, i) + Is(w, i)
  BY <1>2, <1>3, <1>4, Hits
<1> QED BY <1>1, <1>5 DEF Count

LEMMA OneElement ==
  ASSUME NEW A, NEW B, IsFiniteSet(A), IsFiniteSet(B), NEW n, A \ {n} = B \ {n}
  PROVE  /\ Cardinality(A) \in Nat /\ Cardinality(B) \in Nat
         /\ Cardinality(B) = Cardinality(A) - (IF n \in A THEN 1 ELSE 0) + (IF n \in B THEN 1 ELSE 0)
<1>1. Cardinality(A) \in Nat /\ Cardinality(B) \in Nat
  BY FS_CardinalityType
<1>2. Cardinality(A \ {n}) = IF n \in A THEN Cardinality(A) - 1 ELSE Cardinality(A)
  BY FS_RemoveElement
<1>3. Cardinality(B \ {n}) = IF n \in B THEN Cardinality(B) - 1 ELSE Cardinality(B)
  BY FS_RemoveElement
<1> QED BY <1>1, <1>2, <1>3

LEMMA CountChanged ==
  ASSUME NEW f, NEW g, IsFiniteSet(DOMAIN f), DOMAIN g = DOMAIN f, NEW n \in DOMAIN f,
         \A x \in DOMAIN f : x # n => g[x] = f[x], NEW i
  PROVE  Count(g, i) = Count(f, i) - Is(f[n], i) + Is(g[n], i)
<1> DEFINE A == {x \in DOMAIN f : f[x] = i}
<1> DEFINE B == {x \in DOMAIN f : g[x] = i}
<1>1. Count(f, i) = Cardinality(A) /\ Count(g, i) = Cardinality(B)
  BY DEF Count
<1>2. A \in SUBSET DOMAIN f /\ B \in SUBSET DOMAIN f /\ A \ {n} = B \ {n} /\ (n \in A <=> f[n] = i) /\ (n \in B <=> g[n] = i)
  OBVIOUS
<1> HIDE DEF A, B
<1>3. IsFiniteSet(A) /\ IsFiniteSet(B)
  BY <1>2, FS_Subset
<1>4. Cardinality(B) = Cardinality(A) - Is(f[n], i) + Is(g[n], i)
  BY <1>2, <1>3, OneElement DEF Is
<1> QED BY <1>1, <1>4

LEMMA CountAtLeast ==
  ASSUME NEW vs, IsFiniteSet(DOMAIN vs), NEW i
  PROVE  Count(vs, i) >= 1 <=> \E x \in DOMAIN vs : vs[x] = i
<1> DEFINE A == {x \in DOMAIN vs : vs[x] = i}
<1>1. IsFiniteSet(A)
  <2>1. A \in SUBSET DOMAIN vs
    OBVIOUS
  <2> QED BY <2>1, FS_Subset
<1>2. Cardinality(A) \in Nat /\ (Cardinality(A) = 0 <=> A = {})
  BY <1>1, FS_EmptySet, FS_CardinalityType
<1> QED BY <1>2 DEF Count

-----------------------------------------------------------------------------
(* What the cells of a set refer to.                                       *)

OriginsIn(h, C, i) == {c \in C : Keeps(h[c].kind) /\ h[c].base = i}
EntriesIn(h, C, i) == {p \in C \X Keys : h[p[1]].entries[p[2]] = i}

LEMMA OwnedParts ==
  ASSUME NEW h, NEW C \in SUBSET Ids, NEW i
  PROVE  /\ IsFiniteSet(OriginsIn(h, C, i)) /\ IsFiniteSet(EntriesIn(h, C, i))
         /\ Cardinality(OriginsIn(h, C, i)) \in Nat /\ Cardinality(EntriesIn(h, C, i)) \in Nat
         /\ Owned(h, C, i) = Cardinality(OriginsIn(h, C, i)) + Cardinality(EntriesIn(h, C, i))
         /\ Owned(h, C, i) \in Nat
<1>1. IsFiniteSet(C) /\ IsFiniteSet(C \X Keys)
  BY IdsFacts, SizesAssumption, FS_Subset, FS_Product
<1>2. OriginsIn(h, C, i) \in SUBSET C /\ EntriesIn(h, C, i) \in SUBSET (C \X Keys)
  BY DEF OriginsIn, EntriesIn
<1>3. IsFiniteSet(OriginsIn(h, C, i)) /\ IsFiniteSet(EntriesIn(h, C, i))
  BY <1>1, <1>2, FS_Subset
<1>4. Cardinality(OriginsIn(h, C, i)) \in Nat /\ Cardinality(EntriesIn(h, C, i)) \in Nat
  BY <1>3, FS_CardinalityType
<1>5. Owned(h, C, i) = Cardinality(OriginsIn(h, C, i)) + Cardinality(EntriesIn(h, C, i))
  BY DEF Owned, Origins, Entries, OriginsIn, EntriesIn
<1> QED BY <1>3, <1>4, <1>5

LEMMA DisjointUnion ==
  ASSUME NEW A, NEW B, IsFiniteSet(A), IsFiniteSet(B), A \cap B = {}
  PROVE  Cardinality(A \cup B) = Cardinality(A) + Cardinality(B)
<1>1. Cardinality(A \cap B) = 0
  BY FS_EmptySet
<1>2. Cardinality(A) \in Nat /\ Cardinality(B) \in Nat
  BY FS_CardinalityType
<1>3. Cardinality(A \cup B) = Cardinality(A) + Cardinality(B) - Cardinality(A \cap B)
  BY FS_Union
<1> QED BY <1>1, <1>2, <1>3

LEMMA OwnedUnion ==
  ASSUME NEW h, NEW C \in SUBSET Ids, NEW D \in SUBSET Ids, C \cap D = {}, NEW i
  PROVE  Owned(h, C \cup D, i) = Owned(h, C, i) + Owned(h, D, i)
<1>1. /\ OriginsIn(h, C \cup D, i) = OriginsIn(h, C, i) \cup OriginsIn(h, D, i)
      /\ OriginsIn(h, C, i) \cap OriginsIn(h, D, i) = {}
  BY DEF OriginsIn
<1>2. /\ EntriesIn(h, C \cup D, i) = EntriesIn(h, C, i) \cup EntriesIn(h, D, i)
      /\ EntriesIn(h, C, i) \cap EntriesIn(h, D, i) = {}
  BY DEF EntriesIn
<1>3. C \cup D \in SUBSET Ids
  OBVIOUS
<1>4. Cardinality(OriginsIn(h, C \cup D, i)) = Cardinality(OriginsIn(h, C, i)) + Cardinality(OriginsIn(h, D, i))
  BY <1>1, OwnedParts, DisjointUnion
<1>5. Cardinality(EntriesIn(h, C \cup D, i)) = Cardinality(EntriesIn(h, C, i)) + Cardinality(EntriesIn(h, D, i))
  BY <1>2, OwnedParts, DisjointUnion
<1>6. \A S \in SUBSET Ids :
        /\ Cardinality(OriginsIn(h, S, i)) \in Nat /\ Cardinality(EntriesIn(h, S, i)) \in Nat
        /\ Owned(h, S, i) = Cardinality(OriginsIn(h, S, i)) + Cardinality(EntriesIn(h, S, i))
  BY OwnedParts
<1> QED BY <1>3, <1>4, <1>5, <1>6

LEMMA OwnedMonotone ==
  ASSUME NEW h, NEW D \in SUBSET Ids, NEW C \in SUBSET D, NEW i
  PROVE  /\ Owned(h, C, i) =< Owned(h, D, i)
         /\ Owned(h, D \ C, i) = Owned(h, D, i) - Owned(h, C, i)
<1> DEFINE E == D \ C
<1>1. D = C \cup E /\ C \cap E = {} /\ C \in SUBSET Ids /\ E \in SUBSET Ids
  OBVIOUS
<1> HIDE DEF E
<1>2. Owned(h, C \cup E, i) = Owned(h, C, i) + Owned(h, E, i)
  BY <1>1, OwnedUnion
<1>3. Owned(h, C, i) \in Nat /\ Owned(h, E, i) \in Nat
  BY <1>1, OwnedParts
<1>4. Owned(h, D, i) = Owned(h, C, i) + Owned(h, E, i)
  BY <1>1, <1>2
<1>5. Owned(h, C, i) =< Owned(h, D, i) /\ Owned(h, E, i) = Owned(h, D, i) - Owned(h, C, i)
  BY <1>3, <1>4
<1> QED BY <1>5 DEF E

LEMMA OwnedSame ==
  ASSUME NEW h, NEW g, NEW C,
         \A c \in C : g[c].kind = h[c].kind /\ g[c].base = h[c].base /\ g[c].entries = h[c].entries,
         NEW i
  PROVE  Owned(g, C, i) = Owned(h, C, i)
<1>1. {c \in C : Keeps(g[c].kind) /\ g[c].base = i} = {c \in C : Keeps(h[c].kind) /\ h[c].base = i}
  BY DEF Keeps
<1>2. {p \in C \X Keys : g[p[1]].entries[p[2]] = i} = {p \in C \X Keys : h[p[1]].entries[p[2]] = i}
  OBVIOUS
<1> QED BY <1>1, <1>2 DEF Owned, Origins, Entries

LEMMA OwnedByNone ==
  ASSUME NEW h, NEW C \in SUBSET Ids, NEW i,
         \A c \in C : /\ Keeps(h[c].kind) => h[c].base # i
                      /\ \A k \in Keys : h[c].entries[k] # i
  PROVE  Owned(h, C, i) = 0
<1>1. OriginsIn(h, C, i) = {} /\ EntriesIn(h, C, i) = {}
  BY DEF OriginsIn, EntriesIn
<1>2. Cardinality(OriginsIn(h, C, i)) = 0 /\ Cardinality(EntriesIn(h, C, i)) = 0
  BY <1>1, FS_EmptySet
<1> QED BY <1>2, OwnedParts

LEMMA OwnedBySome ==
  ASSUME NEW h, NEW C \in SUBSET Ids, NEW i, NEW c \in C,
         \/ Keeps(h[c].kind) /\ h[c].base = i
         \/ \E k \in Keys : h[c].entries[k] = i
  PROVE  Owned(h, C, i) >= 1
<1>1. OriginsIn(h, C, i) # {} \/ EntriesIn(h, C, i) # {}
  <2>1. CASE Keeps(h[c].kind) /\ h[c].base = i
    <3>1. c \in OriginsIn(h, C, i)
      BY <2>1 DEF OriginsIn
    <3> QED BY <3>1
  <2>2. CASE \E k \in Keys : h[c].entries[k] = i
    <3>1. PICK k \in Keys : h[c].entries[k] = i
      BY <2>2
    <3>2. <<c, k>> \in EntriesIn(h, C, i)
      BY <3>1 DEF EntriesIn
    <3> QED BY <3>2
  <2> QED BY <2>1, <2>2
<1>2. /\ IsFiniteSet(OriginsIn(h, C, i)) /\ IsFiniteSet(EntriesIn(h, C, i))
      /\ Cardinality(OriginsIn(h, C, i)) \in Nat /\ Cardinality(EntriesIn(h, C, i)) \in Nat
      /\ Owned(h, C, i) = Cardinality(OriginsIn(h, C, i)) + Cardinality(EntriesIn(h, C, i))
  BY OwnedParts
<1>3. Cardinality(OriginsIn(h, C, i)) # 0 \/ Cardinality(EntriesIn(h, C, i)) # 0
  BY <1>1, <1>2, FS_EmptySet
<1> QED BY <1>2, <1>3

(* A cell that gets other entries or another origin.                       *)
LEMMA OwnedChange ==
  ASSUME NEW h, NEW g, NEW d \in Ids, \A c \in Ids \ {d} : g[c] = h[c], NEW i
  PROVE  Owned(g, Ids, i) = Owned(h, Ids, i) - Owned(h, {d}, i) + Owned(g, {d}, i)
<1> DEFINE E == Ids \ {d}
<1>1. Ids = E \cup {d} /\ E \cap {d} = {} /\ E \in SUBSET Ids /\ {d} \in SUBSET Ids
  OBVIOUS
<1>2. Owned(g, E, i) = Owned(h, E, i)
  BY OwnedSame
<1> HIDE DEF E
<1>3. Owned(g, E \cup {d}, i) = Owned(g, E, i) + Owned(g, {d}, i)
  BY <1>1, OwnedUnion
<1>4. Owned(h, E \cup {d}, i) = Owned(h, E, i) + Owned(h, {d}, i)
  BY <1>1, OwnedUnion
<1>5. Owned(g, Ids, i) = Owned(g, E \cup {d}, i) /\ Owned(h, Ids, i) = Owned(h, E \cup {d}, i)
  BY <1>1
<1>6. Owned(h, E, i) \in Nat /\ Owned(h, {d}, i) \in Nat /\ Owned(g, {d}, i) \in Nat
  BY <1>1, OwnedParts
<1> QED BY <1>2, <1>3, <1>4, <1>5, <1>6

LEMMA OwnedByOne ==
  ASSUME NEW h \in [Ids -> Cell], NEW d \in Ids, NEW i
  PROVE  Owned(h, {d}, i) = (IF Keeps(h[d].kind) THEN Is(h[d].base, i) ELSE 0) + Count(h[d].entries, i)
<1> DEFINE O == IF Keeps(h[d].kind) /\ h[d].base = i THEN {} \cup {d} ELSE {}
<1> DEFINE A == {k \in Keys : h[d].entries[k] = i}
<1> DEFINE B == EntriesIn(h, {d}, i)
<1> DEFINE f == [k \in A |-> <<d, k>>]
<1>1. OriginsIn(h, {d}, i) = O
  BY DEF OriginsIn
<1>2. Cardinality(O) = IF Keeps(h[d].kind) THEN Is(h[d].base, i) ELSE 0
  <2>1. Cardinality({}) = 0 /\ Cardinality({} \cup {d}) = 1
    BY FS_EmptySet, FS_AddElement
  <2> QED BY <2>1 DEF Is
<1>3. f \in Bijection(A, B)
  <2>1. f \in [A -> B]
    BY DEF EntriesIn
  <2>2. \A x, y \in A : f[x] = f[y] => x = y
    OBVIOUS
  <2>3. \A p \in B : \E k \in A : f[k] = p
    <3>1. SUFFICES ASSUME NEW p \in B PROVE \E k \in A : f[k] = p
      OBVIOUS
    <3>2. p = <<d, p[2]>> /\ p[2] \in A
      BY DEF EntriesIn
    <3> QED BY <3>2
  <2> QED BY <2>1, <2>2, <2>3 DEF Bijection, Injection, Surjection, IsInjective
<1>4. ExistsBijection(A, B)
  BY <1>3 DEF ExistsBijection
<1>5. A \in SUBSET Keys
  OBVIOUS
<1>6. DOMAIN h[d].entries = Keys
  BY DEF Cell
<1>7. Count(h[d].entries, i) = Cardinality(A)
  BY <1>6 DEF Count
<1> HIDE DEF A, B, O
<1>8. IsFiniteSet(A)
  BY <1>5, SizesAssumption, FS_Subset
<1>9. Cardinality(B) = Cardinality(A)
  BY <1>4, <1>8, FS_Bijection
<1>10. Owned(h, {d}, i) = Cardinality(OriginsIn(h, {d}, i)) + Cardinality(EntriesIn(h, {d}, i))
  BY OwnedParts
<1> QED BY <1>1, <1>2, <1>7, <1>9, <1>10 DEF B

-----------------------------------------------------------------------------
(* What the frames hold.                                                   *)

LEMMA HoldsType ==
  ASSUME NEW f \in Frame
  PROVE  /\ Holds(f) \in Seq(Value) /\ IsFiniteSet(DOMAIN Holds(f))
         /\ \A i : Held(f, i) \in Nat
<1>1. CASE f \in EvalFrame
  <2>1. f.cur \in Value /\ f.opd \in Value /\ f.set.on \in Value /\ Holds(f) = <<f.cur, f.opd, f.set.on>>
    BY <1>1 DEF EvalFrame, Set, Holds, Value
  <2>2. Holds(f) \in Seq(Value)
    BY <2>1
  <2> QED BY <2>2, CountSeqType DEF Held
<1>2. CASE f \in ArgsFrame
  <2>1. Holds(f) \in Seq(Value)
    BY <1>2 DEF ArgsFrame, Holds
  <2> QED BY <2>1, CountSeqType DEF Held
<1>3. CASE f \in LoopFrame \cup OtherFrame
  <2>1. Holds(f) = <<>>
    BY <1>3 DEF LoopFrame, OtherFrame, Holds
  <2>2. <<>> \in Seq(Value)
    OBVIOUS
  <2> QED BY <2>1, <2>2, CountSeqType DEF Held
<1> QED BY <1>1, <1>2, <1>3 DEF Frame

LEMMA HeldBy ==
  ASSUME NEW f, NEW i
  PROVE  /\ f.k = "eval" => Held(f, i) = Is(f.cur, i) + Is(f.opd, i) + Is(f.set.on, i)
         /\ f.k = "args" => Held(f, i) = Count(f.got, i)
         /\ f.k \notin {"eval", "args"} => Held(f, i) = 0
<1>1. CASE f.k = "eval"
  <2>1. Holds(f) = <<f.cur, f.opd, f.set.on>>
    BY <1>1 DEF Holds
  <2> QED BY <1>1, <2>1, CountThree DEF Held
<1>2. CASE f.k = "args"
  BY <1>2 DEF Holds, Held
<1>3. CASE f.k \notin {"eval", "args"}
  <2>1. Holds(f) = <<>>
    BY <1>3 DEF Holds
  <2> QED BY <1>3, <2>1, CountNothing DEF Held
<1> QED BY <1>1, <1>2, <1>3

PlacesIn(s, i) == {p \in HeldPlaces(s) : Holds(s[p[1]])[p[2]] = i}

LEMMA StackPlaces ==
  ASSUME NEW s \in Seq(Frame), NEW i
  PROVE  IsFiniteSet(PlacesIn(s, i)) /\ InStack(s, i) = Cardinality(PlacesIn(s, i)) /\ InStack(s, i) \in Nat
<1> DEFINE P(d) == {d} \X DOMAIN Holds(s[d])
<1> DEFINE Ps == {P(d) : d \in DOMAIN s}
<1> DEFINE g == [d \in DOMAIN s |-> P(d)]
<1>1. DOMAIN s = 1 .. Len(s) /\ Len(s) \in Nat /\ \A d \in DOMAIN s : s[d] \in Frame
  OBVIOUS
<1>2. IsFiniteSet(DOMAIN s)
  BY <1>1, UpToFinite
<1>3. \A d \in DOMAIN s : IsFiniteSet(P(d))
  BY <1>1, HoldsType, FS_Singleton, FS_Product
<1>4. g \in Surjection(DOMAIN s, Ps)
  BY DEF Surjection
<1>5. IsFiniteSet(Ps)
  BY <1>2, <1>4, FS_Surjection
<1>6. \A T \in Ps : IsFiniteSet(T)
  BY <1>3
<1>7. HeldPlaces(s) = UNION Ps
  BY DEF HeldPlaces
<1> HIDE DEF Ps
<1>8. IsFiniteSet(HeldPlaces(s))
  BY <1>5, <1>6, <1>7, FS_UNION
<1>9. PlacesIn(s, i) \in SUBSET HeldPlaces(s)
  BY DEF PlacesIn
<1>10. IsFiniteSet(PlacesIn(s, i))
  BY <1>8, <1>9, FS_Subset
<1> QED BY <1>10, FS_CardinalityType DEF InStack, PlacesIn

LEMMA InNothing ==
  ASSUME NEW i
  PROVE  InStack(<<>>, i) = 0
<1>1. PlacesIn(<<>>, i) = {} /\ <<>> \in Seq(Frame)
  BY DEF PlacesIn, HeldPlaces
<1> QED BY <1>1, StackPlaces, FS_EmptySet

LEMMA InAppend ==
  ASSUME NEW s \in Seq(Frame), NEW f \in Frame, NEW i
  PROVE  InStack(Append(s, f), i) = InStack(s, i) + Held(f, i)
<1> DEFINE n == Len(s) + 1
<1> DEFINE t == Append(s, f)
<1> DEFINE A == {j \in DOMAIN Holds(f) : Holds(f)[j] = i}
<1> DEFINE B == {p \in {n} \X DOMAIN Holds(f) : Holds(f)[p[2]] = i}
<1> DEFINE b == [j \in A |-> <<n, j>>]
<1>1. /\ t \in Seq(Frame) /\ DOMAIN t = DOMAIN s \cup {n} /\ n \notin DOMAIN s /\ t[n] = f
      /\ \A d \in DOMAIN s : t[d] = s[d]
  OBVIOUS
<1>2. HeldPlaces(t) = HeldPlaces(s) \cup ({n} \X DOMAIN Holds(f))
  BY <1>1 DEF HeldPlaces
<1>3. \A p \in HeldPlaces(s) : p[1] \in DOMAIN s
  BY DEF HeldPlaces
<1>4. PlacesIn(t, i) = PlacesIn(s, i) \cup B
  BY <1>1, <1>2, <1>3 DEF PlacesIn
<1>5. PlacesIn(s, i) \cap B = {}
  BY <1>1, <1>3 DEF PlacesIn
<1>6. b \in Bijection(A, B)
  <2>1. b \in [A -> B]
    OBVIOUS
  <2>2. \A x, y \in A : b[x] = b[y] => x = y
    OBVIOUS
  <2>3. \A p \in B : \E j \in A : b[j] = p
    <3>1. SUFFICES ASSUME NEW p \in B PROVE \E j \in A : b[j] = p
      OBVIOUS
    <3>2. p = <<n, p[2]>> /\ p[2] \in A
      OBVIOUS
    <3> QED BY <3>2
  <2> QED BY <2>1, <2>2, <2>3 DEF Bijection, Injection, Surjection, IsInjective
<1>7. ExistsBijection(A, B)
  BY <1>6 DEF ExistsBijection
<1>8. A \in SUBSET DOMAIN Holds(f) /\ Held(f, i) = Cardinality(A)
  BY DEF Held, Count
<1> HIDE DEF A, B, t
<1>9. IsFiniteSet(A)
  BY <1>8, HoldsType, FS_Subset
<1>10. IsFiniteSet(B) /\ Cardinality(B) = Cardinality(A)
  BY <1>7, <1>9, FS_Bijection
<1>11. Cardinality(PlacesIn(s, i) \cup B) = Cardinality(PlacesIn(s, i)) + Cardinality(B)
  BY <1>5, <1>10, StackPlaces, DisjointUnion
<1> QED BY <1>1, <1>4, <1>8, <1>10, <1>11, StackPlaces DEF t

LEMMA InAtLeast ==
  ASSUME NEW s \in Seq(Frame), NEW i
  PROVE  InStack(s, i) >= 1 <=> \E d \in 1 .. Len(s) : \E j \in DOMAIN Holds(s[d]) : Holds(s[d])[j] = i
<1>1. PlacesIn(s, i) # {} <=> \E d \in DOMAIN s : \E j \in DOMAIN Holds(s[d]) : Holds(s[d])[j] = i
  <2>1. ASSUME NEW d \in DOMAIN s, NEW j \in DOMAIN Holds(s[d]), Holds(s[d])[j] = i
        PROVE  PlacesIn(s, i) # {}
    <3>1. <<d, j>> \in PlacesIn(s, i)
      BY <2>1 DEF PlacesIn, HeldPlaces
    <3> QED BY <3>1
  <2>2. ASSUME NEW p \in PlacesIn(s, i)
        PROVE  \E d \in DOMAIN s : \E j \in DOMAIN Holds(s[d]) : Holds(s[d])[j] = i
    BY <2>2 DEF PlacesIn, HeldPlaces
  <2> QED BY <2>1, <2>2
<1>2. Cardinality(PlacesIn(s, i)) \in Nat /\ (Cardinality(PlacesIn(s, i)) = 0 <=> PlacesIn(s, i) = {})
  BY StackPlaces, FS_EmptySet, FS_CardinalityType
<1>3. InStack(s, i) = Cardinality(PlacesIn(s, i)) /\ DOMAIN s = 1 .. Len(s)
  BY StackPlaces
<1>4. InStack(s, i) >= 1 <=> PlacesIn(s, i) # {}
  BY <1>2, <1>3
<1> QED BY <1>1, <1>3, <1>4

-----------------------------------------------------------------------------
(* The operations on the heap.  X counts the references from outside.      *)

LEMMA KeyFacts ==
  /\ NoEntries \in [Keys -> Value]
  /\ Free \in Cell /\ Free.kind = "none" /\ Free.tags = 0 /\ ~Free.pinned /\ Free.base = Null
  /\ Free.entries = NoEntries /\ \A k \in Keys : NoEntries[k] = Null
  BY SizesAssumption DEF NoEntries, Free, Cell, Value

LEMMA CellFields ==
  ASSUME NEW c \in Cell
  PROVE  /\ c.kind \in Kinds \cup {"none"} /\ c.tags \in 0 .. TagLimit - 1 /\ c.tags \in Nat /\ c.pinned \in BOOLEAN
         /\ c.base \in Value /\ c.entries \in [Keys -> Value]
  BY SizesAssumption DEF Cell

LEMMA SoundCell ==
  ASSUME NEW h, NEW X \in [Ids -> Nat], NEW L, Sound(h, X, L), NEW i \in Ids
  PROVE  /\ h \in [Ids -> Cell] /\ L \subseteq Ids /\ CellOK(h[i], X[i] + Owned(h, Ids, i), i \in L)
         /\ h[i] \in Cell /\ X[i] \in Nat /\ Owned(h, Ids, i) \in Nat
         /\ ~h[i].pinned /\ Counted(h, i) /\ h[i].tags \in Nat
         /\ h[i].kind = "none" => h[i] = Free /\ X[i] = 0 /\ Owned(h, Ids, i) = 0 /\ i \notin L
         /\ h[i].kind # "none" => h[i].tags >= 1 /\ h[i].tags >= X[i] + Owned(h, Ids, i)
<1>1. h \in [Ids -> Cell] /\ L \subseteq Ids /\ CellOK(h[i], X[i] + Owned(h, Ids, i), i \in L)
  BY DEF Sound
<1>2. h[i] \in Cell /\ X[i] \in Nat /\ Owned(h, Ids, i) \in Nat /\ h[i].tags \in Nat
  BY <1>1, OwnedParts, CellFields
<1> QED BY <1>1, <1>2 DEF CellOK, Counted

(* A value that is referred to is there. *)
LEMMA Referred ==
  ASSUME NEW h, NEW X \in [Ids -> Nat], NEW L, Sound(h, X, L), NEW i \in Ids,
         \/ X[i] >= 1 \/ i \in L
         \/ \E c \in Ids : (Keeps(h[c].kind) /\ h[c].base = i) \/ \E k \in Keys : h[c].entries[k] = i
  PROVE  h[i].kind # "none"
<1>1. CASE X[i] >= 1 \/ i \in L
  BY <1>1, SoundCell
<1>2. CASE \E c \in Ids : (Keeps(h[c].kind) /\ h[c].base = i) \/ \E k \in Keys : h[c].entries[k] = i
  <2>1. Owned(h, Ids, i) >= 1
    BY <1>2, OwnedBySome
  <2>2. h[i].kind = "none" => Owned(h, Ids, i) = 0
    BY SoundCell
  <2> QED BY <2>1, <2>2
<1> QED BY <1>1, <1>2

(* References that are dropped make their values lost. *)
LEMMA DropSound ==
  ASSUME NEW h, NEW X \in [Ids -> Nat], NEW L, Sound(h, X, L), NEW Y \in [Ids -> Nat], NEW M, L \subseteq M, M \subseteq Ids,
         \A i \in Ids : Y[i] =< X[i] /\ (i \in M => i \in L \/ Y[i] < X[i]) /\ (Y[i] < X[i] => i \in M)
  PROVE  Sound(h, Y, M)
<1>1. SUFFICES ASSUME NEW i \in Ids PROVE CellOK(h[i], Y[i] + Owned(h, Ids, i), i \in M)
  BY DEF Sound
<1>2. CellOK(h[i], X[i] + Owned(h, Ids, i), i \in L) /\ Owned(h, Ids, i) \in Nat /\ h[i].tags \in Nat
  BY SoundCell
<1> QED BY <1>2 DEF CellOK

LEMMA RetainSound ==
  ASSUME NEW h, NEW X \in [Ids -> Nat], NEW L, Sound(h, X, L), MaxTags < TagLimit,
         NEW v \in Value, MayHold(h, v), v \in Ids => h[v].kind # "none",
         NEW Y \in [Ids -> Nat], \A i \in Ids : Y[i] = X[i] + Is(v, i)
  PROVE  /\ Sound(Retain(h, v), Y, L)
         /\ \A i \in Ids : /\ Retain(h, v)[i].kind = h[i].kind /\ Retain(h, v)[i].base = h[i].base
                           /\ Retain(h, v)[i].entries = h[i].entries
         /\ \A i : Owned(Retain(h, v), Ids, i) = Owned(h, Ids, i)
<1> DEFINE g == Retain(h, v)
<1>1. h \in [Ids -> Cell]
  BY DEF Sound
<1>2. CASE v \notin Ids
  <2>1. g = h
    BY <1>2 DEF Retain, Counted
  <2>2. \A i \in Ids : Y[i] = X[i]
    BY <1>2 DEF Is
  <2>3. Y = X
    BY <2>2
  <2> QED BY <2>1, <2>3
<1>3. CASE v \in Ids
  <2>1. Counted(h, v) /\ h[v] \in Cell /\ h[v].tags \in Nat /\ h[v].kind # "none" /\ h[v].tags < MaxTags
    BY <1>3, SoundCell DEF MayHold
  <2>2. (h[v].tags + 1) % TagLimit = h[v].tags + 1 /\ h[v].tags + 1 \in 0 .. TagLimit - 1
    <3>1. \A a, b \in Nat : a < b => a % b = a
      OBVIOUS
    <3> QED BY <2>1, <3>1, SizesAssumption
  <2>3. g = [h EXCEPT ![v] = [h[v] EXCEPT !.tags = h[v].tags + 1]]
    BY <2>1, <2>2 DEF Retain
  <2>4. [h[v] EXCEPT !.tags = h[v].tags + 1] \in Cell
    BY <2>1, <2>2 DEF Cell
  <2>5. g \in [Ids -> Cell]
    BY <1>1, <2>3, <2>4
  <2>6. /\ g[v].tags = h[v].tags + 1 /\ g[v].pinned = h[v].pinned
        /\ \A i \in Ids \ {v} : g[i] = h[i]
        /\ \A i \in Ids : g[i].kind = h[i].kind /\ g[i].base = h[i].base /\ g[i].entries = h[i].entries
    BY <1>1, <1>3, <2>1, <2>3 DEF Cell
  <2>7. \A i : Owned(g, Ids, i) = Owned(h, Ids, i)
    BY <2>6, OwnedSame
  <2>8. ASSUME NEW i \in Ids PROVE CellOK(g[i], Y[i] + Owned(g, Ids, i), i \in L)
    <3>1. CellOK(h[i], X[i] + Owned(h, Ids, i), i \in L) /\ Owned(h, Ids, i) \in Nat /\ h[i].tags \in Nat
      BY SoundCell
    <3>2. CASE i = v
      <4>1. Y[i] = X[i] + 1
        BY <3>2, IsType
      <4> QED BY <2>1, <2>6, <2>7, <3>1, <3>2, <4>1 DEF CellOK
    <3>3. CASE i # v
      <4>1. Y[i] = X[i] /\ g[i] = h[i]
        BY <2>6, <3>3 DEF Is
      <4> QED BY <2>7, <3>1, <4>1
    <3> QED BY <3>2, <3>3
  <2> QED BY <2>5, <2>6, <2>7, <2>8 DEF Sound
<1> QED BY <1>2, <1>3

LEMMA PlaceFree ==
  ASSUME NEW h, HasRoom(h)
  PROVE  Place(h) \in Ids /\ h[Place(h)].kind = "none"
<1> DEFINE S == {i \in Ids : h[i].kind = "none"}
<1>1. S # {} /\ S \subseteq Nat /\ S \subseteq Ids
  BY IdsFacts DEF HasRoom
<1> HIDE DEF S
<1>2. PICK i \in S : \A j \in S : <<j, i>> \notin OpToRel(<, Nat)
  BY <1>1, WFMin, NatLessThanWellFounded, Zenon
<1>3. i \in Ids /\ h[i].kind = "none" /\ \A j \in S : ~(j < i)
  BY <1>1, <1>2 DEF OpToRel, S
<1>4. \A j \in 1 .. i - 1 : j \in Ids /\ j < i
  BY <1>3, SizesAssumption DEF Ids
<1>5. \A j \in 1 .. i - 1 : h[j].kind # "none"
  BY <1>3, <1>4 DEF S
<1> QED BY <1>3, <1>5 DEF Place

LEMMA NewSound ==
  ASSUME NEW h, NEW X \in [Ids -> Nat], NEW L, Sound(h, X, L), MaxTags < TagLimit,
         HasRoom(h), NEW kind \in Kinds, kind # "view", NEW base \in Value, MayHold(h, base),
         IF Keeps(kind) THEN base \in Ids /\ h[base].kind # "none" ELSE base = Null,
         NEW Y \in [Ids -> Nat], \A i \in Ids : Y[i] = X[i] + Is(Place(h), i)
  PROVE  /\ Sound(New(h, kind, base), Y, L)
         /\ \A i \in Ids : h[i].kind # "none" =>
              /\ New(h, kind, base)[i].kind = h[i].kind /\ New(h, kind, base)[i].base = h[i].base
              /\ New(h, kind, base)[i].entries = h[i].entries
         /\ Place(h) \in Ids /\ New(h, kind, base)[Place(h)].kind = kind
         /\ New(h, kind, base)[Place(h)].base = base
<1> DEFINE p == Place(h)
<1> DEFINE m == IF Keeps(kind) THEN Retain(h, base) ELSE h
<1> DEFINE Z == [i \in Ids |-> X[i] + (IF Keeps(kind) THEN Is(base, i) ELSE 0)]
<1> DEFINE c == Fresh(kind, base)
<1> DEFINE g == [m EXCEPT ![p] = c]
<1>1. p \in Ids /\ h[p].kind = "none"
  BY PlaceFree
<1>2. Z \in [Ids -> Nat]
  BY IsType
<1>3. /\ Sound(m, Z, L)
      /\ \A i \in Ids : m[i].kind = h[i].kind /\ m[i].base = h[i].base /\ m[i].entries = h[i].entries
  <2>1. CASE Keeps(kind)
    <3>1. \A i \in Ids : Z[i] = X[i] + Is(base, i)
      BY <2>1
    <3> HIDE DEF Z
    <3>2. m = Retain(h, base)
      BY <2>1
    <3> QED BY <1>2, <2>1, <3>1, <3>2, RetainSound
  <2>2. CASE ~Keeps(kind)
    <3>1. Z = X
      BY <2>2
    <3>2. m = h
      BY <2>2
    <3> HIDE DEF Z, m
    <3> QED BY <3>1, <3>2
  <2> QED BY <2>1, <2>2
<1>4. c \in Cell /\ c.kind = kind /\ c.tags = 1 /\ ~c.pinned /\ c.base = base /\ c.entries = NoEntries
  <2>1. c = [kind |-> kind, tags |-> 1, pinned |-> FALSE, base |-> base, entries |-> NoEntries]
    BY DEF Fresh
  <2>2. 1 \in 0 .. TagLimit - 1 /\ NoEntries \in [Keys -> Value]
    BY KeyFacts, SizesAssumption
  <2> QED BY <2>1, <2>2 DEF Cell
<1>5. kind # "none" /\ New(h, kind, base) = g
  BY DEF New, Kinds, Std
<1>6. Z[p] = X[p] + (IF Keeps(kind) THEN Is(base, p) ELSE 0) /\ \A i \in Ids : Z[i] = X[i] + (IF Keeps(kind) THEN Is(base, i) ELSE 0)
  BY <1>1
<1> HIDE DEF Z, m, c
<1>7. m \in [Ids -> Cell] /\ g \in [Ids -> Cell] /\ g[p] = c /\ \A i \in Ids \ {p} : g[i] = m[i]
  BY <1>1, <1>3, <1>4 DEF Sound
<1>8. m[p] = Free /\ Z[p] = 0 /\ Owned(m, Ids, p) = 0 /\ p \notin L
  BY <1>1, <1>2, <1>3, SoundCell
<1>9. base # p /\ Keeps(c.kind) = Keeps(kind)
  BY <1>1, <1>4, IdsFacts
<1>10. ASSUME NEW i \in Ids
       PROVE  Owned(g, Ids, i) = Owned(m, Ids, i) + (IF Keeps(kind) THEN Is(base, i) ELSE 0)
  <2>1. Owned(g, Ids, i) = Owned(m, Ids, i) - Owned(m, {p}, i) + Owned(g, {p}, i)
    <3> HIDE DEF p, g
    <3> QED BY <1>1, <1>7, OwnedChange
  <2>2. Owned(m, {p}, i) = 0
    <3>1. ~Keeps(Free.kind) /\ \A k \in Keys : Free.entries[k] # i
      BY KeyFacts, IdsFacts DEF Keeps
    <3> QED BY <1>1, <1>8, <3>1, OwnedByNone
  <2>3. Count(NoEntries, i) = 0
    <3>1. {x \in DOMAIN NoEntries : NoEntries[x] = i} = {}
      BY KeyFacts, IdsFacts
    <3> QED BY <3>1, FS_EmptySet DEF Count
  <2>4. Owned(g, {p}, i) = (IF Keeps(kind) THEN Is(base, i) ELSE 0) + Count(NoEntries, i)
    BY <1>1, <1>4, <1>7, OwnedByOne
  <2>5. Owned(m, Ids, i) \in Nat /\ Is(base, i) \in {0, 1}
    BY OwnedParts, IsType
  <2> QED BY <2>1, <2>2, <2>3, <2>4, <2>5
<1>11. ASSUME NEW i \in Ids PROVE CellOK(g[i], Y[i] + Owned(g, Ids, i), i \in L)
  <2>1. CASE i = p
    <3>1. Y[i] = X[i] + 1 /\ X[i] = 0
      <4>1. Is(p, i) = 1 /\ X[i] \in Nat /\ Is(base, p) \in {0, 1}
        BY <2>1, IsType
      <4> QED BY <1>6, <1>8, <2>1, <4>1
    <3>2. Owned(g, Ids, i) = 0
      <4>1. Is(base, p) = 0 /\ Owned(m, Ids, p) = 0
        BY <1>8, <1>9 DEF Is
      <4>2. Owned(g, Ids, p) = Owned(m, Ids, p) + (IF Keeps(kind) THEN Is(base, p) ELSE 0)
        BY <1>10, <2>1
      <4> QED BY <2>1, <4>1, <4>2
    <3> QED BY <1>4, <1>5, <1>7, <1>8, <2>1, <3>1, <3>2 DEF CellOK
  <2>2. CASE i # p
    <3>1. Y[i] = X[i]
      BY <2>2 DEF Is
    <3>2. CellOK(m[i], Z[i] + Owned(m, Ids, i), i \in L)
      BY <1>2, <1>3, SoundCell
    <3>3. Y[i] + Owned(g, Ids, i) = Z[i] + Owned(m, Ids, i)
      <4>1. X[i] \in Nat /\ Owned(m, Ids, i) \in Nat /\ Is(base, i) \in {0, 1}
        BY OwnedParts, IsType
      <4>2. Z[i] = X[i] + (IF Keeps(kind) THEN Is(base, i) ELSE 0)
        BY <1>6
      <4>3. Owned(g, Ids, i) = Owned(m, Ids, i) + (IF Keeps(kind) THEN Is(base, i) ELSE 0)
        BY <1>10
      <4> QED BY <3>1, <4>1, <4>2, <4>3
    <3> QED BY <1>7, <2>2, <3>2, <3>3
  <2> QED BY <2>1, <2>2
<1>12. Sound(g, Y, L)
  BY <1>3, <1>7, <1>11 DEF Sound
<1>13. \A i \in Ids : h[i].kind # "none" => g[i].kind = h[i].kind /\ g[i].base = h[i].base /\ g[i].entries = h[i].entries
  BY <1>1, <1>3, <1>7
<1> QED BY <1>1, <1>4, <1>5, <1>7, <1>12, <1>13

LEMMA ReleaseSound ==
  ASSUME NEW h, NEW X \in [Ids -> Nat], NEW L, Sound(h, X, L),
         NEW vs, IsFiniteSet(DOMAIN vs),
         NEW Y \in [Ids -> Nat], \A i \in Ids : Y[i] = X[i] - Count(vs, i)
  PROVE  /\ Sound(ReleaseAll(h, vs), Y, L)
         /\ \A i \in Ids : ReleaseAll(h, vs)[i].kind # "none" =>
              /\ ReleaseAll(h, vs)[i].kind = h[i].kind /\ ReleaseAll(h, vs)[i].base = h[i].base
              /\ ReleaseAll(h, vs)[i].entries = h[i].entries
<1> DEFINE D == Garbage(h, vs)
<1> DEFINE T(C) == {j \in Ids : LastTag(h, vs, C, j)}
<1> DEFINE g == ReleaseAll(h, vs)
<1>1. h \in [Ids -> Cell] /\ \A i \in Ids : Count(vs, i) \in Nat
  BY CountType DEF Sound
<1>2. \A C \in SUBSET Ids, i \in Ids : Released(h, vs, C, i) = Count(vs, i) + Owned(h, C, i) /\ Released(h, vs, C, i) \in Nat
  BY <1>1, OwnedParts DEF Released
<1>3. ASSUME NEW E \in SUBSET Ids, NEW C \in SUBSET E PROVE T(C) \subseteq T(E)
  <2>1. SUFFICES ASSUME NEW j \in T(C) PROVE LastTag(h, vs, E, j)
    OBVIOUS
  <2>2. Owned(h, C, j) =< Owned(h, E, j) /\ Owned(h, C, j) \in Nat /\ Owned(h, E, j) \in Nat
    BY OwnedMonotone, OwnedParts
  <2>3. Released(h, vs, C, j) =< Released(h, vs, E, j) /\ Released(h, vs, E, j) \in Nat /\ Released(h, vs, C, j) \in Nat
    BY <1>1, <1>2, <2>2
  <2>4. Counted(h, j) /\ h[j].tags \in 1 .. Released(h, vs, C, j)
    BY DEF LastTag
  <2>5. h[j].tags \in 1 .. Released(h, vs, E, j)
    BY <2>3, <2>4
  <2> QED BY <2>4, <2>5 DEF LastTag
<1>4. D \in SUBSET Ids /\ \A C \in SUBSET Ids : T(C) \subseteq C => D \subseteq C
  BY DEF Garbage
<1>5. T(D) \subseteq D
  <2>1. SUFFICES ASSUME NEW j \in T(D), NEW C \in SUBSET Ids, T(C) \subseteq C PROVE j \in C
    BY DEF Garbage
  <2>2. D \subseteq C
    BY <1>4, <2>1
  <2>3. T(D) \subseteq T(C)
    BY <1>3, <2>2
  <2> QED BY <2>1, <2>3
<1>6. D \subseteq T(D)
  <2>1. T(D) \in SUBSET Ids
    OBVIOUS
  <2>2. T(T(D)) \subseteq T(D)
    BY <1>3, <1>4, <1>5
  <2> QED BY <1>4, <2>1, <2>2
<1>7. \A i \in Ids : i \in D <=> LastTag(h, vs, D, i)
  BY <1>5, <1>6
<1>8. g = [i \in Ids |-> IF i \in D THEN Free
                         ELSE IF Counted(h, i) /\ h[i].kind # "none"
                         THEN [h[i] EXCEPT !.tags = (@ - Released(h, vs, D, i)) % TagLimit]
                         ELSE h[i]]
  BY DEF ReleaseAll
<1> HIDE DEF D, T, g
(* Every reference to a value that is freed is released. *)
<1>9. ASSUME NEW i \in Ids
      PROVE  /\ Owned(h, D, i) \in Nat /\ Owned(h, D, i) =< Owned(h, Ids, i) /\ X[i] \in Nat /\ Owned(h, Ids, i) \in Nat
             /\ Y[i] = X[i] - Count(vs, i) /\ Y[i] \in Nat /\ Count(vs, i) \in Nat
             /\ Released(h, vs, D, i) = Count(vs, i) + Owned(h, D, i)
             /\ Released(h, vs, D, i) =< X[i] + Owned(h, Ids, i)
  <2>1. Owned(h, D, i) =< Owned(h, Ids, i) /\ Owned(h, D, i) \in Nat /\ Owned(h, Ids, i) \in Nat
    BY <1>4, OwnedMonotone, OwnedParts
  <2>2. X[i] \in Nat /\ Y[i] \in Nat /\ Y[i] = X[i] - Count(vs, i) /\ Count(vs, i) \in Nat
    BY <1>1
  <2>3. Released(h, vs, D, i) = Count(vs, i) + Owned(h, D, i)
    BY <1>2, <1>4
  <2> QED BY <2>1, <2>2, <2>3
<1>10. ASSUME NEW i \in D
       PROVE  Y[i] = 0 /\ Owned(h, D, i) = Owned(h, Ids, i) /\ i \notin L
  <2>1. i \in Ids /\ h[i].tags \in 1 .. Released(h, vs, D, i)
    BY <1>4, <1>7 DEF LastTag
  <2>2. h[i].kind # "none"
    <3>1. h[i].tags # 0
      BY <1>9, <2>1
    <3>2. h[i].kind = "none" => h[i] = Free
      BY <2>1, SoundCell
    <3> QED BY <3>1, <3>2, KeyFacts
  <2>3. CellOK(h[i], X[i] + Owned(h, Ids, i), i \in L) /\ h[i].tags \in Nat
    BY <2>1, SoundCell
  <2>4. h[i].tags = X[i] + Owned(h, Ids, i) /\ i \notin L
    <3>1. Released(h, vs, D, i) =< X[i] + Owned(h, Ids, i) /\ Released(h, vs, D, i) \in Int /\ X[i] + Owned(h, Ids, i) \in Int
      BY <1>9, <2>1
    <3>2. h[i].tags =< X[i] + Owned(h, Ids, i)
      BY <2>1, <2>3, <3>1
    <3> QED BY <2>2, <2>3, <3>1, <3>2 DEF CellOK
  <2>5. /\ Owned(h, D, i) \in Nat /\ Owned(h, D, i) =< Owned(h, Ids, i) /\ X[i] \in Nat /\ Owned(h, Ids, i) \in Nat
        /\ Y[i] = X[i] - Count(vs, i) /\ Y[i] \in Nat /\ Count(vs, i) \in Nat
        /\ Released(h, vs, D, i) = Count(vs, i) + Owned(h, D, i)
    BY <1>9, <2>1
  <2>6. h[i].tags =< Count(vs, i) + Owned(h, D, i)
    BY <2>1, <2>3, <2>5
  <2> QED BY <2>4, <2>5, <2>6
<1>11. ASSUME NEW i \in Ids
       PROVE  Owned(g, Ids, i) = Owned(h, Ids, i) - Owned(h, D, i)
  <2> DEFINE E == Ids \ D
  <2>1. E \in SUBSET Ids /\ D \in SUBSET Ids /\ E \cap D = {} /\ Ids = E \cup D
    BY <1>4
  <2>2. Owned(h, E, i) = Owned(h, Ids, i) - Owned(h, D, i)
    BY <1>4, OwnedMonotone
  <2>3. Owned(g, D, i) = 0
    <3>1. \A c \in D : g[c] = Free
      BY <1>4, <1>8
    <3>2. ~Keeps(Free.kind) /\ \A k \in Keys : Free.entries[k] # i
      BY KeyFacts, IdsFacts DEF Keeps
    <3> QED BY <1>4, <3>1, <3>2, OwnedByNone
  <2>4. Owned(g, E, i) = Owned(h, E, i)
    <3>1. \A c \in E : g[c].kind = h[c].kind /\ g[c].base = h[c].base /\ g[c].entries = h[c].entries
      BY <1>1, <1>8 DEF Cell
    <3> HIDE DEF E
    <3> QED BY <3>1, OwnedSame
  <2> HIDE DEF E
  <2>5. Owned(g, E \cup D, i) = Owned(g, E, i) + Owned(g, D, i)
    BY <2>1, OwnedUnion
  <2>6. Owned(g, Ids, i) = Owned(g, E \cup D, i)
    BY <2>1
  <2>7. Owned(h, E, i) \in Nat
    BY <2>1, OwnedParts
  <2> QED BY <2>2, <2>3, <2>4, <2>5, <2>6, <2>7
<1>12. ASSUME NEW i \in Ids, i \notin D, h[i].kind # "none"
       PROVE  /\ g[i] = [h[i] EXCEPT !.tags = h[i].tags - Released(h, vs, D, i)]
              /\ h[i].tags - Released(h, vs, D, i) >= 1
              /\ g[i] \in Cell
  <2>1. Counted(h, i) /\ h[i].tags >= 1 /\ h[i].tags \in 0 .. TagLimit - 1 /\ h[i] \in Cell
    BY <1>12, SoundCell, CellFields
  <2>2. ~(h[i].tags \in 1 .. Released(h, vs, D, i))
    BY <1>7, <1>12, <2>1 DEF LastTag
  <2>3. h[i].tags - Released(h, vs, D, i) >= 1 /\ h[i].tags - Released(h, vs, D, i) \in 0 .. TagLimit - 1
    BY <1>9, <2>1, <2>2, SizesAssumption
  <2>4. (h[i].tags - Released(h, vs, D, i)) % TagLimit = h[i].tags - Released(h, vs, D, i)
    <3>1. \A a, b \in Nat : a < b => a % b = a
      OBVIOUS
    <3> QED BY <2>3, <3>1, SizesAssumption
  <2>5. g[i] = [h[i] EXCEPT !.tags = h[i].tags - Released(h, vs, D, i)]
    BY <1>8, <1>12, <2>1, <2>4
  <2>6. [h[i] EXCEPT !.tags = h[i].tags - Released(h, vs, D, i)] \in Cell
    BY <2>1, <2>3 DEF Cell
  <2> QED BY <2>3, <2>5, <2>6
<1>13. ASSUME NEW i \in Ids PROVE CellOK(g[i], Y[i] + Owned(g, Ids, i), i \in L) /\ g[i] \in Cell
  <2>1. CellOK(h[i], X[i] + Owned(h, Ids, i), i \in L) /\ h[i].tags \in Nat /\ h[i] \in Cell
    BY SoundCell
  <2>2. CASE i \in D
    <3>1. g[i] = Free /\ Y[i] + Owned(g, Ids, i) = 0 /\ i \notin L
      BY <1>8, <1>9, <1>10, <1>11, <2>2
    <3> QED BY <3>1, KeyFacts DEF CellOK, Keeps
  <2>3. CASE i \notin D /\ h[i].kind = "none"
    <3>1. g[i] = h[i]
      BY <1>8, <2>3
    <3>2. X[i] = 0 /\ Owned(h, Ids, i) = 0
      BY <2>3, SoundCell
    <3>3. Y[i] + Owned(g, Ids, i) = X[i] + Owned(h, Ids, i)
      BY <1>9, <1>11, <3>2
    <3> QED BY <2>1, <3>1, <3>3
  <2>4. CASE i \notin D /\ h[i].kind # "none"
    <3>1. /\ g[i] = [h[i] EXCEPT !.tags = h[i].tags - Released(h, vs, D, i)]
          /\ h[i].tags - Released(h, vs, D, i) >= 1 /\ g[i] \in Cell
      BY <1>12, <2>4
    <3>2. /\ g[i].kind = h[i].kind /\ g[i].base = h[i].base /\ g[i].pinned = h[i].pinned
          /\ g[i].tags = h[i].tags - Released(h, vs, D, i)
      BY <2>1, <3>1 DEF Cell
    <3>3. Y[i] + Owned(g, Ids, i) = X[i] + Owned(h, Ids, i) - Released(h, vs, D, i)
      BY <1>9, <1>11
    <3>4. Released(h, vs, D, i) \in Nat
      BY <1>9
    <3> QED BY <1>9, <2>1, <2>4, <3>1, <3>2, <3>3, <3>4 DEF CellOK
  <2> QED BY <2>2, <2>3, <2>4
<1>14. g \in [Ids -> Cell]
  BY <1>8, <1>13
<1>15. Sound(g, Y, L)
  BY <1>13, <1>14 DEF Sound
<1>16. \A i \in Ids : g[i].kind # "none" => g[i].kind = h[i].kind /\ g[i].base = h[i].base /\ g[i].entries = h[i].entries
  BY <1>1, <1>8, KeyFacts DEF Cell
<1> QED BY <1>15, <1>16 DEF g

(* An entry is set: the value it referred to before is lost. *)
LEMMA PutSound ==
  ASSUME NEW h, NEW X \in [Ids -> Nat], NEW L, Sound(h, X, L), MaxTags < TagLimit,
         NEW d \in Ids, h[d].kind # "none", NEW k \in Keys,
         NEW v \in Value, MayHold(h, v), v \in Ids => h[v].kind # "none"
  PROVE  /\ Sound(PutEntry(h, d, k, v), X, L \cup CountedIn(h, <<h[d].entries[k]>>))
         /\ \A i \in Ids : PutEntry(h, d, k, v)[i].kind = h[i].kind /\ PutEntry(h, d, k, v)[i].base = h[i].base
<1> DEFINE old == h[d].entries[k]
<1> DEFINE m == Retain(h, v)
<1> DEFINE Z == [i \in Ids |-> X[i] + Is(v, i)]
<1> DEFINE g == PutEntry(h, d, k, v)
<1> DEFINE M == L \cup CountedIn(h, <<old>>)
<1>1. Z \in [Ids -> Nat] /\ \A i \in Ids : Z[i] = X[i] + Is(v, i)
  BY IsType
<1> HIDE DEF Z
<1>2. Sound(m, Z, L) /\ \A i \in Ids : m[i].kind = h[i].kind /\ m[i].base = h[i].base /\ m[i].entries = h[i].entries
  BY <1>1, RetainSound
<1>3. \A i \in Ids : Owned(m, Ids, i) = Owned(h, Ids, i)
  BY <1>1, RetainSound
<1>4. m \in [Ids -> Cell] /\ m[d] \in Cell /\ m[d].entries \in [Keys -> Value] /\ m[d].entries[k] = old
  BY <1>2, CellFields DEF Sound
<1> DEFINE ents == [m[d].entries EXCEPT ![k] = v]
<1> DEFINE c == [m[d] EXCEPT !.entries = ents]
<1>5. g = [m EXCEPT ![d] = c]
  BY <1>4 DEF PutEntry
<1> HIDE DEF m
<1>6. /\ c \in Cell /\ c.kind = m[d].kind /\ c.base = m[d].base /\ c.tags = m[d].tags /\ c.pinned = m[d].pinned
      /\ c.entries = ents
  BY <1>4 DEF Cell
<1> HIDE DEF c, g
<1>7. /\ g \in [Ids -> Cell] /\ \A i \in Ids \ {d} : g[i] = m[i]
      /\ g[d].kind = m[d].kind /\ g[d].base = m[d].base /\ g[d].tags = m[d].tags /\ g[d].pinned = m[d].pinned
      /\ g[d].entries = ents
  BY <1>4, <1>5, <1>6
<1>8. \A i \in Ids : h[i].pinned = FALSE /\ h[i] \in Cell
  BY SoundCell, CellFields
<1>9. \A i \in Ids : i \in M <=> i \in L \/ i = old
  BY <1>8 DEF CountedIn, Counted
<1>10. M \subseteq Ids /\ L \subseteq Ids
  BY DEF CountedIn, Counted, Sound
<1> HIDE DEF M, old
<1>11. ASSUME NEW i \in Ids
       PROVE  Owned(g, Ids, i) = Owned(m, Ids, i) - Is(old, i) + Is(v, i)
  <2>1. Owned(g, Ids, i) = Owned(m, Ids, i) - Owned(m, {d}, i) + Owned(g, {d}, i)
    BY <1>7, OwnedChange
  <2>2. Owned(m, {d}, i) = (IF Keeps(m[d].kind) THEN Is(m[d].base, i) ELSE 0) + Count(m[d].entries, i)
    BY <1>4, OwnedByOne
  <2>3. Owned(g, {d}, i) = (IF Keeps(m[d].kind) THEN Is(m[d].base, i) ELSE 0) + Count(g[d].entries, i)
    BY <1>7, OwnedByOne
  <2>4. Count(g[d].entries, i) = Count(m[d].entries, i) - Is(old, i) + Is(v, i)
    <3> DEFINE p == m[d].entries
    <3> DEFINE q == g[d].entries
    <3>1. p \in [Keys -> Value] /\ q = [p EXCEPT ![k] = v] /\ IsFiniteSet(Keys)
      BY <1>4, <1>7, SizesAssumption
    <3> HIDE DEF p, q
    <3>2. /\ IsFiniteSet(DOMAIN p) /\ DOMAIN q = DOMAIN p /\ k \in DOMAIN p /\ q[k] = v
          /\ \A x \in DOMAIN p : x # k => q[x] = p[x]
      BY <3>1
    <3>3. Count(q, i) = Count(p, i) - Is(p[k], i) + Is(q[k], i)
      BY <3>2, CountChanged
    <3> QED BY <1>4, <3>2, <3>3 DEF p, q
  <2>5. Count(m[d].entries, i) \in Nat
    <3>1. IsFiniteSet(DOMAIN m[d].entries)
      BY <1>4, SizesAssumption
    <3> QED BY <3>1, CountType
  <2>6. Is(old, i) \in {0, 1} /\ Is(v, i) \in {0, 1} /\ Is(m[d].base, i) \in {0, 1} /\ Owned(m, Ids, i) \in Nat
    BY IsType, OwnedParts
  <2> QED BY <2>1, <2>2, <2>3, <2>4, <2>5, <2>6
<1>12. ASSUME NEW i \in Ids PROVE CellOK(g[i], X[i] + Owned(g, Ids, i), i \in M)
  <2>1. CellOK(m[i], Z[i] + Owned(m, Ids, i), i \in L) /\ m[i].tags \in Nat /\ Owned(m, Ids, i) \in Nat
    BY <1>1, <1>2, SoundCell
  <2>2. X[i] + Owned(g, Ids, i) = Z[i] + Owned(m, Ids, i) - Is(old, i)
    BY <1>1, <1>11, <2>1, IsType
  <2>3. Z[i] + Owned(m, Ids, i) \in Nat /\ Z[i] \in Nat /\ X[i] \in Nat /\ Owned(g, Ids, i) \in Nat /\ Is(old, i) \in {0, 1}
    BY <1>1, <2>1, OwnedParts, IsType
  <2>4. g[i].kind = m[i].kind /\ g[i].base = m[i].base /\ g[i].tags = m[i].tags /\ g[i].pinned = m[i].pinned
    BY <1>7
  <2>5. CASE i # old
    <3>1. m[i].kind = "none" => g[i] = m[i]
      BY <1>2, <1>7
    <3>2. (i \in M <=> i \in L) /\ X[i] + Owned(g, Ids, i) = Z[i] + Owned(m, Ids, i)
      <4>1. Is(old, i) = 0
        BY <2>5, IsType
      <4>2. i \in M <=> i \in L
        BY <1>9, <2>5
      <4>3. X[i] + Owned(g, Ids, i) = Z[i] + Owned(m, Ids, i)
        BY <2>1, <2>2, <2>3, <4>1
      <4> QED BY <4>2, <4>3
    <3> QED BY <2>1, <2>4, <3>1, <3>2 DEF CellOK
  <2>6. CASE i = old
    <3>1. i \in M /\ X[i] + Owned(g, Ids, i) = Z[i] + Owned(m, Ids, i) - 1
      <4>1. Is(old, i) = 1
        BY <2>6, IsType
      <4> QED BY <1>9, <2>2, <2>6, <4>1
    <3>2. m[i].kind # "none"
      <4>1. m[d].entries[k] = i
        BY <1>4, <2>6
      <4> QED BY <1>1, <1>2, <4>1, Referred
    <3>3. /\ ~m[i].pinned /\ m[i].kind # "view" /\ m[i].tags >= 1 /\ m[i].tags >= Z[i] + Owned(m, Ids, i)
          /\ IF Keeps(m[i].kind) THEN m[i].base \in Ids ELSE m[i].base = Null
      BY <2>1, <2>3, <3>2 DEF CellOK
    <3>4. m[i].tags > X[i] + Owned(g, Ids, i)
      BY <2>1, <2>3, <3>1, <3>3
    <3> QED BY <2>4, <3>1, <3>2, <3>3, <3>4 DEF CellOK
  <2> QED BY <2>5, <2>6
<1>13. Sound(g, X, M)
  BY <1>7, <1>10, <1>12 DEF Sound
<1>14. \A i \in Ids : g[i].kind = h[i].kind /\ g[i].base = h[i].base
  BY <1>2, <1>7
<1> QED BY <1>13, <1>14 DEF M, g, old

-----------------------------------------------------------------------------
(* Steps of the heap, from h to g, with the outside references Y after it. *)
(* The values in P, which are referred to all the time, and those that     *)
(* were lost keep their kind and their origin, which keeps its kind too.   *)

Fixed(h, g, v) == /\ g[v].kind = h[v].kind /\ g[v].base = h[v].base
                  /\ Keeps(h[v].kind) => g[h[v].base].kind = h[h[v].base].kind
Step(h, L, g, Y, M, P) == /\ Sound(g, Y, M) /\ L \subseteq M
                          /\ \A v \in Ids : v \in P \/ v \in L => Fixed(h, g, v)

LEMMA OriginThere ==
  ASSUME NEW h, NEW X \in [Ids -> Nat], NEW L, Sound(h, X, L), NEW v \in Ids, X[v] >= 1 \/ v \in L
  PROVE  h[v].kind # "none" /\ (Keeps(h[v].kind) => h[v].base \in Ids /\ h[h[v].base].kind # "none")
<1>1. h[v].kind # "none"
  BY Referred
<1>2. ASSUME Keeps(h[v].kind) PROVE h[v].base \in Ids /\ h[h[v].base].kind # "none"
  <2>1. CellOK(h[v], X[v] + Owned(h, Ids, v), v \in L)
    BY SoundCell
  <2>2. h[v].base \in Ids
    BY <1>2, <2>1 DEF CellOK
  <2> QED BY <1>2, <2>2, Referred
<1> QED BY <1>1, <1>2

LEMMA SameStep ==
  ASSUME NEW h, NEW X \in [Ids -> Nat], NEW L, Sound(h, X, L),
         NEW Y \in [Ids -> Nat], \A i \in Ids : Y[i] = X[i], NEW P
  PROVE  Step(h, L, h, Y, L, P)
<1>1. Y = X
  OBVIOUS
<1> QED BY <1>1 DEF Step, Fixed

LEMMA DropStep ==
  ASSUME NEW h, NEW X \in [Ids -> Nat], NEW L, Sound(h, X, L), NEW Y \in [Ids -> Nat], NEW M, L \subseteq M, M \subseteq Ids,
         \A i \in Ids : Y[i] =< X[i] /\ (i \in M => i \in L \/ Y[i] < X[i]) /\ (Y[i] < X[i] => i \in M), NEW P
  PROVE  Step(h, L, h, Y, M, P)
<1>1. Sound(h, Y, M)
  BY DropSound
<1> QED BY <1>1 DEF Step, Fixed

LEMMA RetainStep ==
  ASSUME NEW h, NEW X \in [Ids -> Nat], NEW L, Sound(h, X, L), MaxTags < TagLimit,
         NEW v \in Value, MayHold(h, v), v \in Ids => h[v].kind # "none",
         NEW Y \in [Ids -> Nat], \A i \in Ids : Y[i] = X[i] + Is(v, i),
         NEW P, \A i \in Ids : i \in P => X[i] >= 1
  PROVE  Step(h, L, Retain(h, v), Y, L, P)
<1> DEFINE g == Retain(h, v)
<1>1. Sound(g, Y, L) /\ \A i \in Ids : g[i].kind = h[i].kind /\ g[i].base = h[i].base
  BY RetainSound
<1> HIDE DEF g
<1>2. ASSUME NEW u \in Ids, u \in P \/ u \in L PROVE Fixed(h, g, u)
  BY <1>1, <1>2, OriginThere DEF Fixed
<1> QED BY <1>1, <1>2 DEF Step, g

LEMMA NewStep ==
  ASSUME NEW h, NEW X \in [Ids -> Nat], NEW L, Sound(h, X, L), MaxTags < TagLimit,
         HasRoom(h), NEW kind \in Kinds, kind # "view", NEW base \in Value, MayHold(h, base),
         IF Keeps(kind) THEN base \in Ids /\ h[base].kind # "none" ELSE base = Null,
         NEW Y \in [Ids -> Nat], \A i \in Ids : Y[i] = X[i] + Is(Place(h), i),
         NEW P, \A i \in Ids : i \in P => X[i] >= 1
  PROVE  Step(h, L, New(h, kind, base), Y, L, P)
<1> DEFINE g == New(h, kind, base)
<1>1. /\ Sound(g, Y, L)
      /\ \A i \in Ids : h[i].kind # "none" => g[i].kind = h[i].kind /\ g[i].base = h[i].base
  BY NewSound
<1> HIDE DEF g
<1>2. ASSUME NEW u \in Ids, u \in P \/ u \in L PROVE Fixed(h, g, u)
  BY <1>1, <1>2, OriginThere DEF Fixed
<1> QED BY <1>1, <1>2 DEF Step, g

LEMMA ReleaseStep ==
  ASSUME NEW h, NEW X \in [Ids -> Nat], NEW L, Sound(h, X, L),
         NEW vs, IsFiniteSet(DOMAIN vs),
         NEW Y \in [Ids -> Nat], \A i \in Ids : Y[i] = X[i] - Count(vs, i),
         NEW P, \A i \in Ids : i \in P => Y[i] >= 1
  PROVE  Step(h, L, ReleaseAll(h, vs), Y, L, P)
<1> DEFINE g == ReleaseAll(h, vs)
<1>1. /\ Sound(g, Y, L)
      /\ \A i \in Ids : g[i].kind # "none" => g[i].kind = h[i].kind /\ g[i].base = h[i].base
  BY ReleaseSound
<1> HIDE DEF g
<1>2. ASSUME NEW u \in Ids, u \in P \/ u \in L PROVE Fixed(h, g, u)
  <2>1. g[u].kind # "none" /\ (Keeps(g[u].kind) => g[u].base \in Ids /\ g[g[u].base].kind # "none")
    BY <1>1, <1>2, OriginThere
  <2> QED BY <1>1, <2>1 DEF Fixed
<1> QED BY <1>1, <1>2 DEF Step, g

LEMMA PutStep ==
  ASSUME NEW h, NEW X \in [Ids -> Nat], NEW L, Sound(h, X, L), MaxTags < TagLimit,
         NEW d \in Ids, h[d].kind # "none", NEW k \in Keys,
         NEW v \in Value, MayHold(h, v), v \in Ids => h[v].kind # "none",
         NEW P, \A i \in Ids : i \in P => X[i] >= 1
  PROVE  Step(h, L, PutEntry(h, d, k, v), X, L \cup CountedIn(h, <<h[d].entries[k]>>), P)
<1> DEFINE g == PutEntry(h, d, k, v)
<1> DEFINE M == L \cup CountedIn(h, <<h[d].entries[k]>>)
<1>1. /\ Sound(PutEntry(h, d, k, v), X, L \cup CountedIn(h, <<h[d].entries[k]>>))
      /\ \A i \in Ids : PutEntry(h, d, k, v)[i].kind = h[i].kind /\ PutEntry(h, d, k, v)[i].base = h[i].base
  BY PutSound, ZenonT(60)
<1>2. Sound(g, X, M) /\ (\A i \in Ids : g[i].kind = h[i].kind /\ g[i].base = h[i].base) /\ L \subseteq M
  BY <1>1
<1> HIDE DEF g, M
<1>3. ASSUME NEW u \in Ids, u \in P \/ u \in L PROVE Fixed(h, g, u)
  BY <1>2, <1>3, OriginThere DEF Fixed
<1>4. Step(h, L, g, X, M, P)
  BY <1>2, <1>3 DEF Step
<1> QED BY <1>4 DEF g, M

LEMMA TwoSteps ==
  ASSUME NEW h, NEW L, NEW g, NEW Y, NEW M, NEW P, Step(h, L, g, Y, M, P),
         NEW k, NEW Z, NEW N, Step(g, M, k, Z, N, P)
  PROVE  Step(h, L, k, Z, N, P)
<1>1. ASSUME NEW v \in Ids, v \in P \/ v \in L PROVE Fixed(h, k, v)
  <2>1. Fixed(h, g, v) /\ Fixed(g, k, v)
    BY <1>1 DEF Step
  <2> QED BY <2>1 DEF Fixed
<1> QED BY <1>1 DEF Step

LEMMA NewReleaseStep ==
  ASSUME NEW h, NEW X \in [Ids -> Nat], NEW L, Sound(h, X, L), MaxTags < TagLimit,
         HasRoom(h), NEW kind \in Kinds, kind # "view", NEW base \in Value, MayHold(h, base),
         IF Keeps(kind) THEN base \in Ids /\ h[base].kind # "none" ELSE base = Null,
         NEW vs, IsFiniteSet(DOMAIN vs), \A i \in Ids : Count(vs, i) =< X[i],
         NEW Y \in [Ids -> Nat], \A i \in Ids : Y[i] = X[i] - Count(vs, i) + Is(Place(h), i),
         NEW P, \A i \in Ids : i \in P => X[i] >= 1 /\ Y[i] >= 1
  PROVE  Step(h, L, ReleaseAll(New(h, kind, base), vs), Y, L, P)
<1> DEFINE Z == [i \in Ids |-> X[i] + Is(Place(h), i)]
<1> DEFINE g == New(h, kind, base)
<1>1. \A i \in Ids : X[i] \in Nat /\ Count(vs, i) \in Nat /\ Is(Place(h), i) \in {0, 1}
  BY CountType, IsType
<1>2. Z \in [Ids -> Nat] /\ \A i \in Ids : Z[i] = X[i] + Is(Place(h), i)
  BY <1>1
<1> HIDE DEF Z
<1>3. Step(h, L, New(h, kind, base), Z, L, P)
  BY <1>2, NewStep
<1>4. Sound(g, Z, L)
  BY <1>3 DEF Step
<1>5. \A i \in Ids : Y[i] = Z[i] - Count(vs, i)
  BY <1>1, <1>2
<1>6. Step(h, L, g, Z, L, P)
  BY <1>3
<1> HIDE DEF g
<1>7. Step(g, L, ReleaseAll(g, vs), Y, L, P)
  BY <1>2, <1>4, <1>5, ReleaseStep
<1>8. Step(h, L, ReleaseAll(g, vs), Y, L, P)
  BY <1>6, <1>7, TwoSteps
<1> QED BY <1>8 DEF g

LEMMA RetainReleaseStep ==
  ASSUME NEW h, NEW X \in [Ids -> Nat], NEW L, Sound(h, X, L), MaxTags < TagLimit,
         NEW v \in Value, MayHold(h, v), v \in Ids => h[v].kind # "none",
         NEW vs, IsFiniteSet(DOMAIN vs), \A i \in Ids : Count(vs, i) =< X[i],
         NEW Y \in [Ids -> Nat], \A i \in Ids : Y[i] = X[i] - Count(vs, i) + Is(v, i),
         NEW P, \A i \in Ids : i \in P => X[i] >= 1 /\ Y[i] >= 1
  PROVE  Step(h, L, ReleaseAll(Retain(h, v), vs), Y, L, P)
<1> DEFINE Z == [i \in Ids |-> X[i] + Is(v, i)]
<1> DEFINE g == Retain(h, v)
<1>1. \A i \in Ids : X[i] \in Nat /\ Count(vs, i) \in Nat /\ Is(v, i) \in {0, 1}
  BY CountType, IsType
<1>2. Z \in [Ids -> Nat] /\ \A i \in Ids : Z[i] = X[i] + Is(v, i)
  BY <1>1
<1> HIDE DEF Z
<1>3. Step(h, L, g, Z, L, P)
  BY <1>2, RetainStep
<1>4. Sound(g, Z, L)
  BY <1>3 DEF Step
<1>5. \A i \in Ids : Y[i] = Z[i] - Count(vs, i)
  BY <1>1, <1>2
<1> HIDE DEF g
<1>6. Step(g, L, ReleaseAll(g, vs), Y, L, P)
  BY <1>2, <1>4, <1>5, ReleaseStep
<1>7. Step(h, L, ReleaseAll(g, vs), Y, L, P)
  BY <1>3, <1>6, TwoSteps
<1> QED BY <1>7 DEF g

LEMMA PutReleaseStep ==
  ASSUME NEW h, NEW X \in [Ids -> Nat], NEW L, Sound(h, X, L), MaxTags < TagLimit,
         NEW d \in Ids, h[d].kind # "none", NEW k \in Keys,
         NEW v \in Value, MayHold(h, v), v \in Ids => h[v].kind # "none",
         NEW vs, IsFiniteSet(DOMAIN vs),
         NEW Y \in [Ids -> Nat], \A i \in Ids : Y[i] = X[i] - Count(vs, i),
         NEW P, \A i \in Ids : i \in P => X[i] >= 1 /\ Y[i] >= 1
  PROVE  Step(h, L, ReleaseAll(PutEntry(h, d, k, v), vs), Y, L \cup CountedIn(h, <<h[d].entries[k]>>), P)
<1> DEFINE M == L \cup CountedIn(h, <<h[d].entries[k]>>)
<1> DEFINE g == PutEntry(h, d, k, v)
<1>1. Step(h, L, g, X, M, P)
  BY PutStep
<1>2. Sound(g, X, M)
  BY <1>1 DEF Step
<1> HIDE DEF g, M
<1>3. Step(g, M, ReleaseAll(g, vs), Y, M, P)
  BY <1>2, ReleaseStep
<1>4. Step(h, L, ReleaseAll(g, vs), Y, M, P)
  BY <1>1, <1>3, TwoSteps
<1> QED BY <1>4 DEF g, M

LEMMA ReleaseNewStep ==
  ASSUME NEW h, NEW X \in [Ids -> Nat], NEW L, Sound(h, X, L), MaxTags < TagLimit,
         NEW vs, IsFiniteSet(DOMAIN vs), \A i \in Ids : Count(vs, i) =< X[i],
         HasRoom(ReleaseAll(h, vs)), NEW kind \in Kinds, kind # "view", ~Keeps(kind),
         NEW Y \in [Ids -> Nat], \A i \in Ids : Y[i] = X[i] - Count(vs, i) + Is(Place(ReleaseAll(h, vs)), i),
         NEW P, \A i \in Ids : i \in P => X[i] - Count(vs, i) >= 1
  PROVE  Step(h, L, New(ReleaseAll(h, vs), kind, Null), Y, L, P)
<1> DEFINE Z == [i \in Ids |-> X[i] - Count(vs, i)]
<1> DEFINE g == ReleaseAll(h, vs)
<1>1. \A i \in Ids : X[i] \in Nat /\ Count(vs, i) \in Nat /\ Is(Place(g), i) \in {0, 1}
  BY CountType, IsType
<1>2. Z \in [Ids -> Nat] /\ \A i \in Ids : Z[i] = X[i] - Count(vs, i)
  BY <1>1
<1> HIDE DEF Z
<1>3. Step(h, L, g, Z, L, P)
  BY <1>2, ReleaseStep
<1>4. Sound(g, Z, L)
  BY <1>3 DEF Step
<1>5. Null \in Value /\ MayHold(g, Null) /\ HasRoom(g)
  BY IdsFacts DEF Value, MayHold, Counted
<1>6. (\A i \in Ids : Y[i] = Z[i] + Is(Place(g), i)) /\ \A i \in Ids : i \in P => Z[i] >= 1
  BY <1>1, <1>2
<1> HIDE DEF g
<1>7. Step(g, L, New(g, kind, Null), Y, L, P)
  BY <1>2, <1>4, <1>5, <1>6, NewStep
<1>8. Step(h, L, New(g, kind, Null), Y, L, P)
  BY <1>3, <1>7, TwoSteps
<1> QED BY <1>8 DEF g

-----------------------------------------------------------------------------
(* The stack in a step: what stays below, and what comes upon it.          *)

HeldIn(s) == {v \in Ids : InStack(s, v) >= 1}

LEMMA BelowKept ==
  ASSUME NEW s, NEW h, NEW L, StackOK(s, h, L), NEW b \in Seq(Frame), Len(b) =< Len(s),
         \A d \in 1 .. Len(b) : b[d] = s[d],
         NEW g, NEW Y, NEW M, Step(h, L, g, Y, M, HeldIn(b))
  PROVE  StackOK(b, g, M)
<1>1. s \in Seq(Frame) /\ Len(s) =< MaxFrames /\ Len(b) \in Nat /\ Len(s) \in Nat /\ MaxFrames \in Nat
  BY SizesAssumption DEF StackOK
<1>2. L \subseteq M /\ \A v \in Ids : v \in HeldIn(b) \/ v \in L => Fixed(h, g, v)
  BY DEF Step
<1>3. ASSUME NEW d \in 1 .. Len(b) PROVE Sits(b, g, M, d)
  <2>1. Sits(s, h, L, d) /\ b[d] = s[d] /\ d \in Nat /\ \A e \in 1 .. d : b[e] = s[e] /\ e \in 1 .. Len(b)
    BY <1>1 DEF StackOK
  <2>2. d > 1 => b[d - 1] = s[d - 1] /\ d - 1 \in 1 .. Len(b)
    BY <1>1, <2>1
  <2>3. ASSUME NEW v \in Ids, HeldBelow(s, L, d, v)
        PROVE  HeldBelow(b, M, d, v) /\ Fixed(h, g, v)
    <3>1. CASE v \in L
      BY <1>2, <3>1 DEF HeldBelow
    <3>2. CASE v \notin L
      <4>1. PICK e \in 1 .. d - 1 : \E j \in DOMAIN Holds(s[e]) : Holds(s[e])[j] = v
        BY <2>3, <3>2 DEF HeldBelow
      <4>2. e \in 1 .. d /\ e \in 1 .. Len(b) /\ b[e] = s[e]
        BY <2>1
      <4>3. HeldBelow(b, M, d, v)
        BY <4>1, <4>2 DEF HeldBelow
      <4>4. v \in HeldIn(b)
        BY <4>1, <4>2, InAtLeast DEF HeldIn
      <4> QED BY <1>2, <4>3, <4>4
    <3> QED BY <3>1, <3>2
  <2>4. b[d].k = "args" => Belongs(b, g, M, d)
    <3>1. SUFFICES ASSUME b[d].k = "args", Belongs(s, h, L, d) PROVE Belongs(b, g, M, d)
      BY <2>1 DEF Sits
    <3>2. CASE b[d].of = Null /\ b[d].class \in Std
      BY <3>2 DEF Belongs
    <3>3. CASE ~(b[d].of = Null /\ b[d].class \in Std)
      <4>1. b[d].of \in Ids /\ h[b[d].of].kind = b[d].class
        BY <2>1, <3>1, <3>3 DEF Belongs
      <4>2. PICK v \in Ids : (v = b[d].of \/ (Keeps(h[v].kind) /\ h[v].base = b[d].of)) /\ HeldBelow(s, L, d, v)
        BY <2>1, <3>1, <3>3 DEF Belongs
      <4>3. HeldBelow(b, M, d, v) /\ Fixed(h, g, v)
        BY <2>3, <4>2
      <4>4. g[b[d].of].kind = b[d].class /\ (v = b[d].of \/ (Keeps(g[v].kind) /\ g[v].base = b[d].of))
        BY <4>1, <4>2, <4>3 DEF Fixed
      <4> QED BY <4>1, <4>3, <4>4 DEF Belongs
    <3> QED BY <3>2, <3>3
  <2>8. d > 1 /\ b[d - 1].k = "call" /\ ~b[d - 1].body => b[d].k = "eval" /\ ~b[d].ret
    BY <2>1, <2>2 DEF Sits
  <2>5. b[d].k = "setindex" => d > 1 /\ b[d - 1].k = "eval" /\ b[d - 1].opd = Null
    BY <2>1, <2>2 DEF Sits
  <2>6. b[d].k = "call" => d < MaxFrames
    BY <2>1 DEF Sits
  <2>7. ASSUME b[d].k = "loop"
        PROVE  /\ d > 1 /\ d < MaxFrames /\ b[d - 1].k = "args" /\ b[d - 1].got = <<b[d].f>>
               /\ CallableIn(g, b[d].f) /\ b[d].cond # <<>>
    <3>1. /\ d > 1 /\ d < MaxFrames /\ b[d - 1].k = "args" /\ b[d - 1].got = <<b[d].f>>
          /\ CallableIn(h, b[d].f) /\ b[d].cond # <<>>
      BY <2>1, <2>2, <2>7 DEF Sits
    <3>2. Holds(b[d - 1]) = <<b[d].f>>
      BY <3>1 DEF Holds
    <3>3. b[d].f \in Ids => b[d].f \in HeldIn(b)
      <4>1. 1 \in DOMAIN Holds(b[d - 1]) /\ Holds(b[d - 1])[1] = b[d].f
        BY <3>2
      <4> QED BY <2>2, <3>1, <4>1, InAtLeast DEF HeldIn
    <3>4. KindOf(g, b[d].f) = KindOf(h, b[d].f)
      BY <1>2, <3>3 DEF KindOf, Fixed
    <3> QED BY <3>1, <3>4 DEF CallableIn
  <2> QED BY <2>4, <2>5, <2>6, <2>7, <2>8 DEF Sits
<1> QED BY <1>1, <1>3 DEF StackOK

LEMMA Push ==
  ASSUME NEW b, NEW g, NEW M, StackOK(b, g, M), NEW f \in Frame, Len(b) < MaxFrames,
         NEW s, s = Append(b, f), Sits(s, g, M, Len(b) + 1)
  PROVE  StackOK(s, g, M) /\ s \in Seq(Frame) /\ Len(s) = Len(b) + 1
<1>1. /\ b \in Seq(Frame) /\ Len(b) \in Nat /\ MaxFrames \in Nat /\ s \in Seq(Frame) /\ Len(s) = Len(b) + 1
      /\ \A d \in 1 .. Len(b) : s[d] = b[d]
  BY SizesAssumption DEF StackOK
<1>2. ASSUME NEW d \in 1 .. Len(b) PROVE Sits(s, g, M, d)
  <2>1. Sits(b, g, M, d) /\ s[d] = b[d] /\ d \in Nat
    BY <1>1 DEF StackOK
  <2>2. d > 1 => s[d - 1] = b[d - 1]
    BY <1>1, <2>1
  <2>3. \A e \in 1 .. d - 1 : s[e] = b[e]
    BY <1>1, <2>1
  <2>4. Belongs(b, g, M, d) => Belongs(s, g, M, d)
    BY <2>1, <2>3 DEF Belongs, HeldBelow
  <2> QED BY <2>1, <2>2, <2>4 DEF Sits
<1>3. \A d \in 1 .. Len(s) : d \in 1 .. Len(b) \/ d = Len(b) + 1
  BY <1>1
<1> QED BY <1>1, <1>2, <1>3 DEF StackOK

LEMMA Upper ==
  ASSUME NEW b \in Seq(Frame), NEW f \in Frame, NEW s, s = Append(b, f), NEW d, d = Len(b) + 1
  PROVE  s[d] = f /\ (d > 1 /\ s[d - 1].k = "call" /\ ~s[d - 1].body => Discarding(b))
<1>1. Len(b) \in Nat /\ d - 1 = Len(b) /\ s[Len(b) + 1] = f /\ \A e \in 1 .. Len(b) : s[e] = b[e]
  OBVIOUS
<1>2. d > 1 => Len(b) \in 1 .. Len(b) /\ b # <<>>
  BY <1>1
<1>3. s[d] = f /\ (d > 1 => s[d - 1] = b[Len(b)] /\ b # <<>>)
  BY <1>1, <1>2
<1> QED BY <1>3 DEF Discarding

LEMMA EvalSits ==
  ASSUME NEW b \in Seq(Frame), NEW f \in EvalFrame, NEW g, NEW M, Discarding(b) => ~f.ret
  PROVE  f \in Frame /\ Sits(Append(b, f), g, M, Len(b) + 1)
<1> DEFINE s == Append(b, f)
<1> DEFINE d == Len(b) + 1
<1>1. f.k = "eval" /\ f \in Frame /\ s = Append(b, f) /\ d = Len(b) + 1
  BY DEF EvalFrame, Frame
<1> HIDE DEF s, d
<1>2. s[d] = f /\ (d > 1 /\ s[d - 1].k = "call" /\ ~s[d - 1].body => Discarding(b))
  BY <1>1, Upper
<1>3. Sits(s, g, M, d)
  BY <1>1, <1>2 DEF Sits
<1> QED BY <1>1, <1>3 DEF s, d

LEMMA NotDiscarding ==
  ASSUME NEW b \in Seq(Frame), NEW f, f.k # "call" \/ f.body
  PROVE  ~Discarding(Append(b, f))
  BY DEF Discarding

-----------------------------------------------------------------------------
(* The references from outside, frame by frame.                            *)

LEMMA ExtType ==
  ASSUME NEW vs \in [Vars -> Value], NEW s \in Seq(Frame), NEW v
  PROVE  /\ Ext(vs, s, v) \in [Ids -> Nat]
         /\ \A i \in Ids : /\ Ext(vs, s, v)[i] = Count(vs, i) + InStack(s, i) + Is(v, i)
                           /\ Count(vs, i) \in Nat /\ InStack(s, i) \in Nat /\ Is(v, i) \in {0, 1}
<1>1. ASSUME NEW i \in Ids PROVE Count(vs, i) \in Nat /\ InStack(s, i) \in Nat /\ Is(v, i) \in {0, 1}
  BY SizesAssumption, CountType, StackPlaces, IsType
<1>2. \A i \in Ids : Count(vs, i) + InStack(s, i) + Is(v, i) \in Nat
  BY <1>1
<1> QED BY <1>1, <1>2 DEF Ext

LEMMA ExtAppend ==
  ASSUME NEW vs \in [Vars -> Value], NEW s \in Seq(Frame), NEW f \in Frame, NEW v
  PROVE  /\ Append(s, f) \in Seq(Frame)
         /\ \A i \in Ids : /\ Held(f, i) \in Nat
                           /\ Ext(vs, Append(s, f), v)[i] = Ext(vs, s, v)[i] + Held(f, i)
<1>1. Append(s, f) \in Seq(Frame)
  OBVIOUS
<1>2. ASSUME NEW i \in Ids
      PROVE  Held(f, i) \in Nat /\ Ext(vs, Append(s, f), v)[i] = Ext(vs, s, v)[i] + Held(f, i)
  <2>1. Ext(vs, Append(s, f), v)[i] = Count(vs, i) + InStack(Append(s, f), i) + Is(v, i)
    <3> DEFINE t == Append(s, f)
    <3>1. t \in Seq(Frame)
      BY <1>1
    <3> HIDE DEF t
    <3>2. Ext(vs, t, v)[i] = Count(vs, i) + InStack(t, i) + Is(v, i)
      BY <3>1, ExtType
    <3> QED BY <3>2 DEF t
  <2>2. InStack(Append(s, f), i) = InStack(s, i) + Held(f, i) /\ Held(f, i) \in Nat
    BY InAppend, HoldsType
  <2>3. /\ Ext(vs, s, v)[i] = Count(vs, i) + InStack(s, i) + Is(v, i)
        /\ Count(vs, i) \in Nat /\ InStack(s, i) \in Nat /\ Is(v, i) \in {0, 1}
    BY ExtType
  <2> QED BY <2>1, <2>2, <2>3
<1> QED BY <1>1, <1>2

LEMMA ExtReturn ==
  ASSUME NEW vs \in [Vars -> Value], NEW s \in Seq(Frame), NEW v
  PROVE  \A i \in Ids : /\ Ext(vs, s, v)[i] = Ext(vs, s, Running)[i] + Is(v, i) /\ Is(v, i) \in {0, 1}
                        /\ Ext(vs, s, Running)[i] \in Nat /\ (InStack(s, i) >= 1 => Ext(vs, s, Running)[i] >= 1)
<1>1. SUFFICES ASSUME NEW i \in Ids
               PROVE  /\ Ext(vs, s, v)[i] = Ext(vs, s, Running)[i] + Is(v, i) /\ Is(v, i) \in {0, 1}
                      /\ Ext(vs, s, Running)[i] \in Nat /\ (InStack(s, i) >= 1 => Ext(vs, s, Running)[i] >= 1)
  OBVIOUS
<1>2. Is(Running, i) = 0
  BY IdsFacts DEF Is
<1>3. Ext(vs, s, Running)[i] = Count(vs, i) + InStack(s, i) + Is(Running, i)
  BY ExtType
<1>4. /\ Ext(vs, s, v)[i] = Count(vs, i) + InStack(s, i) + Is(v, i)
      /\ Count(vs, i) \in Nat /\ InStack(s, i) \in Nat /\ Is(v, i) \in {0, 1}
  BY ExtType
<1> QED BY <1>2, <1>3, <1>4

(* The state seen from its top frame. *)
LEMMA OnTop ==
  ASSUME Inv, stack # <<>>
  PROVE  /\ Below \in Seq(Frame) /\ Len(Below) \in Nat /\ Len(stack) = Len(Below) + 1 /\ Len(Below) < MaxFrames
         /\ \A d \in 1 .. Len(Below) : Below[d] = stack[d]
         /\ stack \in Seq(Frame) /\ stack = Append(Below, Top) /\ Top \in Frame
         /\ StackOK(stack, heap, lost) /\ Sits(stack, heap, lost, Len(stack))
         /\ Discarding(Below) => Top.k = "eval" /\ ~Top.ret
<1>1. stack \in Seq(Frame) /\ Len(stack) =< MaxFrames /\ StackOK(stack, heap, lost)
  BY DEF Inv, StackOK
<1>2. Len(stack) \in Nat /\ Len(stack) >= 1 /\ MaxFrames \in Nat
  BY <1>1, SizesAssumption
<1>3. /\ Below \in Seq(Frame) /\ Len(Below) = Len(stack) - 1
      /\ \A d \in 1 .. Len(Below) : Below[d] = stack[d]
  <2> DEFINE n == Len(stack) - 1
  <2>1. n \in Nat /\ \A d \in 1 .. n : stack[d] \in Frame
    BY <1>1, <1>2
  <2>2. Below = SubSeq(stack, 1, n)
    BY DEF Below
  <2> HIDE DEF n
  <2>3. /\ SubSeq(stack, 1, n) \in Seq(Frame)
        /\ Len(SubSeq(stack, 1, n)) = IF 1 <= n THEN n - 1 + 1 ELSE 0
        /\ \A d \in 1 .. n - 1 + 1 : SubSeq(stack, 1, n)[d] = stack[1 + d - 1]
    BY <2>1, SubSeqProperties
  <2>4. n - 1 + 1 = n /\ \A d \in 1 .. n : 1 + d - 1 = d
    BY <2>1
  <2>5. Len(Below) = n /\ \A d \in 1 .. n : Below[d] = stack[d]
    BY <2>1, <2>2, <2>3, <2>4
  <2> QED BY <2>2, <2>3, <2>5 DEF n
<1>4. Top \in Frame
  BY <1>1, <1>2 DEF Top
<1>5. stack = Append(Below, Top)
  <2>1. Append(Below, Top) \in Seq(Frame) /\ Len(Append(Below, Top)) = Len(stack)
    BY <1>2, <1>3, <1>4
  <2>2. \A d \in 1 .. Len(stack) : Append(Below, Top)[d] = stack[d]
    BY <1>2, <1>3, <1>4 DEF Top
  <2> QED BY <1>1, <2>1, <2>2
<1>6. Sits(stack, heap, lost, Len(stack))
  BY <1>1, <1>2 DEF StackOK
<1>7. Discarding(Below) => Top.k = "eval" /\ ~Top.ret
  <2>1. SUFFICES ASSUME Below # <<>>, Below[Len(Below)].k = "call", ~Below[Len(Below)].body PROVE Top.k = "eval" /\ ~Top.ret
    BY DEF Discarding
  <2>2. Len(Below) \in 1 .. Len(Below) /\ Len(stack) > 1 /\ stack[Len(stack) - 1] = Below[Len(Below)]
    BY <1>2, <1>3, <2>1
  <2> QED BY <1>6, <2>1, <2>2 DEF Sits, Top
<1> QED BY <1>1, <1>2, <1>3, <1>4, <1>5, <1>6, <1>7

(* The references now, and those that stay when the top frame goes. *)
Outside == Ext(vars, stack, val)
Around == Ext(vars, Below, Running)

LEMMA Now ==
  ASSUME Inv, stack # <<>>
  PROVE  /\ Outside \in [Ids -> Nat] /\ Around \in [Ids -> Nat] /\ Sound(heap, Outside, lost)
         /\ vars \in [Vars -> Value] /\ val \in Value \cup {Running}
         /\ \A i \in Ids : /\ Outside[i] = Around[i] + Held(Top, i) + Is(val, i)
                           /\ Outside[i] \in Nat /\ Around[i] \in Nat /\ Held(Top, i) \in Nat /\ Is(val, i) \in {0, 1}
                           /\ i \in HeldIn(Below) => Around[i] >= 1
<1>1. vars \in [Vars -> Value] /\ Sound(heap, Outside, lost) /\ val \in Value \cup {Running}
  BY DEF Inv, Outside
<1>2. Below \in Seq(Frame) /\ stack \in Seq(Frame) /\ Top \in Frame /\ stack = Append(Below, Top)
  BY OnTop
<1>3. Outside \in [Ids -> Nat] /\ Around \in [Ids -> Nat]
  BY <1>1, <1>2, ExtType DEF Outside, Around
<1>4. ASSUME NEW i \in Ids
      PROVE  /\ Outside[i] = Around[i] + Held(Top, i) + Is(val, i) /\ Held(Top, i) \in Nat /\ Is(val, i) \in {0, 1}
             /\ i \in HeldIn(Below) => Around[i] >= 1
  <2>1. Outside[i] = Ext(vars, Below, val)[i] + Held(Top, i) /\ Held(Top, i) \in Nat
    BY <1>1, <1>2, ExtAppend DEF Outside
  <2>2. /\ Ext(vars, Below, val)[i] = Around[i] + Is(val, i) /\ Is(val, i) \in {0, 1} /\ Around[i] \in Nat
        /\ InStack(Below, i) >= 1 => Around[i] >= 1
    BY <1>1, <1>2, ExtReturn DEF Around
  <2> QED BY <2>1, <2>2 DEF HeldIn
<1> QED BY <1>1, <1>3, <1>4

LEMMA Upon ==
  ASSUME Inv, stack # <<>>, NEW v
  PROVE  /\ Ext(vars, Below, v) \in [Ids -> Nat]
         /\ \A i \in Ids : Ext(vars, Below, v)[i] = Around[i] + Is(v, i) /\ Is(v, i) \in {0, 1}
         /\ \A f \in Frame :
              /\ Ext(vars, Append(Below, f), v) \in [Ids -> Nat]
              /\ \A i \in Ids : /\ Held(f, i) \in Nat
                                /\ Ext(vars, Append(Below, f), v)[i] = Around[i] + Held(f, i) + Is(v, i)
         /\ \A f, g \in Frame :
              /\ Ext(vars, Append(Append(Below, f), g), v) \in [Ids -> Nat]
              /\ \A i \in Ids : Ext(vars, Append(Append(Below, f), g), v)[i] = Around[i] + Held(f, i) + Held(g, i) + Is(v, i)
<1>1. vars \in [Vars -> Value] /\ Below \in Seq(Frame) /\ Around \in [Ids -> Nat]
  BY OnTop, Now
<1>2. /\ Ext(vars, Below, v) \in [Ids -> Nat]
      /\ \A i \in Ids : Ext(vars, Below, v)[i] = Around[i] + Is(v, i) /\ Is(v, i) \in {0, 1}
  BY <1>1, ExtType, ExtReturn DEF Around
<1>3. ASSUME NEW f \in Frame
      PROVE  /\ Append(Below, f) \in Seq(Frame)
             /\ Ext(vars, Append(Below, f), v) \in [Ids -> Nat]
             /\ \A i \in Ids : /\ Held(f, i) \in Nat
                               /\ Ext(vars, Append(Below, f), v)[i] = Around[i] + Held(f, i) + Is(v, i)
  <2>1. /\ Append(Below, f) \in Seq(Frame)
        /\ \A i \in Ids : Held(f, i) \in Nat /\ Ext(vars, Append(Below, f), v)[i] = Ext(vars, Below, v)[i] + Held(f, i)
    BY <1>1, ExtAppend
  <2>2. Ext(vars, Append(Below, f), v) \in [Ids -> Nat]
    BY <1>1, <2>1, ExtType
  <2>3. \A i \in Ids : Around[i] \in Nat
    BY <1>1
  <2>4. \A i \in Ids : Ext(vars, Append(Below, f), v)[i] = Around[i] + Held(f, i) + Is(v, i)
    BY <1>2, <2>1, <2>3
  <2> QED BY <2>1, <2>2, <2>4
<1>4. ASSUME NEW f \in Frame, NEW g \in Frame
      PROVE  /\ Ext(vars, Append(Append(Below, f), g), v) \in [Ids -> Nat]
             /\ \A i \in Ids : Ext(vars, Append(Append(Below, f), g), v)[i] = Around[i] + Held(f, i) + Held(g, i) + Is(v, i)
  <2> DEFINE b == Append(Below, f)
  <2>1. b \in Seq(Frame) /\ \A i \in Ids : Ext(vars, b, v)[i] = Around[i] + Held(f, i) + Is(v, i) /\ Held(f, i) \in Nat
    BY <1>3
  <2>6. b \in Seq(Frame) /\ vars \in [Vars -> Value]
    BY <1>1, <2>1
  <2> HIDE DEF b
  <2>7. Append(b, g) \in Seq(Frame)
    BY <2>6, ExtAppend
  <2>2. \A i \in Ids : Held(g, i) \in Nat /\ Ext(vars, Append(b, g), v)[i] = Ext(vars, b, v)[i] + Held(g, i)
    BY <2>6, ExtAppend
  <2>3. Ext(vars, Append(b, g), v) \in [Ids -> Nat]
    BY <2>6, <2>7, ExtType
  <2>4. \A i \in Ids : Around[i] \in Nat
    BY <1>1
  <2>5. \A i \in Ids : Ext(vars, Append(b, g), v)[i] = Around[i] + Held(f, i) + Held(g, i) + Is(v, i)
    BY <1>2, <2>1, <2>2, <2>4
  <2> QED BY <2>3, <2>5 DEF b
<1> QED BY <1>2, <1>3, <1>4

LEMMA UponOne ==
  ASSUME Inv, stack # <<>>, NEW v, NEW f \in Frame
  PROVE  /\ Ext(vars, Append(Below, f), v) \in [Ids -> Nat]
         /\ \A i \in Ids : /\ Held(f, i) \in Nat
                           /\ Ext(vars, Append(Below, f), v)[i] = Around[i] + Held(f, i) + Is(v, i)
  BY Upon

LEMMA UponTwo ==
  ASSUME Inv, stack # <<>>, NEW v, NEW f \in Frame, NEW g \in Frame
  PROVE  /\ Ext(vars, Append(Append(Below, f), g), v) \in [Ids -> Nat]
         /\ \A i \in Ids : Ext(vars, Append(Append(Below, f), g), v)[i] = Around[i] + Held(f, i) + Held(g, i) + Is(v, i)
  BY Upon

-----------------------------------------------------------------------------
(* The shapes of a step: the top frame returns, or becomes another one, or *)
(* becomes another one with a frame upon it, or two.                       *)

Quiet == vars' = vars /\ broke' = FALSE /\ exited' \in BOOLEAN /\ length' \in 0 .. MaxLength

LEMMA Popped ==
  ASSUME Inv, stack # <<>>, Quiet, stack' = Below, val' \in Value \cup {Running},
         val' \in Ids /\ Top.k = "eval" => Top.ret,
         Step(heap, lost, heap', Ext(vars, Below, val'), lost', HeldIn(Below))
  PROVE  Inv'
<1>1. StackOK(Below, heap', lost')
  <2>1. Below \in Seq(Frame) /\ Len(Below) =< Len(stack) /\ StackOK(stack, heap, lost)
        /\ \A d \in 1 .. Len(Below) : Below[d] = stack[d]
    BY OnTop
  <2> QED BY <2>1, BelowKept
<1>2. Sound(heap', Ext(vars, Below, val'), lost')
  BY DEF Step
<1>3. vars \in [Vars -> Value] /\ (Discarding(Below) => val' \notin Ids)
  BY OnTop DEF Inv
<1> QED BY <1>1, <1>2, <1>3 DEF Inv, Quiet

LEMMA Replaced ==
  ASSUME Inv, stack # <<>>, Quiet, NEW f \in Frame, stack' = Append(Below, f), val' \in Value \cup {Running},
         f.k = "call" /\ ~f.body => val' \notin Ids,
         Step(heap, lost, heap', Ext(vars, Append(Below, f), val'), lost', HeldIn(Below)),
         Sits(Append(Below, f), heap', lost', Len(Below) + 1)
  PROVE  Inv'
<1>1. StackOK(Below, heap', lost') /\ Len(Below) < MaxFrames
  <2>1. Below \in Seq(Frame) /\ Len(Below) =< Len(stack) /\ StackOK(stack, heap, lost) /\ Len(Below) < MaxFrames
        /\ \A d \in 1 .. Len(Below) : Below[d] = stack[d]
    BY OnTop
  <2> QED BY <2>1, BelowKept
<1>2. StackOK(Append(Below, f), heap', lost')
  BY <1>1, Push
<1>3. Sound(heap', Ext(vars, Append(Below, f), val'), lost')
  BY DEF Step
<1>4. vars \in [Vars -> Value] /\ (Discarding(Append(Below, f)) => val' \notin Ids)
  BY OnTop, NotDiscarding DEF Inv
<1> QED BY <1>2, <1>3, <1>4 DEF Inv, Quiet

LEMMA Pushed ==
  ASSUME Inv, stack # <<>>, Quiet, NEW f \in Frame, NEW e \in Frame, stack' = Append(Append(Below, f), e),
         Len(stack) < MaxFrames, val' \in Value \cup {Running}, e.k = "eval",
         Step(heap, lost, heap', Ext(vars, Append(Append(Below, f), e), val'), lost', HeldIn(Below)),
         Sits(Append(Below, f), heap', lost', Len(Below) + 1),
         Sits(Append(Append(Below, f), e), heap', lost', Len(Below) + 2)
  PROVE  Inv'
<1>1. StackOK(Below, heap', lost') /\ Len(Below) + 1 < MaxFrames /\ Len(Below) \in Nat
  <2>1. Below \in Seq(Frame) /\ Len(Below) =< Len(stack) /\ StackOK(stack, heap, lost) /\ Len(Below) + 1 = Len(stack)
        /\ \A d \in 1 .. Len(Below) : Below[d] = stack[d]
    BY OnTop
  <2> QED BY <2>1, BelowKept, OnTop
<1> DEFINE b == Append(Below, f)
<1>2. StackOK(b, heap', lost') /\ Len(b) = Len(Below) + 1
  BY <1>1, Push, OnTop
<1>3. Sits(Append(b, e), heap', lost', Len(b) + 1) /\ Len(b) < MaxFrames
  BY <1>1, <1>2
<1> HIDE DEF b
<1>4. StackOK(Append(b, e), heap', lost')
  BY <1>2, <1>3, Push
<1>5. Sound(heap', Ext(vars, stack', val'), lost')
  BY DEF Step
<1>6. vars \in [Vars -> Value] /\ b \in Seq(Frame)
  BY <1>2 DEF Inv, StackOK
<1>7. ~Discarding(Append(b, e))
  BY <1>6, NotDiscarding
<1> QED BY <1>4, <1>5, <1>6, <1>7 DEF Inv, Quiet, b

-----------------------------------------------------------------------------
(* Tokens, and the eval at the top.                                        *)

LEMMA NoValue ==
  ASSUME NEW i \in Ids
  PROVE  Is(Null, i) = 0 /\ Is(Empty, i) = 0 /\ Is(Function, i) = 0 /\ Is(Running, i) = 0
  BY IdsFacts DEF Is

LEMMA ArgsTyped ==
  ASSUME NEW args \in Seq(Expressions)
  PROVE  args \in Seq(Expr)
<1>1. \A e \in Expressions : e \in Expr
  BY ScriptsAssumption DEF Expr
<1>2. \A j \in 1 .. Len(args) : args[j] \in Expressions
  OBVIOUS
<1> QED BY <1>1, <1>2

LEMMA TokenParts ==
  ASSUME NEW t \in Tokens, Features = {}
  PROVE  /\ t[1] = "std" => t[2] \in Std
         /\ t[1] \in {"var", "setVar"} => t[2] \in Vars
         /\ t[1] \in {"entry", "setEntry"} => t[2] \in Keys
         /\ t[1] \in {"brackets", "index", "setIndex"} => t[2] \in Expr
         /\ t[1] \in {"call", "callMember"} => t[2] \in Seq(Expr)
         /\ t[1] = "callEntry" => t[2] \in Keys /\ t[3] \in Seq(Expr)
<1>1. CASE t \in { <<"plain">>, <<"function">>, <<"member">>, <<"not">>, <<"op">> }
  BY <1>1
<1>2. CASE t \in {"std"} \X Std
  BY <1>2
<1>3. CASE t \in {"var", "setVar"} \X Vars
  BY <1>3
<1>4. CASE t \in {"entry", "setEntry"} \X Keys
  BY <1>4
<1>5. CASE t \in {"brackets", "index", "setIndex"} \X Expressions
  BY <1>5, ScriptsAssumption DEF Expr
<1>6. CASE t \in {"call", "callMember"} \X Seq(Expressions)
  BY <1>6, ArgsTyped
<1>7. CASE t \in {"callEntry"} \X Keys \X Seq(Expressions)
  BY <1>7, ArgsTyped
<1> QED BY <1>1, <1>2, <1>3, <1>4, <1>5, <1>6, <1>7 DEF Tokens

LEMMA FrameKinds ==
  ASSUME NEW f \in Frame
  PROVE  /\ f.k = "eval" => f \in EvalFrame
         /\ f.k = "args" => f \in ArgsFrame
         /\ f.k = "loop" => f \in LoopFrame
         /\ f.k \in {"index", "setindex", "call", "block"} => f \in OtherFrame
         /\ f.k \in {"eval", "args", "loop", "index", "setindex", "call", "block"}
  BY DEF Frame, EvalFrame, ArgsFrame, LoopFrame, OtherFrame

LEMMA EvalTop ==
  ASSUME Inv, At("eval")
  PROVE  /\ stack # <<>> /\ Top \in EvalFrame /\ Top \in Frame
         /\ Top.k = "eval" /\ Top.ops \in Expr /\ Top.body \in BOOLEAN /\ Top.ret \in BOOLEAN
         /\ Top.cur \in Value /\ Top.op \in BOOLEAN /\ Top.opd \in Value /\ Top.set \in Set /\ Top.set.on \in Value
         /\ \A i \in Ids : Held(Top, i) = Is(Top.cur, i) + Is(Top.opd, i) + Is(Top.set.on, i)
<1>1. stack # <<>> /\ Top.k = "eval"
  BY DEF At
<1>2. Top \in EvalFrame /\ Top \in Frame
  BY <1>1, OnTop, FrameKinds
<1>3. Top.set \in Set => Top.set.on \in Value
  BY DEF Set, Value
<1> QED BY <1>1, <1>2, <1>3, HeldBy DEF EvalFrame

LEMMA EvalOpd ==
  ASSUME NEW f \in EvalFrame, NEW v \in Value
  PROVE  /\ [f EXCEPT !.opd = v] \in EvalFrame /\ [f EXCEPT !.opd = v].ret = f.ret
         /\ \A i \in Ids : Held([f EXCEPT !.opd = v], i) = Is(f.cur, i) + Is(v, i) + Is(f.set.on, i)
<1> DEFINE g == [f EXCEPT !.opd = v]
<1>1. g \in EvalFrame /\ g.k = "eval" /\ g.cur = f.cur /\ g.opd = v /\ g.set = f.set /\ g.ret = f.ret
  BY DEF EvalFrame
<1> HIDE DEF g
<1>2. g \in EvalFrame /\ g.ret = f.ret /\ \A i \in Ids : Held(g, i) = Is(f.cur, i) + Is(v, i) + Is(f.set.on, i)
  BY <1>1, HeldBy
<1> QED BY <1>2 DEF g

LEMMA EvalOps ==
  ASSUME NEW f \in EvalFrame, NEW ops \in Expr
  PROVE  /\ [f EXCEPT !.ops = ops] \in EvalFrame
         /\ \A i \in Ids : Held([f EXCEPT !.ops = ops], i) = Is(f.cur, i) + Is(f.opd, i) + Is(f.set.on, i)
<1> DEFINE g == [f EXCEPT !.ops = ops]
<1>1. g \in EvalFrame /\ g.k = "eval" /\ g.cur = f.cur /\ g.opd = f.opd /\ g.set = f.set
  BY DEF EvalFrame
<1> HIDE DEF g
<1>2. g \in EvalFrame /\ \A i \in Ids : Held(g, i) = Is(f.cur, i) + Is(f.opd, i) + Is(f.set.on, i)
  BY <1>1, HeldBy
<1> QED BY <1>2 DEF g

LEMMA TokenFacts ==
  ASSUME Inv, At("eval"), Top.ops # <<>>
  PROVE  /\ Token \in Tokens
         /\ Behind \in EvalFrame /\ Behind.opd = Top.opd /\ Behind.cur = Top.cur /\ Behind.set = Top.set /\ Behind.op = Top.op
         /\ Behind.ret = Top.ret
         /\ \A i \in Ids : Held(Behind, i) = Held(Top, i)
<1>1. Top \in EvalFrame /\ Top.ops \in Seq(Tokens)
  BY EvalTop DEF Expr
<1>2. Head(Top.ops) \in Tokens /\ Tail(Top.ops) \in Expr
  BY <1>1 DEF Expr
<1>3. Behind \in EvalFrame /\ \A i \in Ids : Held(Behind, i) = Is(Top.cur, i) + Is(Top.opd, i) + Is(Top.set.on, i)
  <2>1. Behind = [Top EXCEPT !.ops = Tail(Top.ops)]
    BY <1>1 DEF Behind
  <2> QED BY <1>1, <1>2, <2>1, EvalOps
<1>4. Behind.opd = Top.opd /\ Behind.cur = Top.cur /\ Behind.set = Top.set /\ Behind.op = Top.op
      /\ Behind.ret = Top.ret
  BY <1>1 DEF Behind, EvalFrame
<1> QED BY <1>2, <1>3, <1>4, EvalTop DEF Token

(* The references before and after, when the top frame becomes f. *)
LEMMA Change ==
  ASSUME Inv, stack # <<>>, Idle, NEW f \in Frame
  PROVE  /\ Ext(vars, Append(Below, f), Running) \in [Ids -> Nat]
         /\ \A i \in Ids : /\ Ext(vars, Append(Below, f), Running)[i] = Around[i] + Held(f, i)
                           /\ Outside[i] = Around[i] + Held(Top, i)
                           /\ Outside[i] \in Nat /\ Around[i] \in Nat /\ Held(Top, i) \in Nat /\ Held(f, i) \in Nat
                           /\ i \in HeldIn(Below) => Around[i] >= 1
<1>1. ASSUME NEW i \in Ids
      PROVE  /\ Ext(vars, Append(Below, f), Running)[i] = Around[i] + Held(f, i)
             /\ Outside[i] = Around[i] + Held(Top, i)
             /\ Outside[i] \in Nat /\ Around[i] \in Nat /\ Held(Top, i) \in Nat /\ Held(f, i) \in Nat
             /\ i \in HeldIn(Below) => Around[i] >= 1
  <2>1. Ext(vars, Append(Below, f), Running)[i] = Around[i] + Held(f, i) + Is(Running, i) /\ Held(f, i) \in Nat
    BY Upon
  <2>2. /\ Outside[i] = Around[i] + Held(Top, i) + Is(Running, i)
        /\ Outside[i] \in Nat /\ Around[i] \in Nat /\ Held(Top, i) \in Nat
        /\ i \in HeldIn(Below) => Around[i] >= 1
    BY Now DEF Idle
  <2> QED BY <2>1, <2>2, NoValue
<1> QED BY <1>1, Upon

LEMMA BecomesEval ==
  ASSUME Inv, At("eval"), Quiet, NEW f \in EvalFrame, f.ret = Top.ret, stack' = WithTop(f), val' = Running,
         Step(heap, lost, heap', Ext(vars, Append(Below, f), Running), lost', HeldIn(Below))
  PROVE  Inv'
<1>1. f \in Frame /\ Sits(Append(Below, f), heap', lost', Len(Below) + 1)
  BY OnTop, EvalSits DEF At
<1>2. f.k = "eval" /\ stack # <<>>
  BY DEF EvalFrame, At
<1> QED BY <1>1, <1>2, Replaced DEF WithTop

(* References that are forgotten. *)
LEMMA ForgetStep ==
  ASSUME NEW h, NEW X \in [Ids -> Nat], NEW L, Sound(h, X, L), NEW vs, IsFiniteSet(DOMAIN vs),
         NEW Y \in [Ids -> Nat], \A i \in Ids : Y[i] = X[i] - Count(vs, i), NEW P
  PROVE  Step(h, L, h, Y, L \cup CountedIn(h, vs), P)
<1> DEFINE M == L \cup CountedIn(h, vs)
<1>1. ASSUME NEW i \in Ids PROVE i \in M <=> i \in L \/ Count(vs, i) >= 1
  <2>1. Counted(h, i)
    BY SoundCell
  <2>2. Count(vs, i) >= 1 <=> \E x \in DOMAIN vs : vs[x] = i
    BY CountAtLeast
  <2> QED BY <2>1, <2>2 DEF CountedIn
<1>2. L \subseteq M /\ M \subseteq Ids
  BY DEF CountedIn, Counted, Sound
<1> HIDE DEF M
<1>3. ASSUME NEW i \in Ids
      PROVE  Y[i] =< X[i] /\ (i \in M => i \in L \/ Y[i] < X[i]) /\ (Y[i] < X[i] => i \in M)
  <2>1. Count(vs, i) \in Nat /\ X[i] \in Nat /\ Y[i] = X[i] - Count(vs, i)
    BY CountType
  <2>2. Y[i] =< X[i] /\ (Y[i] < X[i] <=> Count(vs, i) >= 1)
    BY <2>1
  <2> QED BY <1>1, <2>2
<1>4. Step(h, L, h, Y, M, P)
  BY <1>2, <1>3, DropStep
<1> QED BY <1>4 DEF M

LEMMA GiveUpKeeps ==
  ASSUME Inv, stack # <<>>, GiveUp, broke' = FALSE, val \notin Ids
  PROVE  Inv'
<1> DEFINE Y == Ext(vars, Below, Null)
<1>1. /\ Quiet /\ stack' = Below /\ val' = Null /\ heap' = heap /\ lost' = lost \cup CountedIn(heap, Holds(Top))
      /\ Null \in Value /\ Null \notin Ids
  BY IdsFacts DEF GiveUp, Return, Quiet, Inv, Value
<1>2. IsFiniteSet(DOMAIN Holds(Top)) /\ Sound(heap, Outside, lost) /\ Outside \in [Ids -> Nat] /\ Y \in [Ids -> Nat]
  BY OnTop, Now, Upon, HoldsType
<1>3. ASSUME NEW i \in Ids PROVE Y[i] = Outside[i] - Count(Holds(Top), i)
  <2>1. Y[i] = Around[i] + Is(Null, i) /\ Is(Null, i) = 0 /\ Is(val, i) = 0
    BY <1>1, Upon, NoValue DEF Is
  <2>2. Outside[i] = Around[i] + Held(Top, i) + Is(val, i) /\ Held(Top, i) \in Nat /\ Around[i] \in Nat
    BY Now
  <2> QED BY <2>1, <2>2 DEF Held
<1> HIDE DEF Y
<1>4. Step(heap, lost, heap, Y, lost', HeldIn(Below))
  BY <1>1, <1>2, <1>3, ForgetStep
<1> QED BY <1>1, <1>4, Popped DEF Y

LEMMA ErrorKeeps ==
  ASSUME Inv, stack # <<>>, Error, val \notin Ids
  PROVE  Inv'
  BY GiveUpKeeps DEF Error

LEMMA SameQuiet ==
  ASSUME Inv, Same
  PROVE  Quiet /\ lost' = lost
  BY DEF Inv, Same, Quiet

-----------------------------------------------------------------------------
(* opToVar: one lemma for each action of Operand.                          *)

After(v) == Ext(vars, Append(Below, [Behind EXCEPT !.opd = v]), Running)

LEMMA NextOperand ==
  ASSUME Inv, EvalIdle, Top.ops # <<>>, NEW v \in Value
  PROVE  /\ [Behind EXCEPT !.opd = v] \in EvalFrame /\ [Behind EXCEPT !.opd = v].ret = Top.ret /\ After(v) \in [Ids -> Nat]
         /\ \A i \in Ids : /\ After(v)[i] = Outside[i] - Is(Top.opd, i) + Is(v, i)
                           /\ Outside[i] \in Nat /\ Is(Top.opd, i) \in {0, 1} /\ Is(Top.opd, i) =< Outside[i]
                           /\ i \in HeldIn(Below) => Outside[i] >= 1 /\ Outside[i] - Is(Top.opd, i) >= 1 /\ After(v)[i] >= 1
<1> DEFINE f == [Behind EXCEPT !.opd = v]
<1>1. At("eval") /\ Idle /\ stack # <<>> /\ Top \in EvalFrame
  BY EvalTop DEF EvalIdle
<1>2. f \in EvalFrame /\ f.ret = Top.ret /\ \A i \in Ids : Held(f, i) = Is(Top.cur, i) + Is(v, i) + Is(Top.set.on, i)
  <2>1. Behind \in EvalFrame /\ Behind.ret = Top.ret /\ Behind.cur = Top.cur /\ Behind.set = Top.set
    BY <1>1, TokenFacts
  <2> QED BY <2>1, EvalOpd
<1>3. f \in Frame
  BY <1>2 DEF Frame
<1> HIDE DEF f
<1>4. ASSUME NEW i \in Ids
      PROVE  LET y == Ext(vars, Append(Below, f), Running)[i]
             IN  /\ y = Outside[i] - Is(Top.opd, i) + Is(v, i)
                 /\ Outside[i] \in Nat /\ Is(Top.opd, i) \in {0, 1} /\ Is(Top.opd, i) =< Outside[i]
                 /\ i \in HeldIn(Below) => Outside[i] >= 1 /\ Outside[i] - Is(Top.opd, i) >= 1 /\ y >= 1
  <2>1. /\ Ext(vars, Append(Below, f), Running)[i] = Around[i] + Held(f, i)
        /\ Outside[i] = Around[i] + Held(Top, i)
        /\ Outside[i] \in Nat /\ Around[i] \in Nat
        /\ i \in HeldIn(Below) => Around[i] >= 1
    BY <1>1, <1>3, Change
  <2>2. Held(Top, i) = Is(Top.cur, i) + Is(Top.opd, i) + Is(Top.set.on, i)
    BY <1>1, EvalTop
  <2>3. Is(Top.cur, i) \in {0, 1} /\ Is(Top.opd, i) \in {0, 1} /\ Is(Top.set.on, i) \in {0, 1} /\ Is(v, i) \in {0, 1}
    BY IsType
  <2> QED BY <1>2, <2>1, <2>2, <2>3
<1>5. Ext(vars, Append(Below, f), Running) \in [Ids -> Nat]
  BY <1>1, <1>3, Change
<1> QED BY <1>2, <1>4, <1>5 DEF After, f

LEMMA OperandStep ==
  ASSUME Inv, EvalIdle, Top.ops # <<>>, Same, NEW v \in Value,
         Becomes(heap', [Behind EXCEPT !.opd = v]), Step(heap, lost, heap', After(v), lost, HeldIn(Below))
  PROVE  Inv'
<1>1. /\ [Behind EXCEPT !.opd = v] \in EvalFrame /\ [Behind EXCEPT !.opd = v].ret = Top.ret
      /\ Quiet /\ lost' = lost /\ At("eval")
  BY NextOperand, SameQuiet DEF EvalIdle
<1> QED BY <1>1, BecomesEval DEF After, Becomes

LEMMA KindFacts ==
  ASSUME NEW h
  PROVE  /\ Null \in Value /\ Empty \in Value /\ Function \in Value /\ MayHold(h, Null)
         /\ \A k \in {"plain", "array", "dict", "then", "else"} \cup Std : k \in Kinds /\ k # "view" /\ ~Keeps(k)
         /\ "member" \in Kinds /\ Keeps("member") /\ "slice" \in Kinds /\ Keeps("slice")
         /\ \A k \in Kinds : k # "none"
<1>1. Null \notin Ids
  BY IdsFacts
<1> QED BY <1>1, FeaturesAssumption DEF Value, MayHold, Counted, Kinds, Keeps, Std

LEMMA LiteralKeeps ==
  ASSUME Inv, MaxTags < TagLimit, NEW kind \in {"plain"} \cup Std,
         EvalIdle, Top.ops # <<>>, Top.opd = Null, HasRoom(heap), Same,
         Becomes(New(heap, kind, Null), [Behind EXCEPT !.opd = Place(heap)])
  PROVE  Inv'
<1>1. Place(heap) \in Value /\ Place(heap) \in Ids
  BY PlaceFree, IdsFacts
<1>2. stack # <<>> /\ heap' = New(heap, kind, Null)
  BY DEF EvalIdle, At, Becomes
<1>3. \A i \in Ids : After(Place(heap))[i] = Outside[i] + Is(Place(heap), i)
  BY <1>1, NextOperand, NoValue, IsType
<1>4. Sound(heap, Outside, lost) /\ Outside \in [Ids -> Nat] /\ After(Place(heap)) \in [Ids -> Nat]
      /\ \A i \in Ids : i \in HeldIn(Below) => Outside[i] >= 1
  BY <1>1, <1>2, NextOperand, Now
<1>5. Step(heap, lost, New(heap, kind, Null), After(Place(heap)), lost, HeldIn(Below))
  BY <1>3, <1>4, KindFacts, NewStep
<1> QED BY <1>1, <1>2, <1>5, OperandStep

(* What is held is there. *)
LEMMA There ==
  ASSUME Inv, stack # <<>>, NEW v \in Ids,
         \/ Held(Top, v) >= 1 \/ val = v \/ Around[v] >= 1
         \/ \E n \in Vars : vars[n] = v
         \/ \E c \in Ids : (Keeps(heap[c].kind) /\ heap[c].base = v) \/ \E k \in Keys : heap[c].entries[k] = v
  PROVE  heap[v].kind # "none" /\ heap[v].kind \in Kinds
<1>1. Sound(heap, Outside, lost) /\ Outside \in [Ids -> Nat] /\ vars \in [Vars -> Value]
  BY Now
<1>2. /\ Outside[v] = Around[v] + Held(Top, v) + Is(val, v)
      /\ Around[v] \in Nat /\ Held(Top, v) \in Nat /\ Is(val, v) \in {0, 1} /\ (Is(val, v) = 1 <=> val = v)
  BY Now, IsType
<1>3. (\E n \in Vars : vars[n] = v) => Outside[v] >= 1
  <2>1. (\E n \in Vars : vars[n] = v) => Count(vars, v) >= 1
    BY <1>1, SizesAssumption, CountAtLeast
  <2>2. stack \in Seq(Frame)
    BY OnTop
  <2>3. /\ Outside[v] = Count(vars, v) + InStack(stack, v) + Is(val, v)
        /\ Count(vars, v) \in Nat /\ InStack(stack, v) \in Nat /\ Is(val, v) \in {0, 1}
    BY <1>1, <2>2, ExtType DEF Outside
  <2> QED BY <2>1, <2>3
<1>4. Held(Top, v) >= 1 \/ val = v \/ Around[v] >= 1 => Outside[v] >= 1
  BY <1>2
<1>5. heap[v].kind # "none"
  BY <1>1, <1>3, <1>4, Referred
<1>6. heap[v] \in Cell
  BY <1>1, SoundCell
<1> QED BY <1>5, <1>6, CellFields

LEMMA CellNow ==
  ASSUME Inv, stack # <<>>, NEW i \in Ids
  PROVE  /\ heap[i] \in Cell /\ heap[i].entries \in [Keys -> Value] /\ heap[i].kind \in Kinds \cup {"none"}
         /\ ~heap[i].pinned /\ heap[i].kind # "view" /\ Counted(heap, i)
         /\ IF Keeps(heap[i].kind) THEN heap[i].base \in Ids ELSE heap[i].base = Null
<1>1. Sound(heap, Outside, lost) /\ Outside \in [Ids -> Nat]
  BY Now
<1>2. CellOK(heap[i], Outside[i] + Owned(heap, Ids, i), i \in lost) /\ heap[i] \in Cell /\ Counted(heap, i)
  BY <1>1, SoundCell
<1> QED BY <1>2, CellFields DEF CellOK

LEMMA OperandThere ==
  ASSUME Inv, At("eval")
  PROVE  /\ Top.opd \in Ids => heap[Top.opd].kind # "none" /\ heap[Top.opd].kind \in Kinds
         /\ Top.cur \in Ids => heap[Top.cur].kind # "none" /\ heap[Top.cur].kind \in Kinds
         /\ Top.set.on \in Ids => heap[Top.set.on].kind # "none" /\ heap[Top.set.on].kind \in Kinds
<1>1. stack # <<>> /\ \A i \in Ids : Held(Top, i) = Is(Top.cur, i) + Is(Top.opd, i) + Is(Top.set.on, i)
  BY EvalTop
<1>2. \A i \in Ids : i \in {Top.cur, Top.opd, Top.set.on} => Held(Top, i) >= 1
  BY <1>1 DEF Is
<1> QED BY <1>1, <1>2, There

LEMMA ScriptFunctionKeeps ==
  ASSUME Inv, ScriptFunction
  PROVE  Inv'
<1>1. EvalIdle /\ Top.ops # <<>> /\ Top.opd = Null /\ Same /\ Becomes(heap, [Behind EXCEPT !.opd = Function])
      /\ Function \in Value /\ stack # <<>> /\ heap' = heap
  BY DEF ScriptFunction, StartsWith, Comes, EvalIdle, At, Becomes, Value
<1>2. \A i \in Ids : After(Function)[i] = Outside[i]
  BY <1>1, NextOperand, NoValue
<1>3. Sound(heap, Outside, lost) /\ Outside \in [Ids -> Nat] /\ After(Function) \in [Ids -> Nat]
  BY <1>1, NextOperand, Now
<1>4. Step(heap, lost, heap, After(Function), lost, HeldIn(Below))
  BY <1>2, <1>3, SameStep
<1> QED BY <1>1, <1>4, OperandStep

LEMMA LookupKeeps ==
  ASSUME Inv, MaxTags < TagLimit, Features = {}, Lookup
  PROVE  Inv'
<1> DEFINE v == vars[Token[2]]
<1>1. EvalIdle /\ Top.ops # <<>> /\ Top.opd = Null /\ Token[1] = "var" /\ stack # <<>> /\ val = Running
  BY DEF Lookup, StartsWith, Comes, EvalIdle, At, Idle, Token
<1>2. Token[2] \in Vars /\ v \in Value
  <2>1. Token \in Tokens /\ vars \in [Vars -> Value]
    BY <1>1, TokenFacts, Now DEF EvalIdle
  <2>2. Token[2] \in Vars
    BY <1>1, <2>1, TokenParts
  <2> QED BY <2>1, <2>2
<1>3. CASE v = Null
  BY <1>1, <1>3, ErrorKeeps, IdsFacts DEF Lookup
<1>4. CASE v # Null
  <2>1. MayHold(heap, v) /\ Becomes(Retain(heap, v), [Behind EXCEPT !.opd = v]) /\ Same
    BY <1>4 DEF Lookup
  <2>2. v \in Ids => heap[v].kind # "none"
    BY <1>1, <1>2, There
  <2> HIDE DEF v
  <2>3. \A i \in Ids : After(v)[i] = Outside[i] + Is(v, i)
    <3>1. \A i \in Ids : After(v)[i] = Outside[i] - Is(Top.opd, i) + Is(v, i) /\ Outside[i] \in Nat
      BY <1>1, <1>2, NextOperand
    <3> QED BY <1>1, <3>1, NoValue, IsType
  <2>4. Sound(heap, Outside, lost) /\ Outside \in [Ids -> Nat] /\ After(v) \in [Ids -> Nat]
        /\ \A i \in Ids : i \in HeldIn(Below) => Outside[i] >= 1
    BY <1>1, <1>2, NextOperand, Now
  <2>5. Step(heap, lost, Retain(heap, v), After(v), lost, HeldIn(Below))
    BY <1>2, <2>1, <2>2, <2>3, <2>4, RetainStep
  <2>6. heap' = Retain(heap, v)
    BY <2>1 DEF Becomes
  <2> QED BY <1>1, <1>2, <2>1, <2>5, <2>6, OperandStep
<1> QED BY <1>3, <1>4

LEMMA OneReleased ==
  ASSUME NEW v
  PROVE  IsFiniteSet(DOMAIN <<v>>) /\ \A i : Count(<<v>>, i) = Is(v, i)
<1>1. DOMAIN <<v>> = 1 .. 1
  OBVIOUS
<1> QED BY <1>1, UpToFinite, CountOne

LEMMA EntryKeeps ==
  ASSUME Inv, MaxTags < TagLimit, Features = {}, Entry
  PROVE  Inv'
<1> DEFINE e == EntryOf(Top.opd, Token[2])
<1>1. EvalIdle /\ Top.ops # <<>> /\ Token[1] = "entry" /\ stack # <<>> /\ val = Running /\ At("eval")
  BY DEF Entry, GoesOn, Comes, EvalIdle, At, Idle, Token
<1>2. Token[2] \in Keys
  BY <1>1, TokenFacts, TokenParts
<1>3. CASE e = Null
  BY <1>1, <1>3, ErrorKeeps, IdsFacts DEF Entry
<1>4. CASE e # Null
  <2>1. MayHold(heap, e) /\ Becomes(Release(Retain(heap, e), Top.opd), [Behind EXCEPT !.opd = e]) /\ Same
    BY <1>4 DEF Entry
  <2>2. e \in Value /\ (e \in Ids => heap[e].kind # "none")
    <3>1. Top.opd \in Ids /\ e = heap[Top.opd].entries[Token[2]]
      BY <1>4 DEF EntryOf, KindOf
    <3>2. heap[Top.opd].entries \in [Keys -> Value]
      <4>1. heap[Top.opd] \in Cell
        BY <1>1, <3>1, Now DEF Sound
      <4> QED BY <4>1, CellFields
    <3> QED BY <1>1, <1>2, <3>1, <3>2, There
  <2> HIDE DEF e
  <2>3. IsFiniteSet(DOMAIN <<Top.opd>>) /\ \A i : Count(<<Top.opd>>, i) = Is(Top.opd, i)
    BY OneReleased
  <2>4. \A i \in Ids : After(e)[i] = Outside[i] - Count(<<Top.opd>>, i) + Is(e, i) /\ Count(<<Top.opd>>, i) =< Outside[i]
    BY <1>1, <2>2, <2>3, NextOperand
  <2>5. Sound(heap, Outside, lost) /\ Outside \in [Ids -> Nat] /\ After(e) \in [Ids -> Nat]
        /\ \A i \in Ids : i \in HeldIn(Below) => Outside[i] >= 1 /\ After(e)[i] >= 1
    BY <1>1, <2>2, NextOperand, Now
  <2>6. Step(heap, lost, ReleaseAll(Retain(heap, e), <<Top.opd>>), After(e), lost, HeldIn(Below))
    BY <2>1, <2>2, <2>3, <2>4, <2>5, RetainReleaseStep
  <2>7. heap' = ReleaseAll(Retain(heap, e), <<Top.opd>>) /\ Becomes(heap', [Behind EXCEPT !.opd = e])
    BY <2>1 DEF Becomes, Release
  <2> QED BY <1>1, <2>1, <2>2, <2>6, <2>7, OperandStep
<1> QED BY <1>3, <1>4

(* A new value instead of the operand: a member that keeps it, or a "not". *)
LEMMA NewOperandKeeps ==
  ASSUME Inv, MaxTags < TagLimit, EvalIdle, Top.ops # <<>>, Same, HasRoom(heap),
         NEW kind \in {"plain", "member"}, NEW base \in Value, MayHold(heap, base),
         IF kind = "member" THEN base \in Ids /\ heap[base].kind # "none" ELSE base = Null,
         Becomes(Release(New(heap, kind, base), Top.opd), [Behind EXCEPT !.opd = Place(heap)])
  PROVE  Inv'
<1>1. At("eval") /\ stack # <<>> /\ Place(heap) \in Value
  BY PlaceFree, IdsFacts DEF EvalIdle, At
<1>2. IsFiniteSet(DOMAIN <<Top.opd>>) /\ \A i : Count(<<Top.opd>>, i) = Is(Top.opd, i)
  BY OneReleased
<1>3. \A i \in Ids : /\ After(Place(heap))[i] = Outside[i] - Count(<<Top.opd>>, i) + Is(Place(heap), i)
                     /\ Count(<<Top.opd>>, i) =< Outside[i]
  BY <1>1, <1>2, NextOperand
<1>4. Sound(heap, Outside, lost) /\ Outside \in [Ids -> Nat] /\ After(Place(heap)) \in [Ids -> Nat]
      /\ \A i \in Ids : i \in HeldIn(Below) => Outside[i] >= 1 /\ After(Place(heap))[i] >= 1
  BY <1>1, NextOperand, Now
<1>5. kind \in Kinds /\ kind # "view" /\ (Keeps(kind) <=> kind = "member")
  BY KindFacts
<1>6. Step(heap, lost, ReleaseAll(New(heap, kind, base), <<Top.opd>>), After(Place(heap)), lost, HeldIn(Below))
  BY <1>2, <1>3, <1>4, <1>5, NewReleaseStep
<1>7. heap' = ReleaseAll(New(heap, kind, base), <<Top.opd>>) /\ Becomes(heap', [Behind EXCEPT !.opd = Place(heap)])
  BY DEF Becomes, Release
<1> QED BY <1>1, <1>6, <1>7, OperandStep

LEMMA MemberKeeps ==
  ASSUME Inv, MaxTags < TagLimit, Member
  PROVE  Inv'
<1>1. EvalIdle /\ Top.ops # <<>> /\ stack # <<>> /\ val = Running /\ At("eval") /\ Top.opd \in Value
  BY EvalTop DEF Member, GoesOn, Comes, EvalIdle, At, Idle
<1>2. CASE ~HasMembers(Top.opd)
  BY <1>1, <1>2, ErrorKeeps, IdsFacts DEF Member
<1>3. CASE HasMembers(Top.opd)
  <2>1. Top.opd \in Ids
    BY <1>3 DEF HasMembers, Class, KindOf
  <2> QED BY <1>1, <1>3, <2>1, OperandThere, NewOperandKeeps DEF Member
<1> QED BY <1>2, <1>3

-----------------------------------------------------------------------------
(* Calls from an operand: frames upon the eval, which goes on behind its   *)
(* token.                                                                  *)

LEMMA Concat ==
  ASSUME NEW S, NEW s \in Seq(S), NEW a \in S, NEW b \in S
  PROVE  s \o <<a>> = Append(s, a) /\ s \o <<a, b>> = Append(Append(s, a), b)
<1>1. s \o <<a>> = Append(s, a)
  OBVIOUS
<1>2. s \o <<a, b>> = Append(Append(s, a), b)
  <2>1. Len(s) \in Nat /\ DOMAIN s = 1 .. Len(s)
    OBVIOUS
  <2>2. /\ s \o <<a, b>> \in Seq(S) /\ Append(Append(s, a), b) \in Seq(S)
        /\ Len(s \o <<a, b>>) = Len(s) + 2 /\ Len(Append(Append(s, a), b)) = Len(s) + 2
    OBVIOUS
  <2>3. \A d \in 1 .. Len(s) + 2 : (s \o <<a, b>>)[d] = Append(Append(s, a), b)[d]
    OBVIOUS
  <2> QED BY <2>1, <2>2, <2>3
<1> QED BY <1>1, <1>2

LEMMA CallsBase ==
  ASSUME Inv, EvalIdle, Top.ops # <<>>, NEW g, NEW M, Step(heap, lost, g, Outside, M, HeldIn(Below)),
         NEW b, b = WithTop(Behind)
  PROVE  /\ b \in Seq(Frame) /\ StackOK(b, g, M) /\ Len(b) = Len(stack) /\ vars \in [Vars -> Value]
         /\ Ext(vars, b, Running) = Outside /\ Outside \in [Ids -> Nat] /\ Sound(g, Outside, M)
         /\ \A i \in Ids : i = Top.opd => InStack(b, i) >= 1
         /\ ~Discarding(b)
<1>1. stack # <<>> /\ At("eval") /\ Idle /\ Behind \in EvalFrame /\ Behind \in Frame
  BY EvalTop, TokenFacts, EvalSits, OnTop DEF EvalIdle
<1>2. \A i \in Ids : Held(Behind, i) = Held(Top, i)
  BY <1>1, TokenFacts
<1>3. /\ Below \in Seq(Frame) /\ Len(Below) =< Len(stack) /\ StackOK(stack, heap, lost) /\ Len(Below) < MaxFrames
      /\ Len(stack) = Len(Below) + 1 /\ \A d \in 1 .. Len(Below) : Below[d] = stack[d]
  BY <1>1, OnTop
<1>4. StackOK(Below, g, M)
  BY <1>3, BelowKept
<1>5. Sits(Append(Below, Behind), g, M, Len(Below) + 1)
  BY <1>1, <1>3, EvalSits, OnTop, TokenFacts
<1>6. StackOK(b, g, M) /\ b \in Seq(Frame) /\ Len(b) = Len(stack)
  BY <1>1, <1>3, <1>4, <1>5, Push DEF WithTop
<1>7. Ext(vars, b, Running) = Outside /\ Outside \in [Ids -> Nat]
  <2>1. Outside \in [Ids -> Nat]
    BY <1>1, Now
  <2>2. Ext(vars, b, Running) \in [Ids -> Nat]
    BY <1>1, Change DEF WithTop
  <2>3. \A i \in Ids : Ext(vars, b, Running)[i] = Outside[i]
    BY <1>1, <1>2, Change DEF WithTop
  <2> QED BY <2>1, <2>2, <2>3
<1>8. ASSUME NEW i \in Ids, i = Top.opd PROVE InStack(b, i) >= 1
  <2>1. InStack(b, i) = InStack(Below, i) + Held(Behind, i) /\ InStack(Below, i) \in Nat
    BY <1>1, <1>3, InAppend, StackPlaces DEF WithTop
  <2>2. Held(Behind, i) = Is(Top.cur, i) + Is(Top.opd, i) + Is(Top.set.on, i)
    BY <1>1, <1>2, EvalTop
  <2>3. Is(Top.cur, i) \in {0, 1} /\ Is(Top.opd, i) = 1 /\ Is(Top.set.on, i) \in {0, 1}
    BY <1>8, IsType
  <2> QED BY <2>1, <2>2, <2>3
<1>9. ~Discarding(b)
  BY <1>1, <1>3, NotDiscarding DEF WithTop, EvalFrame
<1> QED BY <1>1, <1>6, <1>7, <1>8, <1>9, Now DEF Step

(* One frame, or two, that hold nothing. *)
LEMMA CallsOne ==
  ASSUME Inv, EvalIdle, Top.ops # <<>>, Quiet, NEW e \in Frame, e.k \in {"eval", "args"}, Calls(<<e>>), val' = val,
         \A i \in Ids : Held(e, i) = 0,
         Step(heap, lost, heap', Outside, lost', HeldIn(Below)),
         Sits(Append(WithTop(Behind), e), heap', lost', Len(stack) + 1)
  PROVE  Inv'
<1> DEFINE b == WithTop(Behind)
<1>1. /\ b \in Seq(Frame) /\ StackOK(b, heap', lost') /\ Len(b) = Len(stack) /\ vars \in [Vars -> Value]
      /\ Ext(vars, b, Running) = Outside /\ Outside \in [Ids -> Nat] /\ Sound(heap', Outside, lost') /\ ~Discarding(b)
  BY CallsBase
<1>2. stack' = b \o <<e>> /\ Len(stack) + 1 =< MaxFrames /\ val' = Running
  BY DEF Calls, EvalIdle, Idle
<1>3. Sits(Append(b, e), heap', lost', Len(b) + 1) /\ Len(stack) \in Nat /\ MaxFrames \in Nat
  BY <1>1, OnTop, SizesAssumption DEF EvalIdle, At
<1> HIDE DEF b
<1>4. stack' = Append(b, e)
  BY <1>1, <1>2, Concat
<1>5. StackOK(stack', heap', lost')
  <2>1. StackOK(b, heap', lost') /\ Len(b) < MaxFrames
    BY <1>1, <1>2, <1>3
  <2> QED BY <1>3, <1>4, <2>1, Push
<1>6. Ext(vars, stack', Running) = Outside
  <2>1. /\ stack' \in Seq(Frame)
        /\ \A i \in Ids : Ext(vars, stack', Running)[i] = Ext(vars, b, Running)[i] + Held(e, i)
    BY <1>1, <1>4, ExtAppend
  <2>2. Ext(vars, stack', Running) \in [Ids -> Nat]
    BY <1>1, <2>1, ExtType
  <2>3. \A i \in Ids : Outside[i] \in Nat
    BY <1>1
  <2>4. \A i \in Ids : Ext(vars, stack', Running)[i] = Outside[i]
    BY <1>1, <2>1, <2>3
  <2> QED BY <1>1, <2>2, <2>4
<1>7. ~Discarding(stack')
  BY <1>1, <1>4, NotDiscarding
<1> QED BY <1>1, <1>2, <1>5, <1>6, <1>7 DEF Inv, Quiet

LEMMA CallsTwo ==
  ASSUME Inv, EvalIdle, Top.ops # <<>>, Quiet, NEW e \in Frame, NEW f \in EvalFrame, Calls(<<e, f>>), val' = val,
         \A i \in Ids : Held(e, i) = 0 /\ Held(f, i) = 0,
         Step(heap, lost, heap', Outside, lost', HeldIn(Below)),
         e.k \in {"index", "call"}, e.k = "call" /\ ~e.body => ~f.ret
  PROVE  Inv'
<1> DEFINE b == WithTop(Behind)
<1>1. /\ b \in Seq(Frame) /\ StackOK(b, heap', lost') /\ Len(b) = Len(stack) /\ vars \in [Vars -> Value]
      /\ Ext(vars, b, Running) = Outside /\ Outside \in [Ids -> Nat] /\ Sound(heap', Outside, lost') /\ ~Discarding(b)
  BY CallsBase
<1>2. stack' = b \o <<e, f>> /\ Len(stack) + 2 =< MaxFrames /\ val' = Running
  BY DEF Calls, EvalIdle, Idle
<1>3. Len(stack) \in Nat /\ MaxFrames \in Nat /\ f \in Frame
  BY OnTop, SizesAssumption DEF EvalIdle, At, Frame
<1> HIDE DEF b
<1>4. Sits(Append(b, e), heap', lost', Len(b) + 1)
  <2> DEFINE s == Append(b, e)
  <2> DEFINE d == Len(b) + 1
  <2>1. s[d] = e /\ (d > 1 /\ s[d - 1].k = "call" /\ ~s[d - 1].body => Discarding(b))
    BY <1>1, Upper
  <2>2. d < MaxFrames /\ ~Discarding(b)
    BY <1>1, <1>2, <1>3
  <2> HIDE DEF s, d
  <2>3. Sits(s, heap', lost', d)
    BY <2>1, <2>2 DEF Sits
  <2> QED BY <2>3 DEF s, d
<1> DEFINE c == Append(b, e)
<1>5. stack' = Append(c, f)
  BY <1>1, <1>2, <1>3, Concat
<1>6. StackOK(c, heap', lost') /\ c \in Seq(Frame) /\ Len(c) = Len(b) + 1
  <2>1. StackOK(b, heap', lost') /\ Len(b) < MaxFrames
    BY <1>1, <1>2, <1>3
  <2> QED BY <1>4, <2>1, Push
<1>7. \A i \in Ids : Ext(vars, c, Running)[i] = Ext(vars, b, Running)[i] + Held(e, i)
  BY <1>1, ExtAppend
<1> HIDE DEF c
<1>8. StackOK(stack', heap', lost')
  <2>1. Sits(Append(c, f), heap', lost', Len(c) + 1) /\ Len(c) < MaxFrames
    <3>1. Discarding(c) => ~f.ret
      BY <1>1 DEF Discarding, c
    <3> QED BY <1>1, <1>2, <1>3, <1>6, <3>1, EvalSits
  <2> QED BY <1>3, <1>5, <1>6, <2>1, Push
<1>9. Ext(vars, stack', Running) = Outside
  <2>1. /\ stack' \in Seq(Frame)
        /\ \A i \in Ids : Ext(vars, stack', Running)[i] = Ext(vars, c, Running)[i] + Held(f, i)
    BY <1>1, <1>3, <1>5, <1>6, ExtAppend
  <2>2. Ext(vars, stack', Running) \in [Ids -> Nat]
    BY <1>1, <2>1, ExtType
  <2>3. \A i \in Ids : Outside[i] \in Nat
    BY <1>1
  <2>4. \A i \in Ids : Ext(vars, stack', Running)[i] = Outside[i]
    BY <1>1, <1>7, <2>1, <2>3
  <2> QED BY <1>1, <2>2, <2>4
<1>10. ~Discarding(stack')
  BY <1>5, <1>6, NotDiscarding DEF EvalFrame
<1> QED BY <1>1, <1>2, <1>8, <1>9, <1>10 DEF Inv, Quiet

LEMMA NewEval ==
  ASSUME NEW ops \in Expr, NEW body \in BOOLEAN, NEW ret \in BOOLEAN
  PROVE  /\ Eval(ops, body, ret) \in EvalFrame
         /\ Eval(ops, body, ret).ret = ret
         /\ \A i \in Ids : Held(Eval(ops, body, ret), i) = 0
<1> DEFINE f == Eval(ops, body, ret)
<1>1. f = [k |-> "eval", ops |-> ops, body |-> body, ret |-> ret, cur |-> Null, op |-> FALSE, opd |-> Null, set |-> NoSet]
  BY DEF Eval
<1>2. Null \in Value /\ NoSet \in Set /\ NoSet.on = Null
  BY DEF Value, Set, NoSet
<1>3. f \in EvalFrame /\ f.k = "eval" /\ f.cur = Null /\ f.opd = Null /\ f.set.on = Null /\ f.ret = ret
  BY <1>1, <1>2 DEF EvalFrame
<1> HIDE DEF f
<1>4. \A i \in Ids : Held(f, i) = 0
  BY <1>3, HeldBy, NoValue
<1> QED BY <1>3, <1>4 DEF f

LEMMA NewEvals ==
  /\ \A ops \in Expr : Expression(ops) \in EvalFrame /\ \A i \in Ids : Held(Expression(ops), i) = 0
  /\ \A ret \in BOOLEAN : Body(ret) \in EvalFrame /\ Body(ret).ret = ret /\ \A i \in Ids : Held(Body(ret), i) = 0
<1>1. <<>> \in Expr
  BY DEF Expr
<1> QED BY <1>1, NewEval DEF Expression, Body

LEMMA ArgsIn ==
  ASSUME NEW class \in Kinds, NEW of \in Value, NEW args \in Seq(Expr)
  PROVE  /\ Args(class, of, args) \in ArgsFrame /\ Args(class, of, args) \in Frame
         /\ Args(class, of, args).k = "args" /\ Args(class, of, args).class = class /\ Args(class, of, args).of = of
         /\ \A i \in Ids : Held(Args(class, of, args), i) = 0
<1> DEFINE cond == IF class = "while" /\ args # <<>> THEN <<Head(args)>> ELSE <<>>
<1> DEFINE todo == SubSeq(args, Len(cond) + 1, Len(args))
<1> DEFINE a == [k |-> "args", class |-> class, of |-> of, cond |-> cond, got |-> <<>>, todo |-> todo, runs |-> FALSE]
<1>1. Args(class, of, args) = a
  BY DEF Args
<1>2. cond \in Seq(Expr)
  <2>1. args # <<>> => <<Head(args)>> \in Seq(Expr)
    OBVIOUS
  <2> QED BY <2>1
<1> HIDE DEF cond
<1>3. todo \in Seq(Expr)
  <2> DEFINE m == Len(cond) + 1
  <2> DEFINE n == Len(args)
  <2>1. m \in Nat /\ m >= 1 /\ n \in Nat
    BY <1>2
  <2>2. \A i \in 1 .. n : args[i] \in Expr
    OBVIOUS
  <2> HIDE DEF m, n
  <2>3. \A i \in m .. n : args[i] \in Expr
    BY <2>1, <2>2
  <2>4. SubSeq(args, m, n) \in Seq(Expr)
    BY <2>1, <2>3, SubSeqProperties
  <2> QED BY <2>4 DEF m, n
<1> HIDE DEF todo
<1>4. <<>> \in Seq(Value)
  OBVIOUS
<1>5. a \in ArgsFrame
  BY <1>2, <1>3, <1>4 DEF ArgsFrame
<1>6. a.k = "args" /\ a.class = class /\ a.of = of /\ a.got = <<>>
  OBVIOUS
<1> HIDE DEF a
<1>7. \A i \in Ids : Held(a, i) = 0
  BY <1>6, HeldBy, CountNothing
<1> QED BY <1>1, <1>5, <1>6, <1>7 DEF Frame

LEMMA ArgsSits ==
  ASSUME NEW b \in Seq(Frame), ~Discarding(b), NEW a \in ArgsFrame, NEW h, NEW M,
         \/ a.of = Null /\ a.class \in Std
         \/ /\ a.of \in Ids /\ h[a.of].kind = a.class
            /\ \E v \in Ids : (v = a.of \/ (Keeps(h[v].kind) /\ h[v].base = a.of)) /\ (v \in M \/ InStack(b, v) >= 1)
  PROVE  Sits(Append(b, a), h, M, Len(b) + 1)
<1> DEFINE s == Append(b, a)
<1> DEFINE d == Len(b) + 1
<1>1. Len(b) \in Nat /\ s[d] = a /\ a.k = "args" /\ \A e \in 1 .. Len(b) : s[e] = b[e]
  BY DEF ArgsFrame
<1>2. 1 .. d - 1 = 1 .. Len(b)
  BY <1>1
<1>3. \A v \in Ids : v \in M \/ InStack(b, v) >= 1 => HeldBelow(s, M, d, v)
  <2>1. ASSUME NEW v \in Ids, InStack(b, v) >= 1 PROVE HeldBelow(s, M, d, v)
    <3>1. \E e \in 1 .. Len(b) : \E j \in DOMAIN Holds(b[e]) : Holds(b[e])[j] = v
      BY <2>1, InAtLeast
    <3> HIDE DEF s, d
    <3> QED BY <1>1, <1>2, <3>1 DEF HeldBelow
  <2> HIDE DEF s, d
  <2> QED BY <2>1 DEF HeldBelow
<1> HIDE DEF s, d
<1>4. Belongs(s, h, M, d)
  BY <1>1, <1>3 DEF Belongs
<1>5. Sits(s, h, M, d)
  <2>1. ~(d > 1 /\ s[d - 1].k = "call" /\ ~s[d - 1].body)
    <3>1. a \in Frame /\ s = Append(b, a) /\ d = Len(b) + 1
      BY DEF s, d, Frame
    <3> QED BY <3>1, Upper
  <2> QED BY <1>1, <1>4, <2>1 DEF Sits
<1> QED BY <1>5 DEF s, d

LEMMA KindIs ==
  ASSUME NEW h
  PROVE  /\ \A v \in Ids : KindOf(h, v) = h[v].kind
         /\ KindOf(h, Function) = "function" /\ KindOf(h, Empty) = "empty" /\ KindOf(h, Null) = "null"
<1>1. /\ Function # Empty /\ Function # Null /\ Empty # Null
      /\ Function \notin Ids /\ Empty \notin Ids /\ Null \notin Ids
  BY IdsFacts DEF Function, Empty, Null
<1>2. \A v \in Ids : v # Function /\ v # Empty
  BY <1>1
<1>3. \A v \in Ids : KindOf(h, v) = h[v].kind
  BY <1>2 DEF KindOf
<1>4. KindOf(h, Function) = "function" /\ KindOf(h, Empty) = "empty" /\ KindOf(h, Null) = "null"
  BY <1>1 DEF KindOf
<1> QED BY <1>3, <1>4

(* What a value calls: a built-in function, or a function of the script. *)
LEMMA CallFramesAre ==
  ASSUME Inv, stack # <<>>, NEW f \in Value, Callable(f), NEW args \in Seq(Expr),
         NEW b \in Seq(Frame), ~Discarding(b), NEW g, NEW M, f \in Ids => Fixed(heap, g, f) /\ (f \in M \/ InStack(b, f) >= 1)
  PROVE  \/ \E a \in ArgsFrame : /\ CallFrames(f, args) = <<a>> /\ f \in Ids
                                 /\ Sits(Append(b, a), g, M, Len(b) + 1)
                                 /\ \A i \in Ids : Held(a, i) = 0
         \/ \E c \in OtherFrame, e \in EvalFrame :
              /\ CallFrames(f, args) = <<c, e>> /\ c.k = "call" /\ f = Function /\ ~e.ret
              /\ \A i \in Ids : Held(c, i) = 0 /\ Held(e, i) = 0
<1>1. /\ Null \in Value /\ Std \subseteq Kinds /\ "member" \notin Std /\ "function" \notin Std /\ "function" \notin Kinds
      /\ "none" \notin Std
  BY FeaturesAssumption DEF Value, Std, Kinds
<1>2. Sound(heap, Outside, lost) /\ Outside \in [Ids -> Nat] /\ heap \in [Ids -> Cell]
  BY Now DEF Sound
<1>3. f \in Ids => heap[f].kind \in Kinds \cup {"none"}
  BY <1>2, CellFields
<1>4. f \notin Ids => f = Function /\ KindOf(heap, f) = "function" /\ KindOf(heap, f) \notin Std
  BY <1>1 DEF Callable, KindOf, Value, Std
<1>5. CASE f \in Ids /\ heap[f].kind \in Std
  <2> DEFINE a == Args(heap[f].kind, Null, args)
  <2>1. CallFrames(f, args) = <<a>>
    <3>1. KindOf(heap, f) = heap[f].kind /\ heap[f].kind # "member" /\ f # Function
      BY <1>1, <1>5, KindIs, IdsFacts
    <3> QED BY <1>5, <3>1 DEF CallFrames
  <2>2. a \in ArgsFrame /\ a.of = Null /\ a.class \in Std /\ \A i \in Ids : Held(a, i) = 0
    BY <1>1, <1>5, ArgsIn
  <2> HIDE DEF a
  <2>3. Sits(Append(b, a), g, M, Len(b) + 1)
    BY <2>2, ArgsSits
  <2> QED BY <1>5, <2>1, <2>2, <2>3
<1>6. CASE f \in Ids /\ heap[f].kind = "member"
  <2> DEFINE of == heap[f].base
  <2> DEFINE a == Args(heap[of].kind, of, args)
  <2>1. of \in Ids /\ Keeps(heap[f].kind)
    <3>1. CellOK(heap[f], Outside[f] + Owned(heap, Ids, f), f \in lost)
      BY <1>2, <1>6, SoundCell
    <3> QED BY <1>6, <3>1 DEF CellOK, Keeps
  <2>2. heap[of].kind \in Kinds /\ heap[of].kind # "view"
    <3>1. heap[of].kind \in Kinds
      BY <1>6, <2>1, There
    <3>2. CellOK(heap[of], Outside[of] + Owned(heap, Ids, of), of \in lost)
      BY <1>2, <2>1, SoundCell
    <3> QED BY <3>1, <3>2 DEF CellOK
  <2>3. CallFrames(f, args) = <<a>>
    <3>1. KindOf(heap, f) = "member" /\ f # Function /\ KindOf(heap, f) \notin Std
      BY <1>1, <1>6, KindIs, IdsFacts
    <3>2. Class(heap[f].base) = heap[of].kind
      BY <2>1, <2>2, KindIs DEF Class
    <3> QED BY <3>1, <3>2 DEF CallFrames
  <2>4. of \in Value
    BY <2>1, IdsFacts
  <2>5. a \in ArgsFrame /\ a.of = of /\ a.class = heap[of].kind /\ \A i \in Ids : Held(a, i) = 0
    BY <2>2, <2>4, ArgsIn
  <2>6. g[of].kind = heap[of].kind /\ Keeps(g[f].kind) /\ g[f].base = of
    BY <1>6, <2>1 DEF Fixed
  <2> HIDE DEF a, of
  <2>7. Sits(Append(b, a), g, M, Len(b) + 1)
    BY <1>6, <2>1, <2>5, <2>6, ArgsSits
  <2> QED BY <1>6, <2>3, <2>5, <2>7
<1>7. CASE f \notin Ids
  <2> DEFINE c == [k |-> "call", body |-> args = <<>>]
  <2> DEFINE e == IF args = <<>> THEN Body(FALSE) ELSE Eval(args[1], FALSE, FALSE)
  <2>1. CallFrames(f, args) = <<c, e>> /\ f = Function
    <3>1. KindOf(heap, f) \notin Std /\ KindOf(heap, f) # "member" /\ f = Function
      BY <1>4, <1>7
    <3> QED BY <3>1 DEF CallFrames
  <2>2. c \in OtherFrame /\ c.k = "call"
    BY DEF OtherFrame
  <2>3. args # <<>> => args[1] \in Expr
    OBVIOUS
  <2>4. e \in EvalFrame /\ ~e.ret /\ \A i \in Ids : Held(e, i) = 0
    <3>1. CASE args = <<>>
      BY <3>1, NewEvals
    <3>2. CASE args # <<>>
      BY <2>3, <3>2, NewEval
    <3> QED BY <3>1, <3>2
  <2> HIDE DEF c, e
  <2>5. \A i \in Ids : Held(c, i) = 0
    BY <2>2, HeldBy
  <2> QED BY <2>1, <2>2, <2>4, <2>5
<1>8. f \in Ids => heap[f].kind \in Std \cup {"member"}
  BY <1>1, <1>3, KindIs DEF Callable
<1> QED BY <1>5, <1>6, <1>7, <1>8

LEMMA CallsKeeps ==
  ASSUME Inv, EvalIdle, Top.ops # <<>>, Quiet, val' = val, NEW f \in Value, Callable(f), NEW args \in Seq(Expr),
         Calls(CallFrames(f, args)), Step(heap, lost, heap', Outside, lost', HeldIn(Below)),
         f \in Ids => Fixed(heap, heap', f) /\ (f \in lost' \/ f = Top.opd)
  PROVE  Inv'
<1> DEFINE b == WithTop(Behind)
<1>1. b \in Seq(Frame) /\ ~Discarding(b) /\ Len(b) = Len(stack) /\ (f \in Ids /\ f = Top.opd => InStack(b, f) >= 1)
  BY CallsBase
<1>2. stack # <<>>
  BY DEF EvalIdle, At
<1> HIDE DEF b
<1>3. f \in Ids => Fixed(heap, heap', f) /\ (f \in lost' \/ InStack(b, f) >= 1)
  BY <1>1
<1>4. \/ \E a \in ArgsFrame : /\ CallFrames(f, args) = <<a>> /\ f \in Ids
                              /\ Sits(Append(b, a), heap', lost', Len(b) + 1)
                              /\ \A i \in Ids : Held(a, i) = 0
      \/ \E c \in OtherFrame, e \in EvalFrame :
           /\ CallFrames(f, args) = <<c, e>> /\ c.k = "call" /\ f = Function /\ ~e.ret
           /\ \A i \in Ids : Held(c, i) = 0 /\ Held(e, i) = 0
  BY <1>1, <1>2, <1>3, CallFramesAre
<1>5. ASSUME NEW a \in ArgsFrame, CallFrames(f, args) = <<a>>, Sits(Append(b, a), heap', lost', Len(b) + 1),
             \A i \in Ids : Held(a, i) = 0
      PROVE  Inv'
  <2>1. a \in Frame /\ a.k = "args"
    BY DEF Frame, ArgsFrame
  <2>2. Calls(<<a>>) /\ Sits(Append(WithTop(Behind), a), heap', lost', Len(stack) + 1)
    BY <1>1, <1>5 DEF b
  <2> QED BY <1>5, <2>1, <2>2, CallsOne
<1>6. ASSUME NEW c \in OtherFrame, NEW e \in EvalFrame, CallFrames(f, args) = <<c, e>>, c.k = "call", ~e.ret,
             \A i \in Ids : Held(c, i) = 0 /\ Held(e, i) = 0
      PROVE  Inv'
  <2>1. c \in Frame
    BY DEF Frame
  <2>2. Calls(<<c, e>>)
    BY <1>6
  <2> QED BY <1>6, <2>1, <2>2, CallsTwo
<1> QED BY <1>4, <1>5, <1>6

LEMMA NoStep ==
  ASSUME Inv, stack # <<>>, UNCHANGED <<heap, lost>>
  PROVE  Step(heap, lost, heap', Outside, lost', HeldIn(Below)) /\ \A f \in Ids : Fixed(heap, heap', f)
<1>1. Sound(heap, Outside, lost) /\ Outside \in [Ids -> Nat]
  BY Now
<1>2. Step(heap, lost, heap, Outside, lost, HeldIn(Below))
  BY <1>1, SameStep
<1> QED BY <1>2 DEF Fixed

LEMMA AtToken ==
  ASSUME Inv, Features = {}, NEW t, StartsWith(t) \/ GoesOn(t)
  PROVE  /\ EvalIdle /\ Top.ops # <<>> /\ stack # <<>> /\ At("eval") /\ val = Running /\ val \notin Ids
         /\ Token \in Tokens /\ Token[1] = t /\ Top.opd \in Value
         /\ t = "std" => Token[2] \in Std
         /\ t \in {"entry", "setEntry"} => Token[2] \in Keys
         /\ t \in {"var", "setVar"} => Token[2] \in Vars
         /\ t \in {"brackets", "index", "setIndex"} => Token[2] \in Expr
         /\ t \in {"call", "callMember"} => Token[2] \in Seq(Expr)
         /\ t = "callEntry" => Token[2] \in Keys /\ Token[3] \in Seq(Expr)
<1>1. EvalIdle /\ Top.ops # <<>> /\ stack # <<>> /\ At("eval") /\ val = Running /\ Token[1] = t
  BY DEF StartsWith, GoesOn, Comes, EvalIdle, At, Idle, Token
<1>2. Token \in Tokens /\ Top.opd \in Value
  BY <1>1, TokenFacts, EvalTop
<1> QED BY <1>1, <1>2, TokenParts, IdsFacts

LEMMA CallKeeps ==
  ASSUME Inv, Features = {}, Call
  PROVE  Inv'
<1>1. EvalIdle /\ Top.ops # <<>> /\ stack # <<>> /\ val \notin Ids /\ Token[2] \in Seq(Expr) /\ Top.opd \in Value
  BY AtToken DEF Call
<1>2. CASE ~Callable(Top.opd)
  BY <1>1, <1>2, ErrorKeeps DEF Call
<1>3. CASE Callable(Top.opd)
  <2>1. Calls(CallFrames(Top.opd, Token[2])) /\ val' = val /\ UNCHANGED <<heap, lost>> /\ Quiet
    BY <1>3, SameQuiet DEF Call, Same
  <2>2. Step(heap, lost, heap', Outside, lost', HeldIn(Below)) /\ \A f \in Ids : Fixed(heap, heap', f)
    BY <1>1, <2>1, NoStep
  <2> QED BY <1>1, <1>3, <2>1, <2>2, CallsKeeps
<1> QED BY <1>2, <1>3

LEMMA CallMemberKeeps ==
  ASSUME Inv, Features = {}, CallMember
  PROVE  Inv'
<1>1. EvalIdle /\ Top.ops # <<>> /\ stack # <<>> /\ val \notin Ids /\ Token[2] \in Seq(Expr) /\ Top.opd \in Value /\ At("eval")
  BY AtToken DEF CallMember
<1>2. CASE ~HasMembers(Top.opd)
  BY <1>1, <1>2, ErrorKeeps DEF CallMember
<1>3. CASE HasMembers(Top.opd)
  <2> DEFINE a == Args(Class(Top.opd), Top.opd, Token[2])
  <2>1. Calls(<<a>>) /\ val' = val /\ UNCHANGED <<heap, lost>> /\ Quiet
    BY <1>3, SameQuiet DEF CallMember, Same
  <2>2. Step(heap, lost, heap', Outside, lost', HeldIn(Below))
    BY <1>1, <2>1, NoStep
  <2>3. Top.opd \in Ids
    BY <1>1, <1>3, KindIs DEF HasMembers, Class, Value
  <2>4. heap[Top.opd].kind \in Kinds /\ Class(Top.opd) = heap[Top.opd].kind
    <3>1. heap[Top.opd].kind \in Kinds /\ heap[Top.opd].kind # "none"
      BY <1>1, <2>3, OperandThere
    <3>2. heap[Top.opd].kind # "view"
      BY <1>1, <2>3, CellNow
    <3> QED BY <2>3, <3>1, <3>2, KindIs DEF Class
  <2>5. a \in ArgsFrame /\ a \in Frame /\ a.k = "args" /\ a.class = heap[Top.opd].kind /\ a.of = Top.opd
        /\ \A i \in Ids : Held(a, i) = 0
    BY <1>1, <2>4, ArgsIn
  <2> DEFINE b == WithTop(Behind)
  <2>6. b \in Seq(Frame) /\ ~Discarding(b) /\ Len(b) = Len(stack) /\ InStack(b, Top.opd) >= 1
    BY <1>1, <2>2, <2>3, CallsBase
  <2> HIDE DEF a, b
  <2>7. Sits(Append(b, a), heap, lost, Len(b) + 1)
    BY <2>3, <2>5, <2>6, ArgsSits
  <2>8. Sits(Append(WithTop(Behind), a), heap', lost', Len(stack) + 1)
    BY <2>1, <2>6, <2>7 DEF b
  <2> QED BY <1>1, <2>1, <2>2, <2>5, <2>8, CallsOne
<1> QED BY <1>2, <1>3

LEMMA BracketsKeeps ==
  ASSUME Inv, Features = {}, Brackets
  PROVE  Inv'
<1> DEFINE e == Expression(Token[2])
<1>1. EvalIdle /\ Top.ops # <<>> /\ stack # <<>> /\ Token[2] \in Expr
  BY AtToken DEF Brackets
<1>2. Calls(<<e>>) /\ val' = val /\ UNCHANGED <<heap, lost>> /\ Quiet
  BY SameQuiet DEF Brackets, Same
<1>3. Step(heap, lost, heap', Outside, lost', HeldIn(Below))
  BY <1>1, <1>2, NoStep
<1>4. e \in EvalFrame /\ e \in Frame /\ e.k = "eval" /\ \A i \in Ids : Held(e, i) = 0
  BY <1>1, NewEvals DEF EvalFrame, Frame
<1>5. WithTop(Behind) \in Seq(Frame) /\ ~Discarding(WithTop(Behind)) /\ Len(WithTop(Behind)) = Len(stack)
  BY <1>1, <1>3, CallsBase
<1> HIDE DEF e
<1>6. Sits(Append(WithTop(Behind), e), heap', lost', Len(stack) + 1)
  BY <1>4, <1>5, EvalSits
<1> QED BY <1>1, <1>2, <1>3, <1>4, <1>6, CallsOne

LEMMA IndexKeeps ==
  ASSUME Inv, Features = {}, Index
  PROVE  Inv'
<1> DEFINE e == Expression(Token[2])
<1> DEFINE c == [k |-> "index", of |-> Top.opd]
<1>1. EvalIdle /\ Top.ops # <<>> /\ stack # <<>> /\ Token[2] \in Expr /\ Top.opd \in Value
  BY AtToken DEF Index
<1>2. Calls(<<c, e>>) /\ val' = val /\ UNCHANGED <<heap, lost>> /\ Quiet
  BY SameQuiet DEF Index, Same
<1>3. Step(heap, lost, heap', Outside, lost', HeldIn(Below))
  BY <1>1, <1>2, NoStep
<1>4. e \in EvalFrame /\ \A i \in Ids : Held(e, i) = 0
  BY <1>1, NewEvals
<1>5. c \in Frame /\ c.k = "index"
  BY <1>1 DEF Frame, OtherFrame
<1> HIDE DEF e, c
<1>6. \A i \in Ids : Held(c, i) = 0
  BY <1>5, HeldBy
<1> QED BY <1>1, <1>2, <1>3, <1>4, <1>5, <1>6, CallsTwo

-----------------------------------------------------------------------------
(* What comes back to an operand, or ends it.                              *)

LEMMA Returning ==
  ASSUME Inv, stack # <<>>, NEW v
  PROVE  /\ Ext(vars, Below, v) \in [Ids -> Nat] /\ Outside \in [Ids -> Nat] /\ Sound(heap, Outside, lost)
         /\ \A i \in Ids : /\ Ext(vars, Below, v)[i] = Outside[i] - Held(Top, i) - Is(val, i) + Is(v, i)
                           /\ Outside[i] \in Nat /\ Held(Top, i) \in Nat /\ Is(val, i) \in {0, 1} /\ Is(v, i) \in {0, 1}
                           /\ Held(Top, i) + Is(val, i) =< Outside[i]
                           /\ i \in HeldIn(Below) => Held(Top, i) + Is(val, i) + 1 =< Outside[i]
<1>1. ASSUME NEW i \in Ids
      PROVE  /\ Ext(vars, Below, v)[i] = Outside[i] - Held(Top, i) - Is(val, i) + Is(v, i)
             /\ Outside[i] \in Nat /\ Held(Top, i) \in Nat /\ Is(val, i) \in {0, 1} /\ Is(v, i) \in {0, 1}
             /\ Held(Top, i) + Is(val, i) =< Outside[i]
             /\ i \in HeldIn(Below) => Held(Top, i) + Is(val, i) + 1 =< Outside[i]
  <2>1. /\ Outside[i] = Around[i] + Held(Top, i) + Is(val, i)
        /\ Outside[i] \in Nat /\ Around[i] \in Nat /\ Held(Top, i) \in Nat /\ Is(val, i) \in {0, 1}
        /\ i \in HeldIn(Below) => Around[i] >= 1
    BY Now
  <2>2. Ext(vars, Below, v)[i] = Around[i] + Is(v, i) /\ Is(v, i) \in {0, 1}
    BY Upon
  <2> QED BY <2>1, <2>2
<1> QED BY <1>1, Now, Upon

LEMMA ReturnKeeps ==
  ASSUME Inv, stack # <<>>, Quiet, NEW v \in Value, Return(v), v \in Ids /\ Top.k = "eval" => Top.ret,
         Step(heap, lost, heap', Ext(vars, Below, v), lost', HeldIn(Below))
  PROVE  Inv'
  BY Popped DEF Return

LEMMA OtherTop ==
  ASSUME Inv, stack # <<>>, Top.k \notin {"eval", "args"}
  PROVE  \A i \in Ids : Held(Top, i) = 0
  BY HeldBy

LEMMA IndexedKeeps ==
  ASSUME Inv, MaxTags < TagLimit, Indexed
  PROVE  Inv'
<1>1. stack # <<>> /\ Top.k = "index" /\ val \in Value
  BY Now DEF Indexed, At, Idle
<1>2. \A i \in Ids : Held(Top, i) = 0
  BY <1>1, OtherTop
<1>3. IsFiniteSet(DOMAIN <<val>>) /\ \A i : Count(<<val>>, i) = Is(val, i)
  BY OneReleased
<1>4. Quiet
  BY DEF Indexed, Quiet, Inv
<1>5. CASE Return(Null) /\ heap' = heap /\ lost' = lost \cup CountedIn(heap, <<val>>)
  <2>1. \A i \in Ids : Ext(vars, Below, Null)[i] = Outside[i] - Count(<<val>>, i)
    BY <1>1, <1>2, <1>3, Returning, NoValue
  <2>2. Step(heap, lost, heap, Ext(vars, Below, Null), lost', HeldIn(Below))
    BY <1>1, <1>3, <1>5, <2>1, ForgetStep, Returning
  <2> QED BY <1>1, <1>4, <1>5, <2>2, ReturnKeeps, KindFacts
<1>6. CASE Return(Null) /\ heap' = Release(heap, val) /\ lost' = lost
  <2>1. \A i \in Ids : Ext(vars, Below, Null)[i] = Outside[i] - Count(<<val>>, i)
                       /\ (i \in HeldIn(Below) => Ext(vars, Below, Null)[i] >= 1)
    BY <1>1, <1>2, <1>3, Returning, NoValue
  <2>2. Step(heap, lost, ReleaseAll(heap, <<val>>), Ext(vars, Below, Null), lost, HeldIn(Below))
    BY <1>1, <1>3, <2>1, ReleaseStep, Returning
  <2> QED BY <1>1, <1>4, <1>6, <2>2, ReturnKeeps, KindFacts DEF Release
<1>7. CASE HasRoom(heap) /\ Return(Place(heap)) /\ heap' = Release(New(heap, "plain", Null), val) /\ lost' = lost
  <2> DEFINE p == Place(heap)
  <2>1. p \in Value /\ "plain" \in Kinds /\ "plain" # "view" /\ ~Keeps("plain") /\ Null \in Value /\ MayHold(heap, Null)
    BY <1>7, PlaceFree, IdsFacts, KindFacts
  <2> HIDE DEF p
  <2>2. \A i \in Ids : /\ Ext(vars, Below, p)[i] = Outside[i] - Count(<<val>>, i) + Is(p, i) /\ Count(<<val>>, i) =< Outside[i]
                       /\ i \in HeldIn(Below) => Outside[i] >= 1 /\ Ext(vars, Below, p)[i] >= 1
    BY <1>1, <1>2, <1>3, Returning
  <2>3. Outside \in [Ids -> Nat] /\ Sound(heap, Outside, lost) /\ Ext(vars, Below, p) \in [Ids -> Nat]
    BY <1>1, Returning
  <2>4. Step(heap, lost, ReleaseAll(New(heap, "plain", Null), <<val>>), Ext(vars, Below, p), lost, HeldIn(Below))
    BY <1>3, <1>7, <2>1, <2>2, <2>3, NewReleaseStep DEF p
  <2>5. heap' = ReleaseAll(New(heap, "plain", Null), <<val>>) /\ Return(p)
    BY <1>7 DEF p, Release
  <2> QED BY <1>1, <1>4, <1>7, <2>1, <2>4, <2>5, ReturnKeeps
<1> QED BY <1>5, <1>6, <1>7 DEF Indexed

LEMMA RetainForgetStep ==
  ASSUME NEW h, NEW X \in [Ids -> Nat], NEW L, Sound(h, X, L), MaxTags < TagLimit,
         NEW v \in Value, MayHold(h, v), v \in Ids => h[v].kind # "none",
         NEW vs, IsFiniteSet(DOMAIN vs), \A i \in Ids : Count(vs, i) =< X[i] + Is(v, i),
         NEW Y \in [Ids -> Nat], \A i \in Ids : Y[i] = X[i] - Count(vs, i) + Is(v, i),
         NEW P, \A i \in Ids : i \in P => X[i] >= 1
  PROVE  /\ Step(h, L, Retain(h, v), Y, L \cup CountedIn(h, vs), P)
         /\ \A i \in Ids : h[i].kind # "none" => Fixed(h, Retain(h, v), i)
<1> DEFINE Z == [i \in Ids |-> X[i] + Is(v, i)]
<1> DEFINE g == Retain(h, v)
<1>1. \A i \in Ids : X[i] \in Nat /\ Count(vs, i) \in Nat /\ Is(v, i) \in {0, 1}
  BY CountType, IsType
<1>2. Z \in [Ids -> Nat] /\ \A i \in Ids : Z[i] = X[i] + Is(v, i)
  BY <1>1
<1> HIDE DEF Z
<1>3. Step(h, L, g, Z, L, P)
  BY <1>2, RetainStep
<1>4. Sound(g, Z, L) /\ \A i \in Ids : g[i].kind = h[i].kind /\ g[i].base = h[i].base
  BY <1>2, RetainSound
<1>5. \A i \in Ids : Y[i] = Z[i] - Count(vs, i)
  BY <1>1, <1>2
<1> HIDE DEF g
<1>6. Step(g, L, g, Y, L \cup CountedIn(g, vs), P)
  BY <1>2, <1>4, <1>5, ForgetStep
<1>7. CountedIn(g, vs) = CountedIn(h, vs)
  <2>1. \A i \in Ids : Counted(g, i) /\ Counted(h, i)
    BY <1>2, <1>4, SoundCell
  <2>2. \A i : i \notin Ids => ~Counted(g, i) /\ ~Counted(h, i)
    BY DEF Counted
  <2> QED BY <2>1, <2>2 DEF CountedIn
<1>8. Step(h, L, g, Y, L \cup CountedIn(h, vs), P)
  BY <1>3, <1>6, <1>7, TwoSteps
<1>9. ASSUME NEW i \in Ids, h[i].kind # "none" PROVE Fixed(h, g, i)
  <2>1. CellOK(h[i], X[i] + Owned(h, Ids, i), i \in L)
    BY SoundCell
  <2>2. Keeps(h[i].kind) => h[i].base \in Ids
    BY <2>1 DEF CellOK
  <2> QED BY <1>4, <2>2 DEF Fixed
<1> QED BY <1>8, <1>9 DEF g

LEMMA CallEntryKeeps ==
  ASSUME Inv, MaxTags < TagLimit, Features = {}, CallEntry
  PROVE  Inv'
<1> DEFINE e == EntryOf(Top.opd, Token[2])
<1>1. /\ EvalIdle /\ Top.ops # <<>> /\ stack # <<>> /\ val \notin Ids /\ Token[2] \in Keys /\ Token[3] \in Seq(Expr)
      /\ Top.opd \in Value /\ At("eval") /\ val = Running
  BY AtToken DEF CallEntry
<1>2. e \in Value /\ (e \in Ids => heap[e].kind # "none")
  <2>1. CASE KindOf(heap, Top.opd) = "dict"
    <3>1. Top.opd \in Ids /\ e = heap[Top.opd].entries[Token[2]]
      BY <1>1, <2>1, KindIs DEF EntryOf, Value
    <3>2. heap[Top.opd].entries \in [Keys -> Value]
      BY <1>1, <3>1, CellNow
    <3> QED BY <1>1, <3>1, <3>2, There
  <2>2. CASE KindOf(heap, Top.opd) # "dict"
    BY <2>2, KindFacts, IdsFacts DEF EntryOf
  <2> QED BY <2>1, <2>2
<1>3. MayHold(heap, e) /\ heap' = Retain(heap, e) /\ vars' = vars /\ exited' = exited /\ length' = length
  BY DEF CallEntry
<1>4. Sound(heap, Outside, lost) /\ Outside \in [Ids -> Nat] /\ \A i \in Ids : i \in HeldIn(Below) => Outside[i] >= 1
  BY <1>1, Returning
<1>5. CASE Callable(e)
  <2>1. /\ Calls(CallFrames(e, Token[3])) /\ lost' = lost \cup CountedIn(heap, <<e>>) /\ val' = val /\ Quiet
    BY <1>5 DEF CallEntry, Quiet, Inv
  <2> HIDE DEF e
  <2>2. IsFiniteSet(DOMAIN <<e>>) /\ \A i : Count(<<e>>, i) = Is(e, i)
    BY OneReleased
  <2>3. \A i \in Ids : Outside[i] \in Nat /\ Is(e, i) \in {0, 1}
    BY <1>4, IsType
  <2>4. \A i \in Ids : Count(<<e>>, i) =< Outside[i] + Is(e, i) /\ Outside[i] = Outside[i] - Count(<<e>>, i) + Is(e, i)
    BY <2>2, <2>3
  <2>5. /\ Step(heap, lost, Retain(heap, e), Outside, lost \cup CountedIn(heap, <<e>>), HeldIn(Below))
        /\ \A i \in Ids : heap[i].kind # "none" => Fixed(heap, Retain(heap, e), i)
    BY <1>2, <1>3, <1>4, <2>2, <2>4, RetainForgetStep
  <2>6. e \in Ids => e \in lost'
    <3>1. e \in Ids => Counted(heap, e)
      BY <1>1, CellNow
    <3>2. e \in {<<e>>[i] : i \in DOMAIN <<e>>}
      OBVIOUS
    <3> QED BY <2>1, <3>1, <3>2 DEF CountedIn
  <2> QED BY <1>1, <1>2, <1>3, <1>5, <2>1, <2>5, <2>6, CallsKeeps
<1>6. CASE ~Callable(e)
  <2>1. Return(Null) /\ lost' = lost \cup CountedIn(heap, Append(Holds(Top), e)) /\ Quiet
    BY <1>6 DEF CallEntry, Quiet, Inv
  <2> HIDE DEF e
  <2> DEFINE vs == Append(Holds(Top), e)
  <2>2. vs \in Seq(Value) /\ IsFiniteSet(DOMAIN vs)
    <3>1. Holds(Top) \in Seq(Value)
      BY <1>1, OnTop, HoldsType
    <3>2. vs \in Seq(Value)
      BY <1>2, <3>1
    <3> HIDE DEF vs
    <3> QED BY <3>2, CountSeqType
  <2>3. \A i \in Ids : Count(vs, i) = Held(Top, i) + Is(e, i)
    <3>1. Holds(Top) \in Seq(Value)
      BY <1>1, OnTop, HoldsType
    <3> QED BY <1>2, <3>1, CountAppend DEF Held
  <2> HIDE DEF vs
  <2>4. Ext(vars, Below, Null) \in [Ids -> Nat]
    BY <1>1, Returning
  <2>5. ASSUME NEW i \in Ids
        PROVE  /\ Count(vs, i) =< Outside[i] + Is(e, i)
               /\ Ext(vars, Below, Null)[i] = Outside[i] - Count(vs, i) + Is(e, i)
    <3>1. /\ Ext(vars, Below, Null)[i] = Outside[i] - Held(Top, i) - Is(val, i) + Is(Null, i)
          /\ Outside[i] \in Nat /\ Held(Top, i) \in Nat /\ Held(Top, i) + Is(val, i) =< Outside[i]
      BY <1>1, Returning
    <3>2. Is(Null, i) = 0 /\ Is(val, i) = 0 /\ Is(e, i) \in {0, 1}
      BY <1>1, NoValue, IsType
    <3>3. Count(vs, i) = Held(Top, i) + Is(e, i)
      BY <2>3
    <3> QED BY <3>1, <3>2, <3>3
  <2>6. Step(heap, lost, Retain(heap, e), Ext(vars, Below, Null), lost \cup CountedIn(heap, vs), HeldIn(Below))
    BY <1>2, <1>3, <1>4, <2>2, <2>4, <2>5, RetainForgetStep
  <2> QED BY <1>1, <1>3, <2>1, <2>6, ReturnKeeps, KindFacts, IdsFacts DEF vs
<1> QED BY <1>5, <1>6

LEMMA NegateKeeps ==
  ASSUME Inv, MaxTags < TagLimit, Features = {}, Negate
  PROVE  Inv'
<1>1. EvalIdle /\ Top.ops # <<>> /\ stack # <<>> /\ Top.opd \in Value /\ At("eval") /\ val = Running
  BY AtToken DEF Negate
<1>2. CASE KindOf(heap, Top.opd) = "plain"
  <2>1. Same /\ HasRoom(heap)
        /\ Becomes(Release(New(heap, "plain", Null), Top.opd), [Behind EXCEPT !.opd = Place(heap)])
    BY <1>2 DEF Negate, Same
  <2> QED BY <1>1, <2>1, KindFacts, NewOperandKeeps
<1>3. CASE KindOf(heap, Top.opd) # "plain"
  <2> DEFINE L == lost \cup CountedIn(heap, <<Top.cur, Top.set.on>>)
  <2> DEFINE Z == [i \in Ids |-> Outside[i] - Is(Top.cur, i) - Is(Top.set.on, i)]
  <2> DEFINE Y == Ext(vars, Below, Null)
  <2>1. heap' = ReleaseAll(heap, <<Top.opd>>) /\ Return(Null) /\ lost' = L /\ Quiet
    BY <1>3 DEF Negate, Quiet, Inv, Release
  <2>2. /\ IsFiniteSet(DOMAIN <<Top.opd>>) /\ \A i : Count(<<Top.opd>>, i) = Is(Top.opd, i)
    BY OneReleased
  <2>3. IsFiniteSet(DOMAIN <<Top.cur, Top.set.on>>)
    <3>1. DOMAIN <<Top.cur, Top.set.on>> = 1 .. 2
      OBVIOUS
    <3> QED BY <3>1, UpToFinite
  <2>4. \A i \in Ids : Count(<<Top.cur, Top.set.on>>, i) = Is(Top.cur, i) + Is(Top.set.on, i)
    BY CountTwo
  <2>5. Y \in [Ids -> Nat] /\ Outside \in [Ids -> Nat] /\ Sound(heap, Outside, lost)
    BY <1>1, Returning
  <2>6. ASSUME NEW i \in Ids
        PROVE  /\ Outside[i] - Is(Top.cur, i) - Is(Top.set.on, i) \in Nat
               /\ Outside[i] - Is(Top.cur, i) - Is(Top.set.on, i) = Outside[i] - Count(<<Top.cur, Top.set.on>>, i)
               /\ Y[i] = Outside[i] - Is(Top.cur, i) - Is(Top.set.on, i) - Is(Top.opd, i)
               /\ i \in HeldIn(Below) => Y[i] >= 1
    <3>1. /\ Y[i] = Outside[i] - Held(Top, i) - Is(val, i) + Is(Null, i)
          /\ Outside[i] \in Nat /\ Held(Top, i) + Is(val, i) =< Outside[i]
          /\ i \in HeldIn(Below) => Held(Top, i) + Is(val, i) + 1 =< Outside[i]
      BY <1>1, Returning
    <3>2. Is(val, i) = 0 /\ Is(Null, i) = 0
      BY <1>1, NoValue
    <3>3. Held(Top, i) = Is(Top.cur, i) + Is(Top.opd, i) + Is(Top.set.on, i)
      BY <1>1, EvalTop
    <3>4. Is(Top.cur, i) \in {0, 1} /\ Is(Top.opd, i) \in {0, 1} /\ Is(Top.set.on, i) \in {0, 1}
      BY IsType
    <3>5. Count(<<Top.cur, Top.set.on>>, i) = Is(Top.cur, i) + Is(Top.set.on, i)
      BY <2>4
    <3> HIDE DEF Y
    <3> QED BY <3>1, <3>2, <3>3, <3>4, <3>5
  <2>7. Z \in [Ids -> Nat] /\ \A i \in Ids : Z[i] = Outside[i] - Count(<<Top.cur, Top.set.on>>, i) /\ Y[i] = Z[i] - Count(<<Top.opd>>, i)
    BY <2>2, <2>6
  <2> HIDE DEF Y, Z
  <2>8. Step(heap, lost, heap, Z, L, HeldIn(Below))
    BY <2>3, <2>5, <2>7, ForgetStep
  <2>9. Sound(heap, Z, L)
    BY <2>8 DEF Step
  <2>10. Step(heap, L, ReleaseAll(heap, <<Top.opd>>), Y, L, HeldIn(Below))
    BY <2>2, <2>5, <2>6, <2>7, <2>9, ReleaseStep
  <2>11. Step(heap, lost, heap', Y, lost', HeldIn(Below))
    BY <2>1, <2>8, <2>10, TwoSteps
  <2> QED BY <1>1, <2>1, <2>11, ReturnKeeps, KindFacts, IdsFacts DEF Y
<1> QED BY <1>2, <1>3

LEMMA NotesKeeps ==
  ASSUME Inv, EvalIdle, Top.ops # <<>>, Notes,
         \/ Token[1] = "setVar" /\ Token[2] \in Vars /\ Top.opd = Null
         \/ Token[1] = "setEntry" /\ Token[2] \in Keys
         \/ Token[1] = "setIndex" /\ Token[2] \in Expr
  PROVE  Inv'
<1>1. At("eval") /\ stack # <<>> /\ val \notin Ids /\ Idle /\ Top.opd \in Value
  BY EvalTop, IdsFacts DEF EvalIdle, At, Idle
<1>2. CASE ~(Top.cur = Null /\ Top.set.to = "none")
  <2>1. GiveUp /\ broke' = FALSE
    BY <1>2 DEF Notes, Inv
  <2> QED BY <1>1, <2>1, GiveUpKeeps
<1>3. CASE Top.cur = Null /\ Top.set.to = "none"
  <2> DEFINE s == [to |-> Token[1], on |-> Top.opd, name |-> Token[2]]
  <2> DEFINE f == [Behind EXCEPT !.opd = Null, !.set = s]
  <2>1. Becomes(heap, f) /\ Same
    BY <1>3 DEF Notes
  <2>2. s \in Set /\ s.on = Top.opd
    BY <1>1 DEF Set
  <2> HIDE DEF s
  <2>3. Behind \in EvalFrame /\ Behind.cur = Top.cur /\ Behind.ret = Top.ret
    BY <1>1, TokenFacts
  <2>4. f \in EvalFrame /\ f.k = "eval" /\ f.cur = Top.cur /\ f.opd = Null /\ f.set = s /\ f.ret = Top.ret
    <3>1. Null \in Value
      BY DEF Value
    <3> QED BY <2>2, <2>3, <3>1 DEF EvalFrame
  <2> HIDE DEF f
  <2>5. f \in Frame
    BY <2>4 DEF Frame
  <2>6. Top.set.on = Null
    BY <1>1, <1>3, EvalTop DEF Set
  <2>7. \A i \in Ids : Held(f, i) = Held(Top, i)
    <3>1. SUFFICES ASSUME NEW i \in Ids PROVE Held(f, i) = Held(Top, i)
      OBVIOUS
    <3>2. Held(f, i) = Is(Null, i) + Is(Null, i) + Is(Top.opd, i)
      BY <1>3, <2>2, <2>4, HeldBy
    <3>3. Held(Top, i) = Is(Null, i) + Is(Top.opd, i) + Is(Null, i)
      BY <1>1, <1>3, <2>6, EvalTop
    <3> QED BY <3>2, <3>3, IsType
  <2>8. Ext(vars, Append(Below, f), Running) \in [Ids -> Nat] /\ Outside \in [Ids -> Nat] /\ Sound(heap, Outside, lost)
    BY <1>1, <2>5, Change, Now
  <2>9. \A i \in Ids : Ext(vars, Append(Below, f), Running)[i] = Outside[i]
    BY <1>1, <2>5, <2>7, Change
  <2>10. Step(heap, lost, heap, Ext(vars, Append(Below, f), Running), lost, HeldIn(Below))
    BY <2>8, <2>9, SameStep
  <2> QED BY <1>1, <2>1, <2>4, <2>10, BecomesEval, SameQuiet DEF Becomes
<1> QED BY <1>2, <1>3

LEMMA SetKeeps ==
  ASSUME Inv, Features = {}, SetVariable \/ SetMember
  PROVE  Inv'
<1>1. CASE SetVariable
  <2>1. EvalIdle /\ Top.ops # <<>> /\ Token[1] = "setVar" /\ Token[2] \in Vars /\ Top.opd = Null
    BY <1>1, AtToken DEF SetVariable, StartsWith
  <2> QED BY <1>1, <2>1, NotesKeeps DEF SetVariable
<1>2. CASE SetMember
  <2>1. CASE GoesOn("setEntry")
    <3>1. EvalIdle /\ Top.ops # <<>> /\ stack # <<>> /\ val \notin Ids /\ Token[1] = "setEntry" /\ Token[2] \in Keys
      BY <2>1, AtToken
    <3> QED BY <1>2, <3>1, NotesKeeps, ErrorKeeps DEF SetMember
  <2>2. CASE GoesOn("setIndex")
    <3>1. EvalIdle /\ Top.ops # <<>> /\ stack # <<>> /\ val \notin Ids /\ Token[1] = "setIndex" /\ Token[2] \in Expr
      BY <2>2, AtToken
    <3> QED BY <1>2, <3>1, NotesKeeps, ErrorKeeps DEF SetMember
  <2> QED BY <1>2, <2>1, <2>2 DEF SetMember
<1> QED BY <1>1, <1>2

LEMMA ResumeKeeps ==
  ASSUME Inv, Resume
  PROVE  Inv'
<1>1. At("eval") /\ stack # <<>> /\ val \in Value /\ Top \in EvalFrame
  <2>1. At("eval") /\ stack # <<>> /\ val # Running
    BY DEF Resume, At, Idle
  <2> QED BY <2>1, EvalTop, Now
<1>2. CASE val = Null
  <2>1. GiveUp /\ broke' = FALSE /\ val \notin Ids
    BY <1>2, IdsFacts DEF Resume, Inv
  <2> QED BY <1>1, <2>1, GiveUpKeeps
<1>3. CASE val # Null
  <2> DEFINE f == [Top EXCEPT !.opd = val]
  <2> DEFINE Y == Ext(vars, Append(Below, f), Running)
  <2>1. heap' = ReleaseAll(heap, <<Top.opd>>) /\ stack' = WithTop(f) /\ val' = Running /\ Same
    BY <1>3 DEF Resume, Becomes, Release
  <2>2. f \in EvalFrame /\ f.ret = Top.ret /\ f \in Frame /\ \A i \in Ids : Held(f, i) = Is(Top.cur, i) + Is(val, i) + Is(Top.set.on, i)
    BY <1>1, EvalOpd DEF Frame
  <2> HIDE DEF f
  <2>3. Y \in [Ids -> Nat] /\ Outside \in [Ids -> Nat] /\ Sound(heap, Outside, lost)
    BY <1>1, <2>2, Upon, Now
  <2>4. IsFiniteSet(DOMAIN <<Top.opd>>) /\ \A i : Count(<<Top.opd>>, i) = Is(Top.opd, i)
    BY OneReleased
  <2>5. ASSUME NEW i \in Ids
        PROVE  Y[i] = Outside[i] - Count(<<Top.opd>>, i) /\ (i \in HeldIn(Below) => Y[i] >= 1)
    <3>1. Y[i] = Around[i] + Held(f, i) + Is(Running, i)
      <4>1. f \in Frame
        BY <2>2
      <4> QED BY <1>1, <4>1, UponOne
    <3>2. /\ Outside[i] = Around[i] + Held(Top, i) + Is(val, i) /\ Around[i] \in Nat
          /\ i \in HeldIn(Below) => Around[i] >= 1
      BY <1>1, Now
    <3>3. Held(Top, i) = Is(Top.cur, i) + Is(Top.opd, i) + Is(Top.set.on, i)
      BY <1>1, EvalTop
    <3>4. /\ Is(Top.cur, i) \in {0, 1} /\ Is(Top.opd, i) \in {0, 1} /\ Is(Top.set.on, i) \in {0, 1} /\ Is(val, i) \in {0, 1}
          /\ Is(Running, i) = 0
      BY IsType, NoValue
    <3> HIDE DEF Y
    <3> QED BY <2>2, <2>4, <3>1, <3>2, <3>3, <3>4
  <2> HIDE DEF Y
  <2>6. Step(heap, lost, ReleaseAll(heap, <<Top.opd>>), Y, lost, HeldIn(Below))
    BY <2>3, <2>4, <2>5, ReleaseStep
  <2> QED BY <1>1, <2>1, <2>2, <2>6, BecomesEval, SameQuiet DEF Y
<1> QED BY <1>2, <1>3

LEMMA PushedEval ==
  ASSUME Inv, stack # <<>>, Quiet, NEW f \in Frame, NEW e \in EvalFrame, stack' = Append(Append(Below, f), e),
         Len(stack) < MaxFrames, val' \in Value \cup {Running}, f.k = "call" /\ ~f.body => ~e.ret,
         Step(heap, lost, heap', Ext(vars, Append(Append(Below, f), e), val'), lost', HeldIn(Below)),
         Sits(Append(Below, f), heap', lost', Len(Below) + 1)
  PROVE  Inv'
<1> DEFINE b == Append(Below, f)
<1>1. b \in Seq(Frame) /\ Len(b) = Len(Below) + 1 /\ (Discarding(b) => ~e.ret) /\ Len(Below) \in Nat
  <2>1. Below \in Seq(Frame)
    BY OnTop
  <2>2. b \in Seq(Frame) /\ Len(b) = Len(Below) + 1 /\ Len(Below) \in Nat
    BY <2>1
  <2>3. Discarding(b) => ~e.ret
    BY <2>1, NotDiscarding
  <2> QED BY <2>2, <2>3
<1> HIDE DEF b
<1>2. e \in Frame /\ Sits(Append(b, e), heap', lost', Len(b) + 1)
  BY <1>1, EvalSits
<1>3. Sits(Append(Append(Below, f), e), heap', lost', Len(Below) + 2)
  <2>1. Len(b) + 1 = Len(Below) + 2
    BY <1>1
  <2> QED BY <1>2, <2>1 DEF b
<1>4. e.k = "eval"
  BY DEF EvalFrame
<1> QED BY <1>2, <1>3, <1>4, Pushed

LEMMA CalledKeeps ==
  ASSUME Inv, Called
  PROVE  Inv'
<1>1. stack # <<>> /\ Top.k = "call" /\ val \in Value /\ Same /\ heap' = heap /\ Quiet /\ lost' = lost
  BY Now, SameQuiet DEF Called, At, Idle
<1>2. Outside \in [Ids -> Nat] /\ Sound(heap, Outside, lost) /\ \A i \in Ids : Held(Top, i) = 0
  BY <1>1, Now, OtherTop
<1>3. CASE val = Null \/ Top.body
  <2>1. Ext(vars, Below, val) \in [Ids -> Nat] /\ \A i \in Ids : Ext(vars, Below, val)[i] = Outside[i]
    BY <1>1, <1>2, Returning
  <2>2. Step(heap, lost, heap, Ext(vars, Below, val), lost, HeldIn(Below))
    BY <1>2, <2>1, SameStep
  <2>3. Return(val)
    BY <1>3 DEF Called
  <2> QED BY <1>1, <2>2, <2>3, ReturnKeeps
<1>4. CASE ~(val = Null \/ Top.body)
  <2> DEFINE f == [Top EXCEPT !.body = TRUE]
  <2> DEFINE e == Body(FALSE)
  <2>1. stack' = Append(Append(Below, f), e) /\ val' = Running
    BY <1>4 DEF Called, WithTop
  <2>2. e \in EvalFrame /\ ~e.ret /\ e \in Frame /\ \A i \in Ids : Held(e, i) = 0
    BY NewEvals DEF Frame
  <2>3. f \in Frame /\ f.k = "call"
    <3>1. Top \in [k : {"call"}, body : BOOLEAN]
      BY <1>1, OnTop, FrameKinds DEF OtherFrame
    <3>2. f \in [k : {"call"}, body : BOOLEAN] /\ f.k = "call"
      BY <3>1
    <3> QED BY <3>2 DEF Frame, OtherFrame
  <2> HIDE DEF f, e
  <2>4. \A i \in Ids : Held(f, i) = 0 /\ Is(val, i) = 0 /\ Is(Running, i) = 0
    <3>1. Discarding(stack)
      BY <1>1, <1>4 DEF Discarding, Top
    <3>2. val \notin Ids
      BY <3>1 DEF Inv
    <3> QED BY <2>3, <3>2, HeldBy, NoValue DEF Is
  <2>5. Ext(vars, Append(Append(Below, f), e), Running) \in [Ids -> Nat]
    BY <1>1, <2>2, <2>3, Upon
  <2>6. ASSUME NEW i \in Ids PROVE Ext(vars, Append(Append(Below, f), e), Running)[i] = Outside[i]
    <3>1. Ext(vars, Append(Append(Below, f), e), Running)[i] = Around[i] + Held(f, i) + Held(e, i) + Is(Running, i)
      <4>1. f \in Frame /\ e \in Frame
        BY <2>2, <2>3
      <4> QED BY <1>1, <4>1, UponTwo
    <3>2. Outside[i] = Around[i] + Held(Top, i) + Is(val, i) /\ Around[i] \in Nat
      BY <1>1, Now
    <3> QED BY <1>2, <2>2, <2>4, <3>1, <3>2
  <2>7. Step(heap, lost, heap, Ext(vars, Append(Append(Below, f), e), Running), lost, HeldIn(Below))
    BY <1>2, <2>5, <2>6, SameStep
  <2>8. Sits(Append(Below, f), heap', lost', Len(Below) + 1) /\ Len(stack) < MaxFrames
    <3> DEFINE s == Append(Below, f)
    <3> DEFINE d == Len(Below) + 1
    <3>1. /\ Below \in Seq(Frame) /\ Len(stack) = Len(Below) + 1 /\ Sits(stack, heap, lost, Len(stack))
          /\ Discarding(Below) => Top.k = "eval"
      BY <1>1, OnTop
    <3>2. Len(stack) < MaxFrames
      BY <1>1, <3>1 DEF Sits, Top
    <3>5. s = Append(Below, f) /\ d = Len(Below) + 1 /\ f \in Frame /\ d < MaxFrames
      BY <2>3, <3>1, <3>2
    <3> HIDE DEF s, d
    <3>3. s[d] = f /\ (d > 1 /\ s[d - 1].k = "call" /\ ~s[d - 1].body => Discarding(Below)) /\ d < MaxFrames
      <4>1. s[d] = f /\ (d > 1 /\ s[d - 1].k = "call" /\ ~s[d - 1].body => Discarding(Below))
        BY <3>1, <3>5, Upper
      <4> QED BY <3>5, <4>1
    <3>4. Sits(s, heap', lost', d)
      BY <1>1, <2>3, <3>1, <3>3 DEF Sits
    <3> QED BY <3>2, <3>4 DEF s, d
  <2> QED BY <1>1, <2>1, <2>2, <2>3, <2>7, <2>8, PushedEval
<1> QED BY <1>3, <1>4

(* opToVar keeps the invariant. *)
LEMMA OperandKeeps ==
  ASSUME Inv, MaxTags < TagLimit, Features = {}, Operand
  PROVE  Inv'
<1>1. CASE Literal
  <2>1. EvalIdle /\ Top.ops # <<>> /\ Top.opd = Null
    BY <1>1 DEF Literal, StartsWith, Comes
  <2> QED BY <1>1, <2>1, LiteralKeeps DEF Literal
<1>2. CASE StdFunction
  <2>1. EvalIdle /\ Top.ops # <<>> /\ Top.opd = Null /\ Token[2] \in Std
    BY <1>2, AtToken DEF StdFunction, StartsWith
  <2> QED BY <1>2, <2>1, LiteralKeeps DEF StdFunction
<1>3. CASE SetVariable \/ SetMember
  BY <1>3, SetKeeps
<1> QED BY <1>1, <1>2, <1>3, ScriptFunctionKeeps, LookupKeeps, BracketsKeeps, EntryKeeps, MemberKeeps, IndexKeeps,
           IndexedKeeps, CallKeeps, CallMemberKeeps, CallEntryKeeps, NegateKeeps, ResumeKeeps, CalledKeeps DEF Operand

-----------------------------------------------------------------------------
(* genericCall of a built-in function: one lemma for each action.          *)

LEMMA ArgsTop ==
  ASSUME Inv, At("args")
  PROVE  /\ stack # <<>> /\ Top \in ArgsFrame /\ Top \in Frame /\ Top.k = "args" /\ ~Discarding(Below)
         /\ Top.class \in Kinds /\ Top.of \in Value /\ Top.got \in Seq(Value) /\ IsFiniteSet(DOMAIN Top.got)
         /\ \A i \in Ids : Held(Top, i) = Count(Top.got, i) /\ Count(Top.got, i) \in Nat
         /\ Belongs(stack, heap, lost, Len(stack))
<1>1. stack # <<>> /\ Top.k = "args"
  BY DEF At
<1>2. Top \in ArgsFrame /\ Top \in Frame /\ ~Discarding(Below) /\ Sits(stack, heap, lost, Len(stack))
  BY <1>1, OnTop, FrameKinds
<1>3. Top.class \in Kinds /\ Top.of \in Value /\ Top.got \in Seq(Value)
  BY <1>2 DEF ArgsFrame
<1>4. IsFiniteSet(DOMAIN Top.got) /\ \A i \in Ids : Count(Top.got, i) \in Nat
  BY <1>3, CountSeqType
<1>5. \A i \in Ids : Held(Top, i) = Count(Top.got, i)
  BY <1>1, HeldBy
<1>6. Belongs(stack, heap, lost, Len(stack))
  BY <1>1, <1>2 DEF Sits, Top
<1> QED BY <1>1, <1>2, <1>3, <1>4, <1>5, <1>6

(* The value that a built-in function works on is there. *)
LEMMA OfThere ==
  ASSUME Inv, At("args"), Top.class \notin Std
  PROVE  Top.of \in Ids /\ heap[Top.of].kind = Top.class /\ Top.class # "none"
<1>1. Belongs(stack, heap, lost, Len(stack)) /\ Top.class \in Kinds
  BY ArgsTop
<1>2. Top.of \in Ids /\ heap[Top.of].kind = Top.class
  BY <1>1 DEF Belongs, Top
<1> QED BY <1>1, <1>2, KindFacts

(* The frame goes on with other arguments. *)
LEMMA ArgsAgain ==
  ASSUME Inv, At("args"), NEW f \in ArgsFrame, f.class = Top.class, f.of = Top.of,
         NEW g, NEW Y, NEW M, Step(heap, lost, g, Y, M, HeldIn(Below))
  PROVE  f \in Frame /\ Sits(Append(Below, f), g, M, Len(Below) + 1)
<1>1. f \in Frame
  BY DEF Frame
<1>2. Below \in Seq(Frame) /\ ~Discarding(Below) /\ stack # <<>>
  BY ArgsTop, OnTop
<1>3. Belongs(stack, heap, lost, Len(stack))
  BY ArgsTop
<1>4. lost \subseteq M /\ \A v \in Ids : v \in HeldIn(Below) \/ v \in lost => Fixed(heap, g, v)
  BY DEF Step
<1>5. CASE f.of = Null /\ f.class \in Std
  BY <1>1, <1>2, <1>5, ArgsSits
<1>6. CASE ~(f.of = Null /\ f.class \in Std)
  <2>1. f.of \in Ids /\ heap[f.of].kind = f.class
        /\ \E v \in Ids : (v = f.of \/ (Keeps(heap[v].kind) /\ heap[v].base = f.of)) /\ HeldBelow(stack, lost, Len(stack), v)
    BY <1>3, <1>6 DEF Belongs, Top
  <2>2. PICK v \in Ids : (v = f.of \/ (Keeps(heap[v].kind) /\ heap[v].base = f.of)) /\ HeldBelow(stack, lost, Len(stack), v)
    BY <2>1
  <2>3. v \in lost \/ v \in HeldIn(Below)
    <3>1. SUFFICES ASSUME v \notin lost PROVE v \in HeldIn(Below)
      OBVIOUS
    <3>2. PICK e \in 1 .. Len(stack) - 1 : \E j \in DOMAIN Holds(stack[e]) : Holds(stack[e])[j] = v
      BY <2>2, <3>1 DEF HeldBelow
    <3>3. e \in 1 .. Len(Below) /\ Below[e] = stack[e]
      BY <1>2, OnTop
    <3> QED BY <1>2, <3>2, <3>3, InAtLeast DEF HeldIn
  <2>4. Fixed(heap, g, v) /\ (v \in M \/ InStack(Below, v) >= 1)
    BY <1>4, <2>3 DEF HeldIn
  <2>5. g[f.of].kind = f.class /\ (v = f.of \/ (Keeps(g[v].kind) /\ g[v].base = f.of))
    BY <2>1, <2>2, <2>4 DEF Fixed
  <2> QED BY <1>1, <1>2, <2>1, <2>4, <2>5, ArgsSits
<1> QED BY <1>1, <1>5, <1>6

LEMMA NextArgKeeps ==
  ASSUME Inv, NextArg
  PROVE  Inv'
<1> DEFINE f == [Top EXCEPT !.todo = Tail(Top.todo)]
<1> DEFINE e == Expression(Head(Top.todo))
<1>1. /\ At("args") /\ Idle /\ Top.todo # <<>> /\ Len(stack) < MaxFrames /\ stack' = Append(Append(Below, f), e)
      /\ heap' = heap /\ val' = Running /\ Quiet /\ lost' = lost
  BY ArgsTop, SameQuiet DEF NextArg, WithTop, Idle, ArgsFrame
<1>2. stack # <<>> /\ Top \in ArgsFrame
  BY <1>1, ArgsTop
<1>3. f \in ArgsFrame /\ f.k = "args" /\ f.class = Top.class /\ f.of = Top.of /\ f.got = Top.got
  <2>1. Top.todo \in Seq(Expr)
    BY <1>2 DEF ArgsFrame
  <2>2. Tail(Top.todo) \in Seq(Expr)
    BY <1>1, <2>1
  <2> QED BY <1>2, <2>2 DEF ArgsFrame
<1>4. e \in EvalFrame /\ \A i \in Ids : Held(e, i) = 0
  <2>1. Top.todo \in Seq(Expr)
    BY <1>2 DEF ArgsFrame
  <2>2. Head(Top.todo) \in Expr
    BY <1>1, <2>1
  <2> QED BY <2>2, NewEvals
<1> HIDE DEF f, e
<1>5. f \in Frame /\ e \in Frame
  BY <1>3, <1>4 DEF Frame
<1>6. Ext(vars, Append(Append(Below, f), e), Running) \in [Ids -> Nat] /\ Outside \in [Ids -> Nat] /\ Sound(heap, Outside, lost)
  BY <1>2, <1>5, UponTwo, Now
<1>7. ASSUME NEW i \in Ids PROVE Ext(vars, Append(Append(Below, f), e), Running)[i] = Outside[i]
  <2>1. Ext(vars, Append(Append(Below, f), e), Running)[i] = Around[i] + Held(f, i) + Held(e, i) + Is(Running, i)
    BY <1>2, <1>5, UponTwo
  <2>2. Outside[i] = Around[i] + Held(Top, i) + Is(val, i) /\ Around[i] \in Nat /\ Held(Top, i) \in Nat
    BY <1>2, Now
  <2>3. Held(f, i) = Held(Top, i) /\ Held(e, i) = 0 /\ Is(Running, i) = 0 /\ val = Running
    BY <1>1, <1>3, <1>4, ArgsTop, HeldBy, NoValue DEF Idle
  <2> QED BY <2>1, <2>2, <2>3
<1>8. Step(heap, lost, heap, Ext(vars, Append(Append(Below, f), e), Running), lost, HeldIn(Below))
  BY <1>6, <1>7, SameStep
<1>9. Sits(Append(Below, f), heap, lost, Len(Below) + 1)
  BY <1>1, <1>3, <1>8, ArgsAgain
<1> QED BY <1>1, <1>2, <1>3, <1>4, <1>5, <1>8, <1>9, PushedEval

LEMMA ArgGotKeeps ==
  ASSUME Inv, ArgGot
  PROVE  Inv'
<1>1. At("args") /\ stack # <<>> /\ Top \in ArgsFrame /\ Top.got \in Seq(Value) /\ val \in Value
  <2>1. At("args") /\ val # Running
    BY DEF ArgGot, Idle
  <2> QED BY <2>1, ArgsTop, Now
<1>2. CASE val = Null
  <2>1. GiveUp /\ broke' = FALSE /\ val \notin Ids
    BY <1>2, IdsFacts DEF ArgGot, Inv
  <2> QED BY <1>1, <2>1, GiveUpKeeps
<1>3. CASE val # Null
  <2> DEFINE f == [Top EXCEPT !.got = Append(Top.got, val)]
  <2> DEFINE Y == Ext(vars, Append(Below, f), Running)
  <2>1. heap' = heap /\ stack' = Append(Below, f) /\ val' = Running /\ Quiet /\ lost' = lost
    BY <1>1, <1>3, SameQuiet DEF ArgGot, Becomes, WithTop, ArgsFrame
  <2>2. f \in ArgsFrame /\ f.k = "args" /\ f.class = Top.class /\ f.of = Top.of /\ f.got = Append(Top.got, val)
    <3>1. Append(Top.got, val) \in Seq(Value)
      BY <1>1
    <3> QED BY <1>1, <3>1 DEF ArgsFrame
  <2> HIDE DEF f
  <2>3. f \in Frame
    BY <2>2 DEF Frame
  <2>4. Y \in [Ids -> Nat] /\ Outside \in [Ids -> Nat] /\ Sound(heap, Outside, lost)
    BY <1>1, <2>3, UponOne, Now
  <2>5. ASSUME NEW i \in Ids PROVE Y[i] = Outside[i]
    <3>1. Y[i] = Around[i] + Held(f, i) + Is(Running, i)
      BY <1>1, <2>3, UponOne
    <3>2. Outside[i] = Around[i] + Held(Top, i) + Is(val, i) /\ Around[i] \in Nat /\ Held(Top, i) \in Nat /\ Is(val, i) \in {0, 1}
      BY <1>1, Now
    <3>3. Held(f, i) = Count(Top.got, i) + Is(val, i) /\ Held(Top, i) = Count(Top.got, i)
      <4>1. Count(Append(Top.got, val), i) = Count(Top.got, i) + Is(val, i)
        BY <1>1, CountAppend
      <4> QED BY <1>1, <2>2, <4>1, HeldBy, ArgsTop
    <3>4. Is(Running, i) = 0
      BY NoValue
    <3> HIDE DEF Y
    <3> QED BY <3>1, <3>2, <3>3, <3>4
  <2> HIDE DEF Y
  <2>6. Step(heap, lost, heap, Y, lost, HeldIn(Below))
    BY <2>4, <2>5, SameStep
  <2>7. Sits(Append(Below, f), heap, lost, Len(Below) + 1)
    BY <1>1, <2>2, <2>6, ArgsAgain
  <2> QED BY <1>1, <2>1, <2>2, <2>3, <2>6, <2>7, Replaced DEF Y
<1> QED BY <1>2, <1>3

(* The function returns: what came last, or no cell; or a new value.       *)
LEMMA GivesKeeps ==
  ASSUME Inv, At("args"), Quiet, lost' = lost, NEW v \in Value, v = val \/ (Idle /\ v \notin Ids), Gives(heap, v)
  PROVE  Inv'
<1> DEFINE Y == Ext(vars, Below, v)
<1>1. stack # <<>> /\ Top.k = "args" /\ IsFiniteSet(DOMAIN Top.got)
  BY ArgsTop
<1>2. Y \in [Ids -> Nat] /\ Outside \in [Ids -> Nat] /\ Sound(heap, Outside, lost)
  BY <1>1, Returning
<1>3. ASSUME NEW i \in Ids PROVE Y[i] = Outside[i] - Count(Top.got, i) /\ (i \in HeldIn(Below) => Y[i] >= 1)
  <2>1. /\ Y[i] = Outside[i] - Held(Top, i) - Is(val, i) + Is(v, i)
        /\ Outside[i] \in Nat /\ Held(Top, i) \in Nat /\ Is(val, i) \in {0, 1} /\ Is(v, i) \in {0, 1}
        /\ i \in HeldIn(Below) => Held(Top, i) + Is(val, i) + 1 =< Outside[i]
    BY <1>1, Returning
  <2>2. Is(v, i) = Is(val, i)
    BY NoValue, IsType DEF Idle
  <2>3. Held(Top, i) = Count(Top.got, i)
    BY ArgsTop
  <2> HIDE DEF Y
  <2> QED BY <2>1, <2>2, <2>3
<1> HIDE DEF Y
<1>4. Step(heap, lost, ReleaseAll(heap, Top.got), Y, lost, HeldIn(Below))
  BY <1>1, <1>2, <1>3, ReleaseStep
<1> QED BY <1>1, <1>4, ReturnKeeps DEF Gives, Y

LEMMA GivesNewKeeps ==
  ASSUME Inv, MaxTags < TagLimit, At("args"), Idle, Quiet, lost' = lost, NEW kind \in Kinds, kind # "view", NEW base \in Value,
         IF Keeps(kind) THEN base \in Ids /\ heap[base].kind # "none" ELSE base = Null, GivesNew(kind, base)
  PROVE  Inv'
<1> DEFINE p == Place(heap)
<1> DEFINE Y == Ext(vars, Below, p)
<1>1. stack # <<>> /\ Top.k = "args" /\ IsFiniteSet(DOMAIN Top.got)
  BY ArgsTop
<1>2. HasRoom(heap) /\ MayHold(heap, base) /\ heap' = ReleaseAll(New(heap, kind, base), Top.got) /\ Return(p)
  BY DEF GivesNew, Gives
<1>3. p \in Value
  BY <1>2, PlaceFree, IdsFacts
<1> HIDE DEF p
<1>4. Y \in [Ids -> Nat] /\ Outside \in [Ids -> Nat] /\ Sound(heap, Outside, lost)
  BY <1>1, Returning
<1>5. ASSUME NEW i \in Ids
      PROVE  /\ Y[i] = Outside[i] - Count(Top.got, i) + Is(p, i) /\ Count(Top.got, i) =< Outside[i]
             /\ i \in HeldIn(Below) => Outside[i] >= 1 /\ Y[i] >= 1
  <2>1. /\ Y[i] = Outside[i] - Held(Top, i) - Is(val, i) + Is(p, i)
        /\ Outside[i] \in Nat /\ Held(Top, i) \in Nat /\ Is(val, i) \in {0, 1} /\ Is(p, i) \in {0, 1}
        /\ Held(Top, i) + Is(val, i) =< Outside[i]
        /\ i \in HeldIn(Below) => Held(Top, i) + Is(val, i) + 1 =< Outside[i]
    BY <1>1, Returning
  <2>2. Is(val, i) = 0 /\ Held(Top, i) = Count(Top.got, i)
    BY ArgsTop, NoValue DEF Idle
  <2> HIDE DEF Y
  <2> QED BY <2>1, <2>2
<1> HIDE DEF Y
<1>6. Step(heap, lost, ReleaseAll(New(heap, kind, base), Top.got), Y, lost, HeldIn(Below))
  BY <1>1, <1>2, <1>4, <1>5, NewReleaseStep DEF p
<1> QED BY <1>1, <1>2, <1>3, <1>6, ReturnKeeps DEF Y

LEMMA ComputeKeeps ==
  ASSUME Inv, MaxTags < TagLimit, Features = {}, Compute
  PROVE  Inv'
<1> DEFINE base(out) == CASE out = "slice" -> Top.of [] out = "view" -> heap[Top.of].base [] OTHER -> Null
<1>1. At("args") /\ Idle /\ lost' = lost
  BY DEF Compute
<1>2. Quiet
  BY DEF Compute, Quiet, Inv
<1>3. PICK out \in Outcomes(Top.class) : CASE out = "error" -> Gives(heap, Null)
                                           [] out = "empty" -> Gives(heap, Empty)
                                           [] OTHER         -> GivesNew(out, base(out))
  BY DEF Compute
<1>4. CASE out = "error" \/ out = "empty"
  <2>1. Gives(heap, Null) \/ Gives(heap, Empty)
    BY <1>3, <1>4
  <2> QED BY <1>1, <1>2, <2>1, GivesKeeps, KindFacts, IdsFacts
<1>5. CASE out # "error" /\ out # "empty"
  <2>1. out \in {"plain", "array", "slice"} /\ (out = "slice" => Top.class = "array")
    BY <1>5 DEF Outcomes
  <2>2. GivesNew(out, base(out))
    BY <1>3, <1>5
  <2>3. base(out) = IF out = "slice" THEN Top.of ELSE Null
    BY <2>1
  <2>4. out = "slice" => Top.of \in Ids /\ heap[Top.of].kind # "none"
    <3>1. "array" \notin Std
      BY DEF Std
    <3> QED BY <1>1, <2>1, <3>1, OfThere
  <2>5. /\ base(out) \in Value
        /\ IF Keeps(out) THEN base(out) \in Ids /\ heap[base(out)].kind # "none" ELSE base(out) = Null
    <3>1. CASE out = "slice"
      BY <2>3, <2>4, <3>1, KindFacts, IdsFacts
    <3>2. CASE out # "slice"
      BY <2>1, <2>3, <3>2, KindFacts
    <3> QED BY <3>1, <3>2
  <2>6. out \in Kinds /\ out # "view"
    BY <2>1, KindFacts
  <2> HIDE DEF base
  <2> QED BY <1>1, <1>2, <2>2, <2>5, <2>6, GivesNewKeeps
<1> QED BY <1>4, <1>5

LEMMA NewDictKeeps ==
  ASSUME Inv, MaxTags < TagLimit, NewDict
  PROVE  Inv'
<1>1. At("args") /\ Idle /\ GivesNew("dict", Null) /\ Quiet /\ lost' = lost
  BY SameQuiet DEF NewDict, Given
<1> QED BY <1>1, GivesNewKeeps, KindFacts

LEMMA ExitKeeps ==
  ASSUME Inv, Features = {}, Exit
  PROVE  Inv'
<1>1. Gives(heap, Null) /\ At("args") /\ Idle /\ lost' = lost
  BY DEF Exit, Given
<1>2. Quiet
  BY DEF Exit, Quiet, Inv
<1> QED BY <1>1, <1>2, GivesKeeps, KindFacts, IdsFacts

LEMMA CallEndedKeeps ==
  ASSUME Inv, CallEnded
  PROVE  Inv'
<1>1. At("args") /\ Gives(heap, val) /\ Quiet /\ lost' = lost /\ val # Running
  BY SameQuiet DEF CallEnded, Idle
<1>2. val \in Value
  BY <1>1 DEF Inv
<1> QED BY <1>1, <1>2, GivesKeeps

LEMMA DictSetKeeps ==
  ASSUME Inv, MaxTags < TagLimit, NEW k \in Keys, DictSet(k)
  PROVE  Inv'
<1> DEFINE d == Top.of
<1> DEFINE v == Top.got[1]
<1> DEFINE Y == Ext(vars, Below, Empty)
<1> DEFINE M == lost \cup CountedIn(heap, <<heap[d].entries[k]>>)
<1>1. /\ At("args") /\ Idle /\ Top.class = "dict" /\ Len(Top.got) = 1 /\ MayHold(heap, v) /\ lost' = M
      /\ heap' = ReleaseAll(PutEntry(heap, d, k, v), Top.got) /\ Return(Empty)
  BY DEF DictSet, Given, Gives
<1>2. Quiet
  BY DEF DictSet, Quiet, Inv
<1>3. stack # <<>> /\ Top.k = "args" /\ IsFiniteSet(DOMAIN Top.got) /\ Top.got \in Seq(Value)
  BY <1>1, ArgsTop
<1>4. d \in Ids /\ heap[d].kind # "none"
  <2>1. "dict" \notin Std
    BY FeaturesAssumption DEF Std
  <2> QED BY <1>1, <2>1, OfThere
<1>5. v \in Value /\ (v \in Ids => heap[v].kind # "none")
  <2>1. v \in Value /\ 1 \in DOMAIN Top.got
    BY <1>1, <1>3
  <2>2. Count(Top.got, v) >= 1
    BY <1>3, <2>1, CountAtLeast
  <2>3. v \in Ids => Held(Top, v) >= 1
    BY <1>1, <2>2, ArgsTop
  <2> QED BY <1>3, <2>1, <2>3, There
<1> HIDE DEF d, v, M
<1>6. Y \in [Ids -> Nat] /\ Outside \in [Ids -> Nat] /\ Sound(heap, Outside, lost)
  BY <1>3, Returning
<1>7. ASSUME NEW i \in Ids
      PROVE  Y[i] = Outside[i] - Count(Top.got, i) /\ (i \in HeldIn(Below) => Outside[i] >= 1 /\ Y[i] >= 1)
  <2>1. /\ Y[i] = Outside[i] - Held(Top, i) - Is(val, i) + Is(Empty, i)
        /\ Outside[i] \in Nat /\ Held(Top, i) \in Nat
        /\ i \in HeldIn(Below) => Held(Top, i) + Is(val, i) + 1 =< Outside[i]
    BY <1>3, Returning
  <2>2. Is(val, i) = 0 /\ Is(Empty, i) = 0 /\ Held(Top, i) = Count(Top.got, i)
    BY <1>1, ArgsTop, NoValue DEF Idle
  <2> HIDE DEF Y
  <2> QED BY <2>1, <2>2
<1> HIDE DEF Y
<1>8. Step(heap, lost, ReleaseAll(PutEntry(heap, d, k, v), Top.got), Y, M, HeldIn(Below))
  BY <1>1, <1>3, <1>4, <1>5, <1>6, <1>7, PutReleaseStep DEF M
<1> QED BY <1>1, <1>2, <1>3, <1>8, ReturnKeeps, KindFacts DEF Y

-----------------------------------------------------------------------------
(* A function that runs a block.                                           *)

LEMMA SameReferences ==
  ASSUME NEW X \in [Ids -> Nat], NEW Y \in [Ids -> Nat], \A i \in Ids : X[i] = Y[i]
  PROVE  X = Y
  OBVIOUS

(* Another frame upon the stack that holds nothing. *)
LEMMA Stacked ==
  ASSUME NEW b, NEW g, NEW M, StackOK(b, g, M), NEW f \in Frame, \A i \in Ids : Held(f, i) = 0, Len(b) < MaxFrames,
         Sits(Append(b, f), g, M, Len(b) + 1), NEW vs \in [Vars -> Value], NEW s, s = Append(b, f)
  PROVE  /\ StackOK(s, g, M) /\ s \in Seq(Frame) /\ Len(s) = Len(b) + 1
         /\ Ext(vs, s, Running) = Ext(vs, b, Running)
<1>1. StackOK(s, g, M) /\ s \in Seq(Frame) /\ Len(s) = Len(b) + 1
  BY Push
<1>2. b \in Seq(Frame)
  BY DEF StackOK
<1>3. \A i \in Ids : Ext(vs, s, Running)[i] = Ext(vs, b, Running)[i] + Held(f, i)
  BY <1>2, ExtAppend
<1>4. Ext(vs, s, Running) \in [Ids -> Nat] /\ Ext(vs, b, Running) \in [Ids -> Nat]
  BY <1>1, <1>2, ExtType
<1>5. \A i \in Ids : Ext(vs, s, Running)[i] = Ext(vs, b, Running)[i]
  <2>1. \A i \in Ids : Ext(vs, b, Running)[i] \in Nat
    BY <1>4
  <2> QED BY <1>3, <2>1
<1> QED BY <1>1, <1>4, <1>5

LEMMA Kept ==
  ASSUME Inv, stack # <<>>, NEW g, NEW Y, NEW M, Step(heap, lost, g, Y, M, HeldIn(Below))
  PROVE  /\ StackOK(Below, g, M) /\ Below \in Seq(Frame) /\ Len(Below) \in Nat /\ Len(stack) = Len(Below) + 1
         /\ Len(Below) < MaxFrames /\ vars \in [Vars -> Value] /\ MaxFrames \in Nat
<1>1. /\ Below \in Seq(Frame) /\ Len(Below) \in Nat /\ Len(stack) = Len(Below) + 1 /\ Len(Below) < MaxFrames
      /\ StackOK(stack, heap, lost) /\ \A d \in 1 .. Len(Below) : Below[d] = stack[d]
  BY OnTop
<1>2. Len(Below) =< Len(stack)
  BY <1>1
<1> QED BY <1>1, <1>2, BelowKept, Now, SizesAssumption

LEMMA RestingKeeps ==
  ASSUME Inv, Quiet, val' = Running, StackOK(stack', heap', lost'), Sound(heap', Ext(vars, stack', Running), lost')
  PROVE  Inv'
<1>1. Running \notin Ids
  BY IdsFacts
<1> QED BY <1>1 DEF Inv, Quiet

LEMMA BlockSits ==
  ASSUME Inv, stack # <<>>, NEW f \in Value, Callable(f),
         NEW b \in Seq(Frame), ~Discarding(b), NEW g, NEW M, f \in Ids => Fixed(heap, g, f) /\ (f \in M \/ InStack(b, f) >= 1)
  PROVE  /\ Block(f) \in Frame /\ Block(f).k \in {"eval", "args"}
         /\ Sits(Append(b, Block(f)), g, M, Len(b) + 1) /\ \A i \in Ids : Held(Block(f), i) = 0
<1>1. CASE f = Function
  <2>1. Block(f) = Body(TRUE)
    BY <1>1 DEF Block
  <2>2. Body(TRUE) \in EvalFrame /\ \A i \in Ids : Held(Body(TRUE), i) = 0
    BY NewEvals
  <2>3. Body(TRUE) \in Frame /\ Sits(Append(b, Body(TRUE)), g, M, Len(b) + 1)
    BY <2>2, EvalSits
  <2>4. Body(TRUE).k = "eval"
    BY <2>2 DEF EvalFrame
  <2> QED BY <2>1, <2>2, <2>3, <2>4
<1>2. CASE f # Function
  <2> DEFINE none == <<>>
  <2>1. none \in Seq(Expr)
    OBVIOUS
  <2> HIDE DEF none
  <2>5. ASSUME NEW args \in Seq(Expr)
        PROVE  \E a \in ArgsFrame : /\ CallFrames(f, args) = <<a>> /\ f \in Ids
                                    /\ Sits(Append(b, a), g, M, Len(b) + 1)
                                    /\ \A i \in Ids : Held(a, i) = 0
    <3>1. f \in Ids => Fixed(heap, g, f) /\ (f \in M \/ InStack(b, f) >= 1)
      OBVIOUS
    <3>2. \/ \E a \in ArgsFrame : /\ CallFrames(f, args) = <<a>> /\ f \in Ids
                                   /\ Sits(Append(b, a), g, M, Len(b) + 1)
                                   /\ \A i \in Ids : Held(a, i) = 0
          \/ \E c \in OtherFrame, e \in EvalFrame :
               /\ CallFrames(f, args) = <<c, e>> /\ c.k = "call" /\ f = Function /\ ~e.ret
               /\ \A i \in Ids : Held(c, i) = 0 /\ Held(e, i) = 0
      BY <3>1, CallFramesAre
    <3> QED BY <1>2, <3>2
  <2>2. PICK a \in ArgsFrame : /\ CallFrames(f, none) = <<a>> /\ f \in Ids
                               /\ Sits(Append(b, a), g, M, Len(b) + 1)
                               /\ \A i \in Ids : Held(a, i) = 0
    BY <2>1, <2>5
  <2>3. Block(f) = a
    BY <1>2, <2>2 DEF Block, none
  <2>4. a \in Frame /\ a.k = "args"
    BY DEF Frame, ArgsFrame
  <2> QED BY <2>2, <2>3, <2>4
<1> QED BY <1>1, <1>2

(* The frame of the function, below the block that it runs. *)
LEMMA RunsBase ==
  ASSUME Inv, At("args"), Idle, NEW f, f = [Top EXCEPT !.runs = TRUE], NEW b, b = Append(Below, f)
  PROVE  /\ b \in Seq(Frame) /\ StackOK(b, heap, lost) /\ Len(b) = Len(stack) /\ ~Discarding(b) /\ b # <<>>
         /\ Ext(vars, b, Running) = Outside /\ vars \in [Vars -> Value] /\ Sound(heap, Outside, lost)
         /\ b[Len(b)] = f /\ f.k = "args" /\ f.got = Top.got /\ Len(stack) \in Nat /\ MaxFrames \in Nat
         /\ \A j \in DOMAIN Top.got : InStack(b, Top.got[j]) >= 1
<1>1. stack # <<>> /\ Top \in ArgsFrame
  BY ArgsTop
<1>2. f \in ArgsFrame /\ f.k = "args" /\ f.class = Top.class /\ f.of = Top.of /\ f.got = Top.got
  BY <1>1 DEF ArgsFrame
<1>3. Outside \in [Ids -> Nat] /\ Sound(heap, Outside, lost)
  BY <1>1, Now
<1>4. Step(heap, lost, heap, Outside, lost, HeldIn(Below))
  BY <1>3, SameStep
<1>5. f \in Frame /\ Sits(Append(Below, f), heap, lost, Len(Below) + 1)
  BY <1>2, <1>4, ArgsAgain
<1>6. /\ StackOK(Below, heap, lost) /\ Below \in Seq(Frame) /\ Len(Below) \in Nat /\ Len(stack) = Len(Below) + 1
      /\ Len(Below) < MaxFrames /\ vars \in [Vars -> Value] /\ MaxFrames \in Nat
  BY <1>1, <1>4, Kept
<1>7. StackOK(b, heap, lost) /\ b \in Seq(Frame) /\ Len(b) = Len(Below) + 1
  BY <1>5, <1>6, Push
<1>8. b[Len(b)] = f /\ b # <<>> /\ ~Discarding(b)
  <2>1. b[Len(Below) + 1] = f
    BY <1>5, <1>6
  <2>2. b # <<>>
    BY <1>6, <1>7
  <2> QED BY <1>2, <1>7, <2>1, <2>2 DEF Discarding
<1>9. Ext(vars, b, Running) = Outside
  <2>1. Ext(vars, b, Running) \in [Ids -> Nat]
    BY <1>1, <1>5, Change
  <2>2. \A i \in Ids : Held(f, i) = Held(Top, i)
    BY <1>2, ArgsTop, HeldBy
  <2>3. \A i \in Ids : Ext(vars, b, Running)[i] = Around[i] + Held(f, i) /\ Outside[i] = Around[i] + Held(Top, i)
    BY <1>1, <1>5, Change
  <2>4. \A i \in Ids : Ext(vars, b, Running)[i] = Outside[i]
    BY <2>2, <2>3
  <2> QED BY <1>3, <2>1, <2>4, SameReferences
<1>10. ASSUME NEW j \in DOMAIN Top.got PROVE InStack(b, Top.got[j]) >= 1
  <2>1. Holds(b[Len(b)]) = Top.got /\ Len(b) \in 1 .. Len(b)
    BY <1>2, <1>6, <1>7, <1>8 DEF Holds
  <2> QED BY <1>7, <2>1, InAtLeast
<1>11. Len(b) = Len(stack) /\ Len(stack) \in Nat /\ f.k = "args" /\ f.got = Top.got
  BY <1>2, <1>6, <1>7
<1> QED BY <1>3, <1>6, <1>7, <1>8, <1>9, <1>10, <1>11, ZenonT(60)

LEMMA GotNow ==
  ASSUME Inv, At("args"), NEW j \in DOMAIN Top.got
  PROVE  /\ Top.got[j] \in Value
         /\ Top.got[j] \in Ids => Fixed(heap, heap, Top.got[j]) /\ heap[Top.got[j]].kind # "none"
<1>1. Top.got \in Seq(Value) /\ stack # <<>> /\ IsFiniteSet(DOMAIN Top.got)
  BY ArgsTop
<1>2. Top.got[j] \in Value
  BY <1>1
<1>3. ASSUME Top.got[j] \in Ids PROVE heap[Top.got[j]].kind # "none"
  <2>1. Count(Top.got, Top.got[j]) >= 1
    BY <1>1, CountAtLeast
  <2>2. Held(Top, Top.got[j]) >= 1
    BY <1>3, <2>1, ArgsTop
  <2> QED BY <1>1, <1>3, <2>2, There
<1> QED BY <1>2, <1>3 DEF Fixed

LEMMA RunsKeeps ==
  ASSUME Inv, At("args"), Idle, Same, NEW gives \in {"empty", "then", "else"}, NEW j \in DOMAIN Top.got, Callable(Top.got[j]),
         Runs(heap, <<[k |-> "block", gives |-> gives], Block(Top.got[j])>>)
  PROVE  Inv'
<1> DEFINE f == [Top EXCEPT !.runs = TRUE]
<1> DEFINE b == Append(Below, f)
<1> DEFINE c == [k |-> "block", gives |-> gives]
<1> DEFINE e == Block(Top.got[j])
<1>1. /\ b \in Seq(Frame) /\ StackOK(b, heap, lost) /\ Len(b) = Len(stack) /\ ~Discarding(b) /\ b # <<>>
      /\ Ext(vars, b, Running) = Outside /\ vars \in [Vars -> Value] /\ Sound(heap, Outside, lost)
      /\ Len(stack) \in Nat /\ MaxFrames \in Nat /\ InStack(b, Top.got[j]) >= 1
  BY RunsBase
<1>2. stack # <<>> /\ Quiet /\ heap' = heap /\ lost' = lost /\ val' = Running /\ stack' = b \o <<c, e>> /\ Len(stack) + 2 =< MaxFrames
  BY ArgsTop, SameQuiet DEF Runs, WithTop, Idle
<1>3. c \in Frame /\ c.k = "block" /\ \A i \in Ids : Held(c, i) = 0
  <2>1. c \in Frame /\ c.k = "block"
    BY DEF Frame, OtherFrame
  <2> HIDE DEF c
  <2> QED BY <2>1, HeldBy
<1> HIDE DEF b, c, f
<1> DEFINE s == Append(b, c)
<1>4. Sits(s, heap, lost, Len(b) + 1)
  <2> DEFINE d == Len(b) + 1
  <2>1. d = Len(b) + 1 /\ s = Append(b, c)
    OBVIOUS
  <2> HIDE DEF s, d
  <2>2. s[d] = c /\ (d > 1 /\ s[d - 1].k = "call" /\ ~s[d - 1].body => Discarding(b))
    BY <1>1, <1>3, <2>1, Upper
  <2>3. Sits(s, heap, lost, d)
    BY <1>1, <1>3, <2>2 DEF Sits
  <2> QED BY <2>3 DEF d
<1>5. StackOK(s, heap, lost) /\ s \in Seq(Frame) /\ Len(s) = Len(b) + 1 /\ Ext(vars, s, Running) = Outside /\ ~Discarding(s)
  <2>1. Len(b) < MaxFrames
    BY <1>1, <1>2
  <2>2. StackOK(s, heap, lost) /\ s \in Seq(Frame) /\ Len(s) = Len(b) + 1 /\ Ext(vars, s, Running) = Ext(vars, b, Running)
    BY <1>1, <1>3, <1>4, <2>1, Stacked
  <2>3. ~Discarding(s)
    BY <1>1, <1>3, NotDiscarding
  <2> QED BY <1>1, <2>2, <2>3
<1>6. InStack(s, Top.got[j]) >= 1
  <2>1. InStack(s, Top.got[j]) = InStack(b, Top.got[j]) + Held(c, Top.got[j])
    BY <1>1, <1>3, InAppend
  <2>2. Held(c, Top.got[j]) = 0
    BY <1>3, HeldBy
  <2>3. InStack(b, Top.got[j]) \in Nat
    BY <1>1, StackPlaces
  <2> QED BY <1>1, <2>1, <2>2, <2>3
<1> HIDE DEF s
<1>7. e \in Frame /\ Sits(Append(s, e), heap, lost, Len(s) + 1) /\ \A i \in Ids : Held(e, i) = 0
  <2>1. Top.got[j] \in Value /\ (Top.got[j] \in Ids => Fixed(heap, heap, Top.got[j]))
    BY GotNow
  <2> QED BY <1>2, <1>5, <1>6, <2>1, BlockSits
<1> HIDE DEF e
<1>8. stack' = Append(s, e)
  BY <1>1, <1>2, <1>3, <1>7, Concat DEF s
<1>9. StackOK(stack', heap, lost) /\ Ext(vars, stack', Running) = Outside
  <2>1. Len(s) < MaxFrames
    BY <1>1, <1>2, <1>5
  <2> QED BY <1>1, <1>5, <1>7, <1>8, <2>1, Stacked
<1> QED BY <1>1, <1>2, <1>9, RestingKeeps

LEMMA IfKeeps ==
  ASSUME Inv, MaxTags < TagLimit, If
  PROVE  Inv'
<1>1. At("args") /\ Idle /\ Len(Top.got) = 2 /\ Callable(Top.got[2]) /\ Same /\ Top.got \in Seq(Value)
  BY ArgsTop DEF If, Given
<1>2. CASE Runs(heap, <<[k |-> "block", gives |-> "then"], Block(Top.got[2])>>)
  <2>1. 2 \in DOMAIN Top.got
    BY <1>1
  <2> QED BY <1>1, <1>2, <2>1, RunsKeeps
<1>3. CASE GivesNew("else", Null)
  BY <1>1, <1>3, SameQuiet, GivesNewKeeps, KindFacts
<1> QED BY <1>2, <1>3 DEF If

LEMMA ElseKeeps ==
  ASSUME Inv, Else
  PROVE  Inv'
<1>1. At("args") /\ Idle /\ Len(Top.got) = 1 /\ Callable(Top.got[1]) /\ Same /\ Top.got \in Seq(Value)
  BY ArgsTop DEF Else, Given
<1>2. CASE Runs(heap, <<[k |-> "block", gives |-> "empty"], Block(Top.got[1])>>)
  <2>1. 1 \in DOMAIN Top.got
    BY <1>1
  <2> QED BY <1>1, <1>2, <2>1, RunsKeeps
<1>3. CASE Gives(heap, Empty)
  BY <1>1, <1>3, SameQuiet, GivesKeeps, KindFacts, IdsFacts
<1> QED BY <1>2, <1>3 DEF Else

LEMMA BlockEndedKeeps ==
  ASSUME Inv, MaxTags < TagLimit, BlockEnded
  PROVE  Inv'
<1> DEFINE h == Release(heap, val)
<1>1. stack # <<>> /\ Top.k = "block" /\ val \in Value /\ Quiet /\ lost' = lost
  BY Now, SameQuiet DEF BlockEnded, At, Idle
<1>2. Top.gives \in {"empty", "then", "else"}
  <2>1. Top \in OtherFrame
    BY <1>1, OnTop, FrameKinds
  <2> QED BY <1>1, <2>1 DEF OtherFrame
<1>3. \A i \in Ids : Held(Top, i) = 0
  BY <1>1, OtherTop
<1>4. IsFiniteSet(DOMAIN <<val>>) /\ \A i : Count(<<val>>, i) = Is(val, i)
  BY OneReleased
<1>5. CASE val = Null
  <2>1. Return(Null) /\ heap' = heap
    BY <1>5 DEF BlockEnded, BlockFails
  <2>2. Ext(vars, Below, Null) \in [Ids -> Nat] /\ Outside \in [Ids -> Nat] /\ Sound(heap, Outside, lost)
    BY <1>1, Returning
  <2>3. \A i \in Ids : Ext(vars, Below, Null)[i] = Outside[i]
    <3>1. ASSUME NEW i \in Ids PROVE Ext(vars, Below, Null)[i] = Outside[i]
      <4>1. Ext(vars, Below, Null)[i] = Outside[i] - Held(Top, i) - Is(val, i) + Is(Null, i) /\ Outside[i] \in Nat
        BY <1>1, Returning
      <4>2. Is(Null, i) = 0 /\ Is(val, i) = 0
        BY <1>5, NoValue
      <4> QED BY <1>3, <4>1, <4>2
    <3> QED BY <3>1
  <2>4. Step(heap, lost, heap, Ext(vars, Below, Null), lost, HeldIn(Below))
    BY <2>2, <2>3, SameStep
  <2> QED BY <1>1, <2>1, <2>4, ReturnKeeps, KindFacts
<1>6. CASE val # Null /\ Top.gives = "empty"
  <2>1. heap' = ReleaseAll(heap, <<val>>) /\ Return(Empty)
    BY <1>6 DEF BlockEnded, BlockFails, Release
  <2>2. \A i \in Ids : Ext(vars, Below, Empty)[i] = Outside[i] - Count(<<val>>, i)
                       /\ (i \in HeldIn(Below) => Ext(vars, Below, Empty)[i] >= 1)
    BY <1>1, <1>3, <1>4, Returning, NoValue
  <2>3. Step(heap, lost, ReleaseAll(heap, <<val>>), Ext(vars, Below, Empty), lost, HeldIn(Below))
    BY <1>1, <1>4, <2>2, ReleaseStep, Returning
  <2> QED BY <1>1, <2>1, <2>3, ReturnKeeps, KindFacts
<1>7. CASE val # Null /\ Top.gives # "empty"
  <2> DEFINE g == ReleaseAll(heap, <<val>>)
  <2> DEFINE p == Place(g)
  <2>1. HasRoom(g) /\ heap' = New(g, Top.gives, Null) /\ Return(p)
    BY <1>7 DEF BlockEnded, BlockFails, Release
  <2>2. p \in Value
    BY <2>1, PlaceFree, IdsFacts
  <2>3. Top.gives \in Kinds /\ Top.gives # "view" /\ ~Keeps(Top.gives)
    BY <1>2, <1>7, KindFacts
  <2> HIDE DEF p
  <2>4. \A i \in Ids : /\ Ext(vars, Below, p)[i] = Outside[i] - Count(<<val>>, i) + Is(p, i) /\ Count(<<val>>, i) =< Outside[i]
                       /\ i \in HeldIn(Below) => Outside[i] - Count(<<val>>, i) >= 1
    BY <1>1, <1>3, <1>4, Returning
  <2>5. Outside \in [Ids -> Nat] /\ Sound(heap, Outside, lost) /\ Ext(vars, Below, p) \in [Ids -> Nat]
    BY <1>1, Returning
  <2>6. Step(heap, lost, New(g, Top.gives, Null), Ext(vars, Below, p), lost, HeldIn(Below))
    BY <1>4, <2>1, <2>3, <2>4, <2>5, ReleaseNewStep DEF p
  <2> QED BY <1>1, <2>1, <2>2, <2>6, ReturnKeeps
<1> QED BY <1>5, <1>6, <1>7

LEMMA LoopIn ==
  ASSUME NEW b \in Seq(Frame), b # <<>>, NEW f \in LoopFrame, Len(b) + 1 < MaxFrames,
         b[Len(b)].k = "args", b[Len(b)].got = <<f.f>>, NEW g, NEW M, CallableIn(g, f.f), f.cond # <<>>
  PROVE  /\ f \in Frame /\ f.k = "loop" /\ Sits(Append(b, f), g, M, Len(b) + 1) /\ ~Discarding(Append(b, f))
         /\ \A i \in Ids : Held(f, i) = 0
<1> DEFINE s == Append(b, f)
<1> DEFINE d == Len(b) + 1
<1>1. f.k = "loop" /\ f \in Frame /\ s = Append(b, f) /\ d = Len(b) + 1
  BY DEF LoopFrame, Frame
<1>2. Len(b) \in Nat /\ Len(b) >= 1 /\ d - 1 = Len(b) /\ s[Len(b)] = b[Len(b)] /\ d > 1 /\ d < MaxFrames
  BY <1>1
<1> HIDE DEF s, d
<1>3. s[d] = f
  BY <1>1, Upper
<1>4. Sits(s, g, M, d)
  BY <1>1, <1>2, <1>3 DEF Sits
<1>5. ~Discarding(Append(b, f))
  BY <1>1, NotDiscarding
<1>6. \A i \in Ids : Held(f, i) = 0
  BY <1>1, HeldBy
<1> QED BY <1>1, <1>4, <1>5, <1>6 DEF s, d

LEMMA WhileKeeps ==
  ASSUME Inv, While, UNCHANGED <<broke, exited, lost, length>>
  PROVE  Inv'
<1> DEFINE f == [Top EXCEPT !.runs = TRUE]
<1> DEFINE b == Append(Below, f)
<1> DEFINE c == [k |-> "loop", f |-> Top.got[1], cond |-> Top.cond, asks |-> TRUE, result |-> Null]
<1> DEFINE e == Expression(Top.cond[1])
<1>1. /\ At("args") /\ Idle /\ Len(Top.got) = 1 /\ Top.cond # <<>> /\ Callable(Top.got[1])
      /\ Runs(heap, <<c, e>>) /\ vars' = vars
  BY DEF While, Given
<1>2. stack # <<>> /\ Top \in ArgsFrame /\ Top.got \in Seq(Value) /\ Top.cond \in Seq(Expr)
  BY <1>1, ArgsTop DEF ArgsFrame
<1>3. 1 \in DOMAIN Top.got /\ Top.got = <<Top.got[1]>> /\ Top.got[1] \in Value
  BY <1>1, <1>2
<1>4. /\ b \in Seq(Frame) /\ StackOK(b, heap, lost) /\ Len(b) = Len(stack) /\ ~Discarding(b) /\ b # <<>>
      /\ Ext(vars, b, Running) = Outside /\ vars \in [Vars -> Value] /\ Sound(heap, Outside, lost)
      /\ Len(stack) \in Nat /\ MaxFrames \in Nat /\ b[Len(b)].k = "args" /\ b[Len(b)].got = Top.got
  BY <1>1, RunsBase
<1>5. heap' = heap /\ lost' = lost /\ val' = Running /\ stack' = b \o <<c, e>> /\ Len(stack) + 2 =< MaxFrames /\ Quiet
  BY <1>1 DEF Runs, WithTop, Idle, Quiet, Inv
<1>6. c \in LoopFrame /\ c.f = Top.got[1] /\ c.cond = Top.cond
  BY <1>2, <1>3, KindFacts DEF LoopFrame
<1>7. CallableIn(heap, c.f)
  BY <1>1, <1>6 DEF Callable, CallableIn
<1>8. e \in EvalFrame /\ e \in Frame /\ \A i \in Ids : Held(e, i) = 0
  <2>1. Top.cond[1] \in Expr
    BY <1>1, <1>2
  <2> QED BY <2>1, NewEvals DEF Frame
<1> HIDE DEF b, c, e, f
<1> DEFINE s == Append(b, c)
<1>9. /\ c \in Frame /\ Sits(s, heap, lost, Len(b) + 1) /\ ~Discarding(s)
      /\ \A i \in Ids : Held(c, i) = 0
  <2>1. b[Len(b)].got = <<c.f>> /\ Len(b) + 1 < MaxFrames /\ c.cond # <<>>
    BY <1>1, <1>3, <1>4, <1>5, <1>6
  <2> QED BY <1>4, <1>6, <1>7, <2>1, LoopIn
<1>10. stack' = Append(s, e)
  BY <1>4, <1>5, <1>8, <1>9, Concat
<1>11. StackOK(s, heap, lost) /\ s \in Seq(Frame) /\ Len(s) = Len(b) + 1 /\ Ext(vars, s, Running) = Outside
  <2>1. Len(b) < MaxFrames
    BY <1>4, <1>5
  <2>2. StackOK(s, heap, lost) /\ s \in Seq(Frame) /\ Len(s) = Len(b) + 1 /\ Ext(vars, s, Running) = Ext(vars, b, Running)
    BY <1>4, <1>9, <2>1, Stacked
  <2> QED BY <1>4, <2>2
<1>12. StackOK(stack', heap, lost) /\ Ext(vars, stack', Running) = Outside
  <2>1. Len(s) < MaxFrames
    BY <1>4, <1>5, <1>11
  <2>2. ~Discarding(s) /\ s \in Seq(Frame)
    BY <1>9, <1>11
  <2> HIDE DEF s
  <2>3. Sits(Append(s, e), heap, lost, Len(s) + 1)
    BY <1>8, <2>2, EvalSits
  <2> QED BY <1>4, <1>8, <1>10, <1>11, <2>1, <2>3, Stacked
<1> QED BY <1>4, <1>5, <1>12, RestingKeeps

LEMMA LoopKeeps ==
  ASSUME Inv, Features = {}, Loop
  PROVE  Inv'
<1>1. While /\ UNCHANGED <<broke, exited, lost, length>>
  BY DEF Loop
<1> QED BY <1>1, WhileKeeps

(* The loop goes on. *)
LEMMA LoopAgain ==
  ASSUME Inv, At("loop")
  PROVE  /\ stack # <<>> /\ Top \in LoopFrame /\ Top.f \in Value /\ Top.cond \in Seq(Expr) /\ Top.cond # <<>> /\ Callable(Top.f)
         /\ Top.f \in Ids => Top.f \in HeldIn(Below)
         /\ Len(stack) < MaxFrames /\ \A i \in Ids : Held(Top, i) = 0
         /\ \A f \in LoopFrame : \A g, Y, M :
              f.f = Top.f /\ f.cond = Top.cond /\ Step(heap, lost, g, Y, M, HeldIn(Below)) =>
                /\ f \in Frame /\ f.k = "loop" /\ Sits(Append(Below, f), g, M, Len(Below) + 1) /\ ~Discarding(Append(Below, f))
                /\ \A i \in Ids : Held(f, i) = 0
<1>1. stack # <<>> /\ Top.k = "loop"
  BY DEF At
<1>2. Top \in LoopFrame /\ Top.f \in Value /\ Top.cond \in Seq(Expr)
  <2>1. Top \in LoopFrame
    BY <1>1, OnTop, FrameKinds
  <2> QED BY <2>1 DEF LoopFrame
<1>3. \A i \in Ids : Held(Top, i) = 0
  BY <1>1, OtherTop
<1>4. /\ Below \in Seq(Frame) /\ Len(Below) \in Nat /\ Len(stack) = Len(Below) + 1
      /\ \A d \in 1 .. Len(Below) : Below[d] = stack[d]
  BY <1>1, OnTop
<1>5. /\ Len(stack) > 1 /\ Len(stack) < MaxFrames /\ stack[Len(stack) - 1].k = "args"
      /\ stack[Len(stack) - 1].got = <<Top.f>> /\ CallableIn(heap, Top.f) /\ Top.cond # <<>>
  <2>1. Sits(stack, heap, lost, Len(stack))
    BY <1>1, OnTop
  <2> QED BY <1>1, <2>1 DEF Sits, Top
<1>6. Below # <<>> /\ Len(Below) \in 1 .. Len(Below) /\ Below[Len(Below)] = stack[Len(stack) - 1]
  BY <1>4, <1>5
<1>7. Top.f \in Ids => Top.f \in HeldIn(Below)
  <2>1. Holds(Below[Len(Below)]) = <<Top.f>>
    BY <1>5, <1>6 DEF Holds
  <2>2. 1 \in DOMAIN Holds(Below[Len(Below)]) /\ Holds(Below[Len(Below)])[1] = Top.f
    BY <2>1
  <2> QED BY <1>4, <1>6, <2>2, InAtLeast DEF HeldIn
<1>8. ASSUME NEW f \in LoopFrame, NEW g, NEW Y, NEW M, f.f = Top.f, f.cond = Top.cond,
             Step(heap, lost, g, Y, M, HeldIn(Below))
      PROVE  /\ f \in Frame /\ f.k = "loop" /\ Sits(Append(Below, f), g, M, Len(Below) + 1) /\ ~Discarding(Append(Below, f))
             /\ \A i \in Ids : Held(f, i) = 0
  <2>1. KindOf(g, Top.f) = KindOf(heap, Top.f)
    <3>1. Top.f \in Ids => Fixed(heap, g, Top.f)
      BY <1>7, <1>8 DEF Step
    <3> QED BY <3>1 DEF KindOf, Fixed
  <2>2. CallableIn(g, f.f)
    BY <1>5, <1>8, <2>1 DEF CallableIn
  <2>3. Len(Below) + 1 < MaxFrames /\ Below[Len(Below)].k = "args" /\ Below[Len(Below)].got = <<f.f>> /\ f.cond # <<>>
    BY <1>4, <1>5, <1>6, <1>8
  <2> QED BY <1>4, <1>6, <2>2, <2>3, LoopIn
<1>9. Callable(Top.f)
  BY <1>5 DEF Callable, CallableIn
<1> QED BY <1>1, <1>2, <1>3, <1>5, <1>7, <1>8, <1>9

(* The value that came to a loop is released, and the loop goes on with e. *)
LEMMA LoopGoesOn ==
  ASSUME Inv, At("loop"), ~Idle, Quiet, lost' = lost, heap' = Release(heap, val), val' = Running,
         NEW f \in LoopFrame, f.f = Top.f, f.cond = Top.cond,
         NEW e, stack' = Append(Append(Below, f), e),
         e = Block(Top.f) \/ (e \in EvalFrame /\ \A i \in Ids : Held(e, i) = 0)
  PROVE  Inv'
<1> DEFINE b == Append(Below, f)
<1>1. stack # <<>> /\ Top.f \in Value /\ Callable(Top.f) /\ Len(stack) < MaxFrames /\ val \in Value
      /\ (Top.f \in Ids => Top.f \in HeldIn(Below)) /\ \A i \in Ids : Held(Top, i) = 0
  BY LoopAgain, Now DEF Idle
<1>2. IsFiniteSet(DOMAIN <<val>>) /\ \A i : Count(<<val>>, i) = Is(val, i)
  BY OneReleased
<1>3. Around \in [Ids -> Nat] /\ Outside \in [Ids -> Nat] /\ Sound(heap, Outside, lost)
  BY <1>1, Now
<1>4. \A i \in Ids : Around[i] = Outside[i] - Count(<<val>>, i) /\ (i \in HeldIn(Below) => Around[i] >= 1)
  <2>1. ASSUME NEW i \in Ids PROVE Around[i] = Outside[i] - Count(<<val>>, i) /\ (i \in HeldIn(Below) => Around[i] >= 1)
    <3>1. /\ Outside[i] = Around[i] + Held(Top, i) + Is(val, i) /\ Around[i] \in Nat /\ Is(val, i) \in {0, 1}
          /\ i \in HeldIn(Below) => Around[i] >= 1
      BY <1>1, Now
    <3> QED BY <1>1, <1>2, <3>1
  <2> QED BY <2>1
<1>5. Step(heap, lost, heap', Around, lost', HeldIn(Below))
  <2>1. Step(heap, lost, ReleaseAll(heap, <<val>>), Around, lost, HeldIn(Below))
    BY <1>2, <1>3, <1>4, ReleaseStep
  <2> QED BY <2>1 DEF Release
<1>6. /\ f \in Frame /\ f.k = "loop" /\ Sits(b, heap', lost', Len(Below) + 1) /\ ~Discarding(b)
      /\ \A i \in Ids : Held(f, i) = 0
  BY <1>5, LoopAgain
<1>7. /\ StackOK(Below, heap', lost') /\ Below \in Seq(Frame) /\ Len(Below) \in Nat /\ Len(stack) = Len(Below) + 1
      /\ Len(Below) < MaxFrames /\ vars \in [Vars -> Value] /\ MaxFrames \in Nat
  BY <1>1, <1>5, Kept
<1>8. StackOK(b, heap', lost') /\ b \in Seq(Frame) /\ Len(b) = Len(Below) + 1 /\ Ext(vars, b, Running) = Around
  BY <1>6, <1>7, Stacked DEF Around
<1>9. Top.f \in Ids => Fixed(heap, heap', Top.f) /\ InStack(b, Top.f) >= 1
  <2>1. SUFFICES ASSUME Top.f \in Ids PROVE Fixed(heap, heap', Top.f) /\ InStack(b, Top.f) >= 1
    OBVIOUS
  <2>2. Fixed(heap, heap', Top.f)
    BY <1>1, <1>5, <2>1 DEF Step
  <2>3. InStack(b, Top.f) = InStack(Below, Top.f) + Held(f, Top.f) /\ Held(f, Top.f) = 0 /\ InStack(Below, Top.f) >= 1
        /\ InStack(Below, Top.f) \in Nat
    BY <1>1, <1>6, <1>7, <2>1, InAppend, StackPlaces DEF HeldIn
  <2> QED BY <2>2, <2>3
<1> HIDE DEF b
<1>10. e \in Frame /\ Sits(Append(b, e), heap', lost', Len(b) + 1) /\ \A i \in Ids : Held(e, i) = 0
  <2>1. CASE e = Block(Top.f)
    BY <1>1, <1>6, <1>8, <1>9, <2>1, BlockSits
  <2>2. CASE e \in EvalFrame /\ \A i \in Ids : Held(e, i) = 0
    BY <1>6, <1>8, <2>2, EvalSits
  <2> QED BY <2>1, <2>2
<1>11. StackOK(stack', heap', lost') /\ Ext(vars, stack', Running) = Around
  <2> DEFINE s == Append(b, e)
  <2>1. stack' = s /\ Len(b) < MaxFrames
    BY <1>1, <1>7, <1>8 DEF b
  <2>2. s = Append(b, e) /\ Sits(s, heap', lost', Len(b) + 1)
    BY <1>10
  <2> HIDE DEF s
  <2>3. StackOK(s, heap', lost') /\ Ext(vars, s, Running) = Ext(vars, b, Running)
    BY <1>7, <1>8, <1>10, <2>1, <2>2, Stacked
  <2> QED BY <1>8, <2>1, <2>3
<1>12. Sound(heap', Around, lost')
  BY <1>5 DEF Step
<1> QED BY <1>11, <1>12, RestingKeeps

(* The loop ends: what came is released or dropped, or it was NULL. *)
LEMMA LoopReturns ==
  ASSUME Inv, At("loop"), ~Idle, Quiet, NEW v \in {Null, Empty}, Return(v),
         \/ heap' = Release(heap, val) /\ lost' = lost
         \/ heap' = heap /\ lost' = lost \cup CountedIn(heap, <<val>>)
         \/ heap' = heap /\ lost' = lost /\ val = Null
  PROVE  Inv'
<1> DEFINE Y == Ext(vars, Below, v)
<1>1. stack # <<>> /\ Top.k = "loop" /\ val \in Value /\ v \in Value /\ \A i \in Ids : Held(Top, i) = 0
  BY LoopAgain, Now, KindFacts DEF Idle, At
<1>2. IsFiniteSet(DOMAIN <<val>>) /\ \A i : Count(<<val>>, i) = Is(val, i)
  BY OneReleased
<1>3. Y \in [Ids -> Nat] /\ Outside \in [Ids -> Nat] /\ Sound(heap, Outside, lost)
  BY <1>1, Returning
<1>4. \A i \in Ids : Y[i] = Outside[i] - Count(<<val>>, i) /\ (i \in HeldIn(Below) => Y[i] >= 1)
  <2>1. ASSUME NEW i \in Ids PROVE Y[i] = Outside[i] - Count(<<val>>, i) /\ (i \in HeldIn(Below) => Y[i] >= 1)
    <3>1. /\ Y[i] = Outside[i] - Held(Top, i) - Is(val, i) + Is(v, i) /\ Outside[i] \in Nat /\ Is(val, i) \in {0, 1}
          /\ i \in HeldIn(Below) => Held(Top, i) + Is(val, i) + 1 =< Outside[i]
      BY <1>1, Returning
    <3>2. Is(v, i) = 0
      BY NoValue
    <3> HIDE DEF Y
    <3> QED BY <1>1, <1>2, <3>1, <3>2
  <2> QED BY <2>1
<1> HIDE DEF Y
<1>5. Step(heap, lost, heap', Y, lost', HeldIn(Below))
  <2>1. CASE heap' = Release(heap, val) /\ lost' = lost
    <3>1. Step(heap, lost, ReleaseAll(heap, <<val>>), Y, lost, HeldIn(Below))
      BY <1>2, <1>3, <1>4, ReleaseStep
    <3> QED BY <2>1, <3>1 DEF Release
  <2>2. CASE heap' = heap /\ lost' = lost \cup CountedIn(heap, <<val>>)
    <3>1. Step(heap, lost, heap, Y, lost \cup CountedIn(heap, <<val>>), HeldIn(Below))
      BY <1>2, <1>3, <1>4, ForgetStep
    <3> QED BY <2>2, <3>1
  <2>3. CASE heap' = heap /\ lost' = lost /\ val = Null
    <3>1. \A i \in Ids : Y[i] = Outside[i]
      BY <1>2, <1>3, <1>4, <2>3, NoValue
    <3>2. Step(heap, lost, heap, Y, lost, HeldIn(Below))
      BY <1>3, <3>1, SameStep
    <3> QED BY <2>3, <3>2
  <2> QED BY <2>1, <2>2, <2>3
<1> QED BY <1>1, <1>5, ReturnKeeps DEF Y

LEMMA ConditionKeeps ==
  ASSUME Inv, Condition
  PROVE  Inv'
<1> DEFINE f == [Top EXCEPT !.asks = FALSE, !.result = val]
<1>1. At("loop") /\ ~Idle /\ Top \in LoopFrame /\ val \in Value
  BY LoopAgain, Now DEF Condition, Idle
<1>2. Quiet
  BY DEF Condition, Quiet, Inv
<1>3. CASE heap' = Release(heap, val) /\ lost' = lost /\ Return(Empty)
  BY <1>1, <1>2, <1>3, LoopReturns
<1>4. CASE heap' = heap /\ lost' = lost \cup CountedIn(heap, <<val>>) /\ Return(Null)
  BY <1>1, <1>2, <1>4, LoopReturns
<1>5. CASE heap' = Release(heap, val) /\ lost' = lost /\ val' = Running
           /\ stack' = Append(WithTop([Top EXCEPT !.asks = FALSE, !.result = val]), Block(Top.f))
  <2>1. f \in LoopFrame /\ f.f = Top.f /\ f.cond = Top.cond
    BY <1>1 DEF LoopFrame
  <2>2. stack' = Append(Append(Below, f), Block(Top.f))
    BY <1>5 DEF WithTop
  <2> HIDE DEF f
  <2> QED BY <1>1, <1>2, <1>5, <2>1, <2>2, LoopGoesOn
<1> QED BY <1>3, <1>4, <1>5 DEF Condition

LEMMA LoopBodyKeeps ==
  ASSUME Inv, LoopBody
  PROVE  Inv'
<1> DEFINE f == [Top EXCEPT !.asks = TRUE, !.result = Null]
<1>1. At("loop") /\ ~Idle /\ Top \in LoopFrame /\ Top.cond \in Seq(Expr) /\ Top.cond # <<>> /\ ~Each
  BY LoopAgain DEF LoopBody, Each
<1>2. Quiet /\ lost' = lost
  BY SameQuiet DEF LoopBody
<1>3. CASE val = Null
  <2>1. heap' = heap /\ Return(Null)
    BY <1>3 DEF LoopBody, Inv
  <2> QED BY <1>1, <1>2, <1>3, <2>1, LoopReturns
<1>4. CASE val # Null
  <2>1. heap' = Release(heap, val) /\ val' = Running /\ stack' = Append(Append(Below, f), Expression(Top.cond[1]))
    BY <1>1, <1>4 DEF LoopBody, WithTop
  <2>2. f \in LoopFrame /\ f.f = Top.f /\ f.cond = Top.cond
    BY <1>1, KindFacts DEF LoopFrame
  <2>3. Expression(Top.cond[1]) \in EvalFrame /\ \A i \in Ids : Held(Expression(Top.cond[1]), i) = 0
    <3>1. Top.cond[1] \in Expr
      BY <1>1
    <3> QED BY <3>1, NewEvals
  <2> HIDE DEF f
  <2> QED BY <1>1, <1>2, <2>1, <2>2, <2>3, LoopGoesOn
<1> QED BY <1>3, <1>4

(* Built-in functions keep the invariant. *)
LEMMA BuiltInKeeps ==
  ASSUME Inv, MaxTags < TagLimit, Features = {}, BuiltIn
  PROVE  Inv'
  BY NextArgKeeps, ArgGotKeeps, ComputeKeeps, NewDictKeeps, DictSetKeeps, ExitKeeps, IfKeeps, ElseKeeps, BlockEndedKeeps,
     LoopKeeps, ConditionKeeps, LoopBodyKeeps, CallEndedKeeps DEF BuiltIn

-----------------------------------------------------------------------------
(* eval: statements and operators.                                         *)

(* The frame holds what it held: it has read on, or moved a value. *)
LEMMA HoldsTheSame ==
  ASSUME Inv, EvalIdle, Quiet, lost' = lost, NEW f \in EvalFrame, f.ret = Top.ret, Becomes(heap, f),
         \A i \in Ids : Held(f, i) = Held(Top, i)
  PROVE  Inv'
<1> DEFINE Y == Ext(vars, Append(Below, f), Running)
<1>1. At("eval") /\ stack # <<>> /\ Idle /\ f \in Frame
  BY DEF EvalIdle, At, Frame
<1>2. Y \in [Ids -> Nat] /\ Outside \in [Ids -> Nat] /\ Sound(heap, Outside, lost)
  BY <1>1, Change, Now
<1>3. \A i \in Ids : Y[i] = Outside[i]
  BY <1>1, Change
<1> HIDE DEF Y
<1>4. Step(heap, lost, heap, Y, lost, HeldIn(Below))
  BY <1>2, <1>3, SameStep
<1> QED BY <1>1, <1>4, BecomesEval DEF Becomes, Y

LEMMA BeginKeeps ==
  ASSUME Inv, NEW s \in Statements, Begin(s)
  PROVE  Inv'
<1>1. EvalIdle /\ At("eval") /\ Becomes(heap, [Top EXCEPT !.ops = s]) /\ lost' = lost
  BY DEF Begin, AtStart, EvalIdle
<1>2. Quiet
  <2>1. length \in 0 .. MaxLength /\ length < MaxLength /\ length' = length + 1 /\ MaxLength \in Nat
    BY SizesAssumption DEF Begin, Inv
  <2>2. length' \in 0 .. MaxLength
    BY <2>1
  <2> QED BY <2>2 DEF Quiet, Begin, Inv
<1>3. Top \in EvalFrame /\ \A i \in Ids : Held(Top, i) = Is(Top.cur, i) + Is(Top.opd, i) + Is(Top.set.on, i)
  BY <1>1, EvalTop
<1>4. s \in Expr
  BY ScriptsAssumption DEF Expr
<1>5. /\ [Top EXCEPT !.ops = s] \in EvalFrame /\ [Top EXCEPT !.ops = s].ret = Top.ret
      /\ \A i \in Ids : Held([Top EXCEPT !.ops = s], i) = Held(Top, i)
  <2>1. [Top EXCEPT !.ops = s].ret = Top.ret
    BY <1>3 DEF EvalFrame
  <2> QED BY <1>3, <1>4, <2>1, EvalOps
<1> QED BY <1>1, <1>2, <1>5, HoldsTheSame

LEMMA OperatorKeeps ==
  ASSUME Inv, Operator
  PROVE  Inv'
<1>1. EvalIdle /\ At("eval") /\ stack # <<>> /\ val \notin Ids /\ Top.ops # <<>>
  BY IdsFacts DEF Operator, EvalIdle, At, Idle, Comes
<1>2. CASE Error
  BY <1>1, <1>2, ErrorKeeps
<1>3. CASE GiveUp /\ UNCHANGED broke
  <2>1. GiveUp /\ broke' = FALSE
    BY <1>3 DEF Inv
  <2> QED BY <1>1, <2>1, GiveUpKeeps
<1>4. CASE Becomes(heap, [Behind EXCEPT !.op = TRUE]) /\ Same
  <2> DEFINE f == [Behind EXCEPT !.op = TRUE]
  <2>1. Becomes(heap, f) /\ Same
    BY <1>4
  <2>2. Behind \in EvalFrame /\ Behind.ret = Top.ret /\ \A i \in Ids : Held(Behind, i) = Held(Top, i)
    BY <1>1, TokenFacts
  <2>3. /\ f \in EvalFrame /\ f.k = "eval" /\ Behind.k = "eval" /\ f.ret = Top.ret
        /\ f.cur = Behind.cur /\ f.opd = Behind.opd /\ f.set = Behind.set
    BY <2>2 DEF EvalFrame
  <2> HIDE DEF f
  <2>4. \A i \in Ids : Held(f, i) = Held(Behind, i)
    BY <2>3 DEF Held, Holds
  <2> QED BY <1>1, <2>1, <2>2, <2>3, <2>4, HoldsTheSame, SameQuiet
<1> QED BY <1>2, <1>3, <1>4 DEF Operator

LEMMA ExpectedOperatorKeeps ==
  ASSUME Inv, ExpectedOperator
  PROVE  Inv'
<1>1. stack # <<>> /\ val \notin Ids /\ Error
  BY IdsFacts DEF ExpectedOperator, EvalIdle, At, Idle
<1> QED BY <1>1, ErrorKeeps

LEMMA FirstOperandKeeps ==
  ASSUME Inv, FirstOperand
  PROVE  Inv'
<1> DEFINE f == [Top EXCEPT !.cur = Top.opd, !.opd = Null]
<1>1. EvalIdle /\ At("eval") /\ Becomes(heap, f) /\ Same /\ Top.cur = Null
  BY DEF FirstOperand, Complete, EvalIdle
<1>2. Top \in EvalFrame /\ \A i \in Ids : Held(Top, i) = Is(Top.cur, i) + Is(Top.opd, i) + Is(Top.set.on, i)
  BY <1>1, EvalTop
<1>3. f \in EvalFrame /\ f.k = "eval" /\ f.ret = Top.ret /\ f.cur = Top.opd /\ f.opd = Null /\ f.set = Top.set
  BY <1>2, KindFacts DEF EvalFrame
<1> HIDE DEF f
<1>4. \A i \in Ids : Held(f, i) = Held(Top, i)
  <2>1. \A i \in Ids : Held(f, i) = Is(f.cur, i) + Is(f.opd, i) + Is(f.set.on, i)
    BY <1>3, HeldBy
  <2> QED BY <1>1, <1>2, <1>3, <2>1, IsType
<1> QED BY <1>1, <1>3, <1>4, HoldsTheSame, SameQuiet

LEMMA OperateKeeps ==
  ASSUME Inv, MaxTags < TagLimit, Features = {}, Operate
  PROVE  Inv'
<1> DEFINE vs == <<Top.cur, Top.opd>>
<1>1. EvalIdle /\ At("eval") /\ stack # <<>> /\ Idle /\ Top \in EvalFrame
  BY EvalTop DEF Operate, Complete, EvalIdle
<1>2. Quiet /\ lost' = lost
  BY DEF Operate, Quiet, Inv
<1>3. /\ Top.cur \in Value /\ Top.opd \in Value /\ Top.set.on \in Value
      /\ \A i \in Ids : Held(Top, i) = Is(Top.cur, i) + Is(Top.opd, i) + Is(Top.set.on, i)
  BY <1>1, EvalTop
<1>4. IsFiniteSet(DOMAIN vs) /\ \A i : Count(vs, i) = Is(Top.cur, i) + Is(Top.opd, i)
  <2>1. vs \in Seq(Value)
    BY <1>3
  <2> QED BY <2>1, CountSeqType, CountTwo
<1>5. Sound(heap, Outside, lost) /\ Outside \in [Ids -> Nat]
  BY <1>1, Now
<1> HIDE DEF vs
<1>6. ASSUME NEW v \in Value
      PROVE  LET f == [Top EXCEPT !.cur = v, !.opd = Null, !.op = FALSE]
                 Y == Ext(vars, Append(Below, f), Running)
             IN  /\ f \in EvalFrame /\ f.ret = Top.ret /\ Y \in [Ids -> Nat]
                 /\ \A i \in Ids : /\ Y[i] = Outside[i] - Count(vs, i) + Is(v, i) /\ Count(vs, i) =< Outside[i]
                                   /\ Outside[i] \in Nat /\ Is(v, i) \in {0, 1} /\ Count(vs, i) \in Nat
                                   /\ i \in HeldIn(Below) => Outside[i] >= 1 /\ Y[i] >= 1
  <2> DEFINE f == [Top EXCEPT !.cur = v, !.opd = Null, !.op = FALSE]
  <2> DEFINE Y == Ext(vars, Append(Below, f), Running)
  <2>1. f \in EvalFrame /\ f.k = "eval" /\ f.ret = Top.ret /\ f.cur = v /\ f.opd = Null /\ f.set = Top.set
    BY <1>1, KindFacts DEF EvalFrame
  <2> HIDE DEF f
  <2>2. f \in Frame
    BY <2>1 DEF Frame
  <2>3. ASSUME NEW i \in Ids
        PROVE  /\ Y[i] = Outside[i] - Count(vs, i) + Is(v, i) /\ Count(vs, i) =< Outside[i]
               /\ Outside[i] \in Nat /\ Is(v, i) \in {0, 1} /\ Count(vs, i) \in Nat
               /\ i \in HeldIn(Below) => Outside[i] >= 1 /\ Y[i] >= 1
    <3>1. /\ Y[i] = Around[i] + Held(f, i) /\ Outside[i] = Around[i] + Held(Top, i)
          /\ Outside[i] \in Nat /\ Around[i] \in Nat /\ (i \in HeldIn(Below) => Around[i] >= 1)
      BY <1>1, <2>2, Change
    <3>2. Held(f, i) = Is(v, i) + Is(Null, i) + Is(Top.set.on, i) /\ Is(Null, i) = 0
      BY <2>1, HeldBy, NoValue
    <3>3. Is(v, i) \in {0, 1} /\ Is(Top.cur, i) \in {0, 1} /\ Is(Top.opd, i) \in {0, 1} /\ Is(Top.set.on, i) \in {0, 1}
      BY IsType
    <3>4. Held(Top, i) = Is(Top.cur, i) + Is(Top.opd, i) + Is(Top.set.on, i) /\ Count(vs, i) = Is(Top.cur, i) + Is(Top.opd, i)
      BY <1>3, <1>4
    <3> DEFINE y == Y[i]
    <3>5. y = Around[i] + Is(v, i) + Is(Top.set.on, i) /\ y \in Nat
      BY <3>1, <3>2, <3>3
    <3>6. Outside[i] = Around[i] + Is(Top.set.on, i) + Count(vs, i) /\ Count(vs, i) \in Nat
      BY <3>1, <3>3, <3>4
    <3> HIDE DEF y
    <3>7. /\ y = Outside[i] - Count(vs, i) + Is(v, i) /\ Count(vs, i) =< Outside[i]
          /\ i \in HeldIn(Below) => Outside[i] >= 1 /\ y >= 1
      BY <3>1, <3>3, <3>5, <3>6
    <3> QED BY <3>1, <3>3, <3>6, <3>7 DEF y
  <2>4. Y \in [Ids -> Nat]
    BY <1>1, <2>2, Change
  <2> QED BY <2>1, <2>3, <2>4 DEF f
<1>7. \/ \E v \in {Null, Empty} : Becomes(ReleaseAll(heap, vs), [Top EXCEPT !.cur = v, !.opd = Null, !.op = FALSE])
      \/ \E kind \in {"plain", "array"} :
           /\ HasRoom(heap)
           /\ Becomes(ReleaseAll(New(heap, kind, Null), vs), [Top EXCEPT !.cur = Place(heap), !.opd = Null, !.op = FALSE])
  <2>1. PICK out \in Outcomes(Class(Top.cur)) \ {"slice", "view"} :
          LET made == out \in {"plain", "array"}
              h == IF made THEN New(heap, out, Null) ELSE heap
              result == CASE made -> Place(heap) [] out = "empty" -> Empty [] OTHER -> Null
          IN  /\ made => HasRoom(heap)
              /\ Becomes(ReleaseAll(h, vs), [Top EXCEPT !.cur = result, !.opd = Null, !.op = FALSE])
    BY DEF Operate, vs
  <2>2. out \in {"plain", "array", "empty", "error"}
    BY DEF Outcomes
  <2>3. CASE out \in {"plain", "array"}
    BY <2>1, <2>3
  <2>4. CASE out = "empty"
    BY <2>1, <2>4
  <2>5. CASE out = "error"
    BY <2>1, <2>5
  <2> QED BY <2>2, <2>3, <2>4, <2>5
<1>8. CASE \E v \in {Null, Empty} : Becomes(ReleaseAll(heap, vs), [Top EXCEPT !.cur = v, !.opd = Null, !.op = FALSE])
  <2>1. PICK v \in {Null, Empty} : Becomes(ReleaseAll(heap, vs), [Top EXCEPT !.cur = v, !.opd = Null, !.op = FALSE])
    BY <1>8
  <2> DEFINE f == [Top EXCEPT !.cur = v, !.opd = Null, !.op = FALSE]
  <2> DEFINE Y == Ext(vars, Append(Below, f), Running)
  <2>2. v \in Value /\ Becomes(ReleaseAll(heap, vs), f)
    BY <2>1, KindFacts
  <2>3. f \in EvalFrame /\ f.ret = Top.ret /\ Y \in [Ids -> Nat]
    BY <1>6, <2>2
  <2>4. \A i \in Ids : Y[i] = Outside[i] - Count(vs, i) + Is(v, i) /\ Outside[i] \in Nat /\ Count(vs, i) \in Nat
                       /\ (i \in HeldIn(Below) => Y[i] >= 1)
    BY <1>6, <2>2
  <2>5. \A i \in Ids : Is(v, i) = 0
    BY <2>1, NoValue
  <2> HIDE DEF f
  <2>6. \A i \in Ids : Y[i] = Outside[i] - Count(vs, i) /\ (i \in HeldIn(Below) => Y[i] >= 1)
    <3> HIDE DEF Y
    <3> QED BY <2>4, <2>5
  <2>7. Step(heap, lost, ReleaseAll(heap, vs), Y, lost, HeldIn(Below))
    <3> HIDE DEF Y
    <3> QED BY <1>4, <1>5, <2>3, <2>6, ReleaseStep
  <2> QED BY <1>1, <1>2, <2>2, <2>3, <2>7, BecomesEval DEF Becomes
<1>9. CASE \E kind \in {"plain", "array"} :
             /\ HasRoom(heap)
             /\ Becomes(ReleaseAll(New(heap, kind, Null), vs), [Top EXCEPT !.cur = Place(heap), !.opd = Null, !.op = FALSE])
  <2> DEFINE v == Place(heap)
  <2>1. PICK kind \in {"plain", "array"} :
             /\ HasRoom(heap)
             /\ Becomes(ReleaseAll(New(heap, kind, Null), vs), [Top EXCEPT !.cur = v, !.opd = Null, !.op = FALSE])
    BY <1>9
  <2> DEFINE f == [Top EXCEPT !.cur = v, !.opd = Null, !.op = FALSE]
  <2> DEFINE Y == Ext(vars, Append(Below, f), Running)
  <2>2. v \in Value /\ Becomes(ReleaseAll(New(heap, kind, Null), vs), f)
    BY <2>1, PlaceFree, IdsFacts
  <2>3. kind \in Kinds /\ kind # "view" /\ ~Keeps(kind) /\ Null \in Value /\ MayHold(heap, Null)
    BY <2>1, KindFacts
  <2> HIDE DEF v
  <2>4. f \in EvalFrame /\ f.ret = Top.ret /\ Y \in [Ids -> Nat]
    BY <1>6, <2>2
  <2>5. \A i \in Ids : /\ Y[i] = Outside[i] - Count(vs, i) + Is(v, i) /\ Count(vs, i) =< Outside[i]
                       /\ i \in HeldIn(Below) => Outside[i] >= 1 /\ Y[i] >= 1
    BY <1>6, <2>2
  <2> HIDE DEF f
  <2>6. Step(heap, lost, ReleaseAll(New(heap, kind, Null), vs), Y, lost, HeldIn(Below))
    <3> HIDE DEF Y
    <3> QED BY <1>4, <1>5, <2>1, <2>3, <2>4, <2>5, NewReleaseStep DEF v
  <2> QED BY <1>1, <1>2, <2>2, <2>4, <2>6, BecomesEval DEF Becomes
<1> QED BY <1>7, <1>8, <1>9

(* The statement is over, and with it the eval at the place above b.       *)
LEMMA DoneKeeps ==
  ASSUME NEW b, StackOK(b, heap', lost'), Len(b) < MaxFrames, NEW ret \in BOOLEAN, Discarding(b) => ~ret,
         vars' \in [Vars -> Value], broke' = FALSE, exited' \in BOOLEAN, length' \in 0 .. MaxLength,
         Sound(heap', Ext(vars', b, Running), lost'),
         (stack' = b /\ val' = Empty) \/ (stack' = Append(b, Body(ret)) /\ val' = Running)
  PROVE  Inv'
<1>1. b \in Seq(Frame) /\ Empty \in Value /\ Empty \notin Ids /\ Running \notin Ids
  BY IdsFacts, KindFacts DEF StackOK
<1>2. CASE stack' = b /\ val' = Empty
  <2>1. Ext(vars', b, Empty) = Ext(vars', b, Running)
    <3>1. Ext(vars', b, Empty) \in [Ids -> Nat] /\ Ext(vars', b, Running) \in [Ids -> Nat]
      BY <1>1, ExtType
    <3>2. \A i \in Ids : Ext(vars', b, Empty)[i] = Ext(vars', b, Running)[i]
      <4>1. \A i \in Ids : /\ Ext(vars', b, Empty)[i] = Ext(vars', b, Running)[i] + Is(Empty, i)
                           /\ Ext(vars', b, Running)[i] \in Nat
        BY <1>1, ExtReturn
      <4> QED BY <4>1, NoValue
    <3> QED BY <3>1, <3>2, SameReferences
  <2> QED BY <1>1, <1>2, <2>1 DEF Inv
<1>3. CASE stack' = Append(b, Body(ret)) /\ val' = Running
  <2> DEFINE f == Body(ret)
  <2>1. f \in EvalFrame /\ f.ret = ret /\ \A i \in Ids : Held(f, i) = 0
    BY NewEvals
  <2> HIDE DEF f
  <2>2. f \in Frame /\ Sits(Append(b, f), heap', lost', Len(b) + 1)
    BY <1>1, <2>1, EvalSits
  <2> DEFINE s == Append(b, f)
  <2>3. s = Append(b, f) /\ Sits(s, heap', lost', Len(b) + 1) /\ stack' = s
    BY <1>3, <2>2 DEF f
  <2> HIDE DEF s
  <2>4. StackOK(s, heap', lost') /\ Ext(vars', s, Running) = Ext(vars', b, Running)
    <3>1. \A i \in Ids : Held(f, i) = 0
      BY <2>1
    <3>2. f \in Frame /\ Sits(Append(b, f), heap', lost', Len(b) + 1)
      BY <2>2
    <3> QED BY <2>3, <3>1, <3>2, Stacked
  <2> QED BY <1>1, <1>3, <2>3, <2>4 DEF Inv
<1> QED BY <1>2, <1>3

LEMMA EndKeeps ==
  ASSUME Inv, EvalIdle, vars' \in [Vars -> Value], broke' = FALSE, exited' \in BOOLEAN, length' \in 0 .. MaxLength,
         Step(heap, lost, heap', Ext(vars', Below, Running), lost', HeldIn(Below)),
         NEW last \in BOOLEAN, IF last THEN Return(Empty) ELSE stack' = WithTop(Body(Top.ret)) /\ val' = Running
  PROVE  Inv'
<1>1. stack # <<>> /\ At("eval") /\ Top.ret \in BOOLEAN /\ (Discarding(Below) => ~Top.ret)
  BY EvalTop, OnTop DEF EvalIdle
<1>2. StackOK(Below, heap', lost') /\ Len(Below) < MaxFrames
  BY <1>1, Kept
<1>3. Sound(heap', Ext(vars', Below, Running), lost')
  BY DEF Step
<1>4. (stack' = Below /\ val' = Empty) \/ (stack' = Append(Below, Body(Top.ret)) /\ val' = Running)
  BY DEF Return, WithTop
<1> QED BY <1>1, <1>2, <1>3, <1>4, DoneKeeps

(* What the eval holds when its statement is over. *)
LEMMA AtEndHolds ==
  ASSUME Inv, NEW last \in BOOLEAN, AtEnd(last)
  PROVE  /\ EvalIdle /\ At("eval") /\ stack # <<>> /\ Top \in EvalFrame /\ Top.cur \in Value /\ Top.set.on \in Value
         /\ Top.set \in Set /\ (Top.set.to \in {"none", "setVar"} => Top.set.on = Null)
         /\ Outside \in [Ids -> Nat] /\ Around \in [Ids -> Nat] /\ Sound(heap, Outside, lost)
         /\ \A i \in Ids : /\ Outside[i] = Around[i] + Is(Top.cur, i) + Is(Top.set.on, i)
                           /\ Is(Top.cur, i) \in {0, 1} /\ Is(Top.set.on, i) \in {0, 1} /\ Around[i] \in Nat
                           /\ i \in HeldIn(Below) => Around[i] >= 1
<1>1. EvalIdle /\ At("eval") /\ stack # <<>> /\ Top.opd = Null /\ val = Running
  BY DEF AtEnd, EvalIdle, At, Idle
<1>2. Top.set \in Set /\ Top \in EvalFrame /\ Top.cur \in Value /\ Top.set.on \in Value
  BY <1>1, EvalTop
<1>3. Top.set.to \in {"none", "setVar"} => Top.set.on = Null
  BY <1>2 DEF Set
<1>4. ASSUME NEW i \in Ids
      PROVE  /\ Outside[i] = Around[i] + Is(Top.cur, i) + Is(Top.set.on, i)
             /\ Is(Top.cur, i) \in {0, 1} /\ Is(Top.set.on, i) \in {0, 1} /\ Around[i] \in Nat
             /\ i \in HeldIn(Below) => Around[i] >= 1
  <2>1. /\ Outside[i] = Around[i] + Held(Top, i) + Is(val, i) /\ Around[i] \in Nat
        /\ i \in HeldIn(Below) => Around[i] >= 1
    BY <1>1, Now
  <2>2. Held(Top, i) = Is(Top.cur, i) + Is(Top.opd, i) + Is(Top.set.on, i) /\ Is(Top.opd, i) = 0 /\ Is(val, i) = 0
    BY <1>1, EvalTop, NoValue
  <2>3. Is(Top.cur, i) \in {0, 1} /\ Is(Top.set.on, i) \in {0, 1}
    BY IsType
  <2> QED BY <2>1, <2>2, <2>3
<1> QED BY <1>1, <1>2, <1>3, <1>4, Now

LEMMA DropKeeps ==
  ASSUME Inv, NEW last \in BOOLEAN, Drop(last)
  PROVE  Inv'
<1>1. AtEnd(last) /\ Top.set.to = "none" /\ Same
  BY DEF Drop
<1>2. EvalIdle /\ stack # <<>> /\ Top.set.on = Null /\ Top.cur \in Value
  BY <1>1, AtEndHolds
<1>3. Outside \in [Ids -> Nat] /\ Around \in [Ids -> Nat] /\ Sound(heap, Outside, lost)
  BY <1>1, AtEndHolds
<1>4. \A i \in Ids : /\ Outside[i] = Around[i] + Is(Top.cur, i) /\ Is(Top.cur, i) \in {0, 1} /\ Around[i] \in Nat
                     /\ i \in HeldIn(Below) => Around[i] >= 1
  <2>1. \A i \in Ids : /\ Outside[i] = Around[i] + Is(Top.cur, i) + Is(Top.set.on, i)
                       /\ Is(Top.cur, i) \in {0, 1} /\ Around[i] \in Nat
                       /\ i \in HeldIn(Below) => Around[i] >= 1
    BY <1>1, AtEndHolds
  <2> QED BY <1>2, <2>1, NoValue
<1>5. CASE last /\ Top.ret
  <2>1. Return(Top.cur) /\ heap' = heap /\ Quiet /\ lost' = lost
    BY <1>1, <1>5, SameQuiet DEF Drop, StatementDone
  <2>2. Ext(vars, Below, Top.cur) \in [Ids -> Nat]
    BY <1>2, Upon
  <2>3. \A i \in Ids : Ext(vars, Below, Top.cur)[i] = Outside[i]
    <3>1. \A i \in Ids : Ext(vars, Below, Top.cur)[i] = Around[i] + Is(Top.cur, i)
      BY <1>2, Upon
    <3> QED BY <1>4, <3>1
  <2>4. Step(heap, lost, heap, Ext(vars, Below, Top.cur), lost, HeldIn(Below))
    BY <1>3, <2>2, <2>3, SameStep
  <2> QED BY <1>2, <1>5, <2>1, <2>4, ReturnKeeps
<1>6. CASE ~(last /\ Top.ret)
  <2>1. heap' = ReleaseAll(heap, <<Top.cur>>) /\ Quiet /\ lost' = lost
        /\ IF last THEN Return(Empty) ELSE stack' = WithTop(Body(Top.ret)) /\ val' = Running
    BY <1>1, <1>6, SameQuiet DEF Drop, StatementDone, Becomes, Release
  <2>2. IsFiniteSet(DOMAIN <<Top.cur>>) /\ \A i : Count(<<Top.cur>>, i) = Is(Top.cur, i)
    BY OneReleased
  <2>3. \A i \in Ids : Around[i] = Outside[i] - Count(<<Top.cur>>, i)
    BY <1>4, <2>2
  <2>4. Step(heap, lost, ReleaseAll(heap, <<Top.cur>>), Around, lost, HeldIn(Below))
    BY <1>3, <1>4, <2>2, <2>3, ReleaseStep
  <2>5. Step(heap, lost, heap', Ext(vars', Below, Running), lost', HeldIn(Below)) /\ vars' \in [Vars -> Value]
        /\ broke' = FALSE /\ exited' \in BOOLEAN /\ length' \in 0 .. MaxLength
    BY <1>2, <2>1, <2>4, Now DEF Around, Quiet
  <2> QED BY <1>2, <2>1, <2>5, EndKeeps
<1> QED BY <1>5, <1>6

LEMMA AssignKeeps ==
  ASSUME Inv, NEW last \in BOOLEAN, Assign(last)
  PROVE  Inv'
<1> DEFINE n == Top.set.name
<1> DEFINE Y == Ext(vars', Below, Running)
<1>1. AtEnd(last) /\ Top.set.to = "setVar" /\ vars' = [vars EXCEPT ![n] = Top.cur]
  BY DEF Assign, Assigned
<1>2. EvalIdle /\ stack # <<>> /\ Top.set.on = Null /\ Top.cur \in Value /\ Top.set \in Set
  BY <1>1, AtEndHolds
<1>3. n \in Vars
  BY <1>1, <1>2 DEF Set
<1>4. /\ heap' = ReleaseAll(heap, <<vars[n]>>) /\ lost' = lost
      /\ IF last THEN Return(Empty) ELSE stack' = WithTop(Body(Top.ret)) /\ val' = Running
  BY DEF Assign, StatementDone, Becomes, Release
<1>5. broke' = FALSE /\ exited' \in BOOLEAN /\ length' \in 0 .. MaxLength
  BY DEF Assign, Inv
<1>6. vars \in [Vars -> Value] /\ vars' \in [Vars -> Value] /\ Below \in Seq(Frame)
  BY <1>1, <1>2, <1>3, Now, OnTop
<1> HIDE DEF n
<1>7. Outside \in [Ids -> Nat] /\ Sound(heap, Outside, lost) /\ Y \in [Ids -> Nat]
  BY <1>2, <1>6, Now, ExtType
<1>8. IsFiniteSet(DOMAIN <<vars[n]>>) /\ \A i : Count(<<vars[n]>>, i) = Is(vars[n], i)
  BY OneReleased
<1>9. ASSUME NEW i \in Ids PROVE Y[i] = Outside[i] - Count(<<vars[n]>>, i) /\ (i \in HeldIn(Below) => Y[i] >= 1)
  <2>1. Y[i] = Count(vars', i) + InStack(Below, i) + Is(Running, i) /\ Count(vars', i) \in Nat /\ InStack(Below, i) \in Nat
    BY <1>6, ExtType
  <2>2. Around[i] = Count(vars, i) + InStack(Below, i) + Is(Running, i) /\ Count(vars, i) \in Nat
    BY <1>6, ExtType DEF Around
  <2>3. Outside[i] = Around[i] + Is(Top.cur, i) + Is(Top.set.on, i) /\ Is(Top.cur, i) \in {0, 1}
    BY <1>1, AtEndHolds
  <2>4. Count(vars', i) = Count(vars, i) - Is(vars[n], i) + Is(Top.cur, i)
    <3>1. /\ IsFiniteSet(DOMAIN vars) /\ DOMAIN vars' = DOMAIN vars /\ n \in DOMAIN vars /\ vars'[n] = Top.cur
          /\ \A x \in DOMAIN vars : x # n => vars'[x] = vars[x]
      BY <1>1, <1>3, <1>6, SizesAssumption DEF n
    <3> DEFINE g == vars'
    <3>2. /\ IsFiniteSet(DOMAIN vars) /\ DOMAIN g = DOMAIN vars /\ n \in DOMAIN vars /\ g[n] = Top.cur
          /\ \A x \in DOMAIN vars : x # n => g[x] = vars[x]
      BY <3>1
    <3> HIDE DEF g
    <3>3. Count(g, i) = Count(vars, i) - Is(vars[n], i) + Is(g[n], i)
      BY <3>2, CountChanged
    <3> QED BY <3>2, <3>3 DEF g
  <2>5. Is(Running, i) = 0 /\ Is(Top.set.on, i) = 0 /\ Is(vars[n], i) \in {0, 1} /\ Count(<<vars[n]>>, i) = Is(vars[n], i)
    BY <1>2, <1>8, NoValue, IsType
  <2>6. i \in HeldIn(Below) => InStack(Below, i) >= 1
    BY DEF HeldIn
  <2> HIDE DEF Y
  <2> QED BY <2>1, <2>2, <2>3, <2>4, <2>5, <2>6
<1>10. Step(heap, lost, ReleaseAll(heap, <<vars[n]>>), Y, lost, HeldIn(Below))
  <2> HIDE DEF Y
  <2> QED BY <1>7, <1>8, <1>9, ReleaseStep
<1> QED BY <1>2, <1>4, <1>5, <1>6, <1>10, EndKeeps

(* "set" of a dictionary; all that the eval and the index held is released. *)
LEMMA SetEntryStep ==
  ASSUME Inv, MaxTags < TagLimit, stack # <<>>, NEW f, f.cur \in Value, f.set.on \in Value,
         f.cur \in Ids => heap[f.cur].kind # "none", f.set.on \in Ids => heap[f.set.on].kind # "none",
         NEW k \in Keys, NEW index \in Value, SetEntry(f, k, index),
         NEW Y \in [Ids -> Nat], \A i \in Ids : Y[i] = Outside[i] - Count(<<index, f.cur, f.set.on>>, i),
         NEW P, \A i \in Ids : i \in P => Outside[i] >= 1 /\ Y[i] >= 1
  PROVE  Step(heap, lost, heap', Y, lost', P) /\ broke' = FALSE
<1> DEFINE vs == <<index, f.cur, f.set.on>>
<1> DEFINE d == f.set.on
<1>1. IsFiniteSet(DOMAIN vs) /\ \A i \in Ids : Y[i] = Outside[i] - Count(vs, i)
  <2>1. vs \in Seq(Value)
    OBVIOUS
  <2> QED BY <2>1, CountSeqType
<1>2. Outside \in [Ids -> Nat] /\ Sound(heap, Outside, lost)
  BY Now
<1>3. broke' = FALSE
  BY DEF SetEntry, Inv
<1>4. CASE KindOf(heap, d) = "dict"
  <2>1. /\ MayHold(heap, f.cur) /\ lost' = lost \cup CountedIn(heap, <<heap[d].entries[k]>>)
        /\ heap' = ReleaseAll(PutEntry(heap, d, k, f.cur), vs)
    BY <1>4 DEF SetEntry
  <2>2. d \in Ids /\ heap[d].kind # "none"
    <3>1. d \in Value /\ KindOf(heap, d) = "dict"
      BY <1>4
    <3> HIDE DEF d
    <3>2. d \in Ids
      BY <3>1, KindIs DEF Value
    <3> QED BY <3>2 DEF d
  <2> HIDE DEF vs, d
  <2>3. Step(heap, lost, ReleaseAll(PutEntry(heap, d, k, f.cur), vs), Y, lost \cup CountedIn(heap, <<heap[d].entries[k]>>), P)
    BY <1>1, <1>2, <2>1, <2>2, PutReleaseStep
  <2> QED BY <1>3, <2>1, <2>3
<1>5. CASE KindOf(heap, d) # "dict"
  <2>1. heap' = ReleaseAll(heap, vs) /\ lost' = lost
    BY <1>5 DEF SetEntry
  <2> HIDE DEF vs, d
  <2>2. Step(heap, lost, ReleaseAll(heap, vs), Y, lost, P)
    BY <1>1, <1>2, ReleaseStep
  <2> QED BY <1>3, <2>1, <2>2
<1> QED BY <1>4, <1>5

LEMMA AssignEntryKeeps ==
  ASSUME Inv, MaxTags < TagLimit, NEW last \in BOOLEAN, AssignEntry(last)
  PROVE  Inv'
<1>1. AtEnd(last) /\ Top.set.to = "setEntry" /\ SetEntry(Top, Top.set.name, Null)
  BY DEF AssignEntry
<1>2. EvalIdle /\ At("eval") /\ stack # <<>> /\ Top.set.on \in Value /\ Top.cur \in Value /\ Top.set \in Set
  BY <1>1, AtEndHolds
<1>3. Top.set.name \in Keys /\ Null \in Value
  BY <1>1, <1>2, KindFacts DEF Set
<1>4. exited' \in BOOLEAN /\ length' \in 0 .. MaxLength /\ vars' = vars /\ vars \in [Vars -> Value]
      /\ IF last THEN Return(Empty) ELSE stack' = WithTop(Body(Top.ret)) /\ val' = Running
  BY <1>2 DEF AssignEntry, Inv, EvalIdle, Idle
<1>5. Outside \in [Ids -> Nat] /\ Around \in [Ids -> Nat] /\ Sound(heap, Outside, lost)
  BY <1>1, AtEndHolds
<1>6. \A i \in Ids : /\ Around[i] = Outside[i] - Count(<<Null, Top.cur, Top.set.on>>, i)
                     /\ i \in HeldIn(Below) => Outside[i] >= 1 /\ Around[i] >= 1
  <2>1. SUFFICES ASSUME NEW i \in Ids
                 PROVE  /\ Around[i] = Outside[i] - Count(<<Null, Top.cur, Top.set.on>>, i)
                        /\ i \in HeldIn(Below) => Outside[i] >= 1 /\ Around[i] >= 1
    OBVIOUS
  <2>2. Count(<<Null, Top.cur, Top.set.on>>, i) = Is(Null, i) + Is(Top.cur, i) + Is(Top.set.on, i) /\ Is(Null, i) = 0
    BY CountThree, NoValue
  <2>3. /\ Outside[i] = Around[i] + Is(Top.cur, i) + Is(Top.set.on, i)
        /\ Is(Top.cur, i) \in {0, 1} /\ Is(Top.set.on, i) \in {0, 1} /\ Around[i] \in Nat
        /\ i \in HeldIn(Below) => Around[i] >= 1
    BY <1>1, AtEndHolds
  <2> QED BY <2>2, <2>3
<1>7. /\ Top.cur \in Ids => heap[Top.cur].kind # "none"
      /\ Top.set.on \in Ids => heap[Top.set.on].kind # "none"
  BY <1>2, OperandThere
<1>8. Step(heap, lost, heap', Around, lost', HeldIn(Below)) /\ broke' = FALSE
  <2>1. /\ Top.cur \in Value /\ Top.set.on \in Value /\ stack # <<>> /\ Top.set.name \in Keys /\ Null \in Value
        /\ SetEntry(Top, Top.set.name, Null) /\ Around \in [Ids -> Nat]
    BY <1>1, <1>2, <1>3, <1>5
  <2> QED BY <1>6, <1>7, <2>1, SetEntryStep, ZenonT(60)
<1> QED BY <1>2, <1>4, <1>8, EndKeeps DEF Around

LEMMA AssignIndexKeeps ==
  ASSUME Inv, NEW last \in BOOLEAN, AssignIndex(last)
  PROVE  Inv'
<1> DEFINE c == [k |-> "setindex", last |-> last]
<1> DEFINE e == Expression(Top.set.name)
<1> DEFINE b == Append(stack, c)
<1>1. AtEnd(last) /\ Top.set.to = "setIndex" /\ Len(stack) + 1 < MaxFrames /\ Top.opd = Null /\ Top.k = "eval" /\ val = Running
  BY DEF AssignIndex, AtEnd, EvalIdle, At, Idle
<1>2. stack' = stack \o <<c, e>> /\ UNCHANGED <<heap, lost, val>> /\ Quiet
  BY SameQuiet DEF AssignIndex, Same
<1>3. Top.set \in Set /\ stack # <<>>
  BY <1>1, AtEndHolds
<1>4. Top.set.name \in Expr
  BY <1>1, <1>3 DEF Set
<1>5. e \in EvalFrame /\ e \in Frame /\ \A i \in Ids : Held(e, i) = 0
  BY <1>4, NewEvals DEF Frame
<1>6. c \in Frame /\ c.k = "setindex"
  BY DEF Frame, OtherFrame
<1>7. StackOK(stack, heap, lost) /\ stack \in Seq(Frame) /\ Len(stack) \in Nat /\ Len(stack) > 0 /\ vars \in [Vars -> Value]
  <2>1. stack \in Seq(Frame) /\ StackOK(stack, heap, lost) /\ vars \in [Vars -> Value]
    BY <1>3, OnTop, Now
  <2> QED BY <1>3, <2>1
<1> HIDE DEF c, e
<1>8. \A i \in Ids : Held(c, i) = 0
  BY <1>6, HeldBy
<1>9. Sits(b, heap, lost, Len(stack) + 1)
  <2> DEFINE d == Len(stack) + 1
  <2>1. d > 1 /\ b[d] = c /\ b[d - 1] = Top
    <3>1. \A j \in 1 .. Len(stack) : Append(stack, c)[j] = stack[j]
      BY <1>7
    <3> QED BY <1>7, <3>1 DEF Top
  <2> HIDE DEF b, d
  <2> QED BY <1>1, <1>6, <2>1 DEF Sits, d
<1>10. StackOK(b, heap, lost) /\ b \in Seq(Frame) /\ Len(b) = Len(stack) + 1 /\ Ext(vars, b, Running) = Ext(vars, stack, Running)
  <2>1. Len(stack) < MaxFrames
    BY <1>1, <1>7, SizesAssumption
  <2>2. b = Append(stack, c)
    OBVIOUS
  <2> HIDE DEF b
  <2> QED BY <1>6, <1>7, <1>8, <1>9, <2>1, <2>2, Stacked
<1>11. ~Discarding(b)
  BY <1>6, <1>7, NotDiscarding
<1>12. stack' = Append(b, e)
  BY <1>2, <1>5, <1>6, <1>7, Concat
<1> HIDE DEF b
<1> DEFINE s == Append(b, e)
<1>13. s = Append(b, e) /\ Sits(s, heap, lost, Len(b) + 1)
  BY <1>5, <1>10, <1>11, EvalSits
<1> HIDE DEF s
<1>14. StackOK(s, heap, lost) /\ Ext(vars, s, Running) = Ext(vars, b, Running)
  <2>1. Len(b) < MaxFrames
    BY <1>1, <1>10
  <2> QED BY <1>5, <1>7, <1>10, <1>13, <2>1, Stacked
<1>15. stack' = s /\ Sound(heap, Ext(vars, s, Running), lost)
  BY <1>1, <1>10, <1>12, <1>13, <1>14 DEF Inv
<1> QED BY <1>1, <1>2, <1>14, <1>15, RestingKeeps

(* An index that a value is set at: below it is the eval of the statement. *)
LEMMA Prefix ==
  ASSUME NEW S, NEW s \in Seq(S), NEW n \in Nat, n =< Len(s), NEW b, b = SubSeq(s, 1, n)
  PROVE  b \in Seq(S) /\ Len(b) = n /\ \A d \in 1 .. n : b[d] = s[d]
<1>1. \A d \in 1 .. n : s[d] \in S
  OBVIOUS
<1>2. /\ SubSeq(s, 1, n) \in Seq(S)
      /\ Len(SubSeq(s, 1, n)) = IF 1 <= n THEN n - 1 + 1 ELSE 0
      /\ \A d \in 1 .. n - 1 + 1 : SubSeq(s, 1, n)[d] = s[1 + d - 1]
  BY <1>1, SubSeqProperties
<1>3. n - 1 + 1 = n /\ \A d \in 1 .. n : 1 + d - 1 = d
  OBVIOUS
<1>4. Len(SubSeq(s, 1, n)) = n /\ \A d \in 1 .. n : SubSeq(s, 1, n)[d] = s[d]
  BY <1>2, <1>3
<1> QED BY <1>2, <1>4

LEMMA AroundTop ==
  ASSUME Inv, NEW b \in Seq(Frame), NEW g \in Frame, Below = Append(b, g)
  PROVE  \A i \in Ids : Around[i] = Ext(vars, b, Running)[i] + Held(g, i)
<1>1. vars \in [Vars -> Value]
  BY DEF Inv
<1>2. \A i \in Ids : Ext(vars, Append(b, g), Running)[i] = Ext(vars, b, Running)[i] + Held(g, i)
  BY <1>1, ExtAppend
<1> QED BY <1>2 DEF Around

LEMMA IndexTop ==
  ASSUME Inv, At("setindex"), ~Idle,
         NEW f, f = stack[Len(stack) - 1], NEW up, up = SubSeq(stack, 1, Len(stack) - 2)
  PROVE  /\ stack # <<>> /\ val \in Value /\ f \in EvalFrame /\ f.cur \in Value /\ f.set.on \in Value /\ f.ret \in BOOLEAN
         /\ up \in Seq(Frame) /\ Len(up) < MaxFrames /\ Len(up) =< Len(stack) /\ \A d \in 1 .. Len(up) : up[d] = stack[d]
         /\ Discarding(up) => ~f.ret
         /\ Ext(vars, up, Running) \in [Ids -> Nat] /\ vars \in [Vars -> Value]
         /\ \A i \in Ids : /\ Outside[i] = Ext(vars, up, Running)[i] + Is(f.cur, i) + Is(f.set.on, i) + Is(val, i)
                           /\ i \in HeldIn(up) => Ext(vars, up, Running)[i] >= 1
                           /\ Around[i] = Ext(vars, up, Running)[i] + Is(f.cur, i) + Is(f.set.on, i)
<1> DEFINE n == Len(stack)
<1>1. stack # <<>> /\ Top.k = "setindex" /\ val \in Value
  BY Now DEF At, Idle
<1>2. /\ stack \in Seq(Frame) /\ StackOK(stack, heap, lost) /\ n \in Nat /\ n =< MaxFrames /\ MaxFrames \in Nat
      /\ vars \in [Vars -> Value] /\ Below \in Seq(Frame) /\ Len(Below) = n - 1
      /\ \A d \in 1 .. Len(Below) : Below[d] = stack[d]
  <2>1. stack \in Seq(Frame) /\ StackOK(stack, heap, lost) /\ Below \in Seq(Frame) /\ Len(Below) \in Nat /\ Len(stack) = Len(Below) + 1
        /\ \A d \in 1 .. Len(Below) : Below[d] = stack[d]
    BY <1>1, OnTop
  <2>2. Len(stack) =< MaxFrames /\ MaxFrames \in Nat
    BY <2>1, SizesAssumption DEF StackOK
  <2>3. vars \in [Vars -> Value]
    BY <1>1, Now
  <2> QED BY <2>1, <2>2, <2>3
<1>3. n > 1 /\ f.k = "eval" /\ f.opd = Null
  <2>1. Sits(stack, heap, lost, n)
    BY <1>1, OnTop
  <2> QED BY <1>1, <2>1 DEF Sits, Top
<1>4. f \in Frame /\ f \in EvalFrame /\ Sits(stack, heap, lost, n - 1)
  <2>1. n - 1 \in 1 .. Len(stack)
    BY <1>2, <1>3
  <2>2. stack[n - 1] \in Frame /\ Sits(stack, heap, lost, n - 1)
    BY <1>2, <2>1 DEF StackOK
  <2> QED BY <1>3, <2>2, FrameKinds
<1>5. f.cur \in Value /\ f.set.on \in Value /\ f.ret \in BOOLEAN
  BY <1>4 DEF EvalFrame, Set, Value
<1>6. up \in Seq(Frame) /\ Len(up) = n - 2 /\ \A d \in 1 .. n - 2 : up[d] = stack[d]
  <2> DEFINE m == n - 2
  <2>1. m \in Nat /\ m =< Len(stack) /\ up = SubSeq(stack, 1, m)
    BY <1>2, <1>3
  <2> HIDE DEF m
  <2>2. up \in Seq(Frame) /\ Len(up) = m /\ \A d \in 1 .. m : up[d] = stack[d]
    BY <1>2, <2>1, Prefix
  <2> QED BY <2>2 DEF m
<1>7. Below = Append(up, f)
  <2>1. Append(up, f) \in Seq(Frame) /\ Len(Append(up, f)) = n - 1
    BY <1>2, <1>3, <1>4, <1>6
  <2>2. \A d \in 1 .. n - 1 : Append(up, f)[d] = Below[d]
    <3>1. ASSUME NEW d \in 1 .. n - 1 PROVE Append(up, f)[d] = Below[d]
      <4>1. CASE d = n - 1
        BY <1>2, <1>3, <1>4, <1>6, <4>1
      <4>2. CASE d # n - 1
        <5>1. d \in 1 .. n - 2
          BY <1>2, <4>2
        <5> QED BY <1>2, <1>4, <1>6, <5>1
      <4> QED BY <4>1, <4>2
    <3> QED BY <3>1
  <2> DEFINE a == Append(up, f)
  <2>3. /\ a \in Seq(Frame) /\ Len(a) = n - 1 /\ Below \in Seq(Frame) /\ Len(Below) = n - 1
        /\ \A d \in 1 .. n - 1 : a[d] = Below[d]
    BY <1>2, <2>1, <2>2
  <2> HIDE DEF a, n
  <2>4. a = Below
    BY <2>3
  <2> QED BY <2>4 DEF a
<1>8. Discarding(up) => ~f.ret
  <2>1. SUFFICES ASSUME up # <<>>, up[Len(up)].k = "call", ~up[Len(up)].body PROVE ~f.ret
    BY DEF Discarding
  <2>2. Len(up) \in 1 .. n - 2 /\ n - 1 > 1 /\ up[Len(up)] = stack[n - 1 - 1]
    <3>1. Len(up) > 0
      BY <1>6, <2>1
    <3> QED BY <1>2, <1>3, <1>6, <3>1
  <2> QED BY <1>4, <2>1, <2>2 DEF Sits
<1>9. ASSUME NEW i \in Ids
      PROVE  /\ Around[i] = Ext(vars, up, Running)[i] + Is(f.cur, i) + Is(f.set.on, i)
             /\ Outside[i] = Ext(vars, up, Running)[i] + Is(f.cur, i) + Is(f.set.on, i) + Is(val, i)
             /\ i \in HeldIn(up) => Ext(vars, up, Running)[i] >= 1
  <2>1. Around[i] = Ext(vars, up, Running)[i] + Held(f, i)
    <3>1. up \in Seq(Frame) /\ f \in Frame
      BY <1>4, <1>6
    <3> QED BY <1>7, <3>1, AroundTop
  <2>2. Held(f, i) = Is(f.cur, i) + Is(f.opd, i) + Is(f.set.on, i) /\ Is(f.opd, i) = 0
    BY <1>3, HeldBy, NoValue
  <2>3. Outside[i] = Around[i] + Held(Top, i) + Is(val, i) /\ Held(Top, i) = 0
    BY <1>1, Now, HeldBy
  <2>4. Ext(vars, up, Running)[i] \in Nat /\ (i \in HeldIn(up) => Ext(vars, up, Running)[i] >= 1)
    BY <1>2, <1>6, ExtReturn DEF HeldIn
  <2>5. Is(f.cur, i) \in {0, 1} /\ Is(f.set.on, i) \in {0, 1} /\ Is(val, i) \in {0, 1}
    BY IsType
  <2> QED BY <2>1, <2>2, <2>3, <2>4, <2>5
<1>10. Ext(vars, up, Running) \in [Ids -> Nat]
  BY <1>2, <1>6, ExtType
<1>11. Len(up) < MaxFrames /\ Len(up) =< Len(stack) /\ \A d \in 1 .. Len(up) : up[d] = stack[d]
  BY <1>2, <1>3, <1>6
<1> QED BY <1>1, <1>2, <1>4, <1>5, <1>6, <1>8, <1>9, <1>10, <1>11

LEMMA IndexSetKeeps ==
  ASSUME Inv, MaxTags < TagLimit, IndexSet
  PROVE  Inv'
<1> DEFINE f == stack[Len(stack) - 1]
<1> DEFINE up == SubSeq(stack, 1, Len(stack) - 2)
<1> DEFINE Y == Ext(vars, up, Running)
<1> DEFINE vs == <<val, f.cur, f.set.on>>
<1>1. /\ At("setindex") /\ ~Idle
      /\ \/ \E k \in Keys : SetEntry(f, k, val)
         \/ heap' = ReleaseAll(heap, vs) /\ broke' \in {broke, FALSE} /\ lost' = lost
      /\ (stack' = up /\ val' = Empty) \/ (stack' = Append(up, Body(f.ret)) /\ val' = Running)
  BY DEF IndexSet
<1>2. vars' = vars /\ exited' \in BOOLEAN /\ length' \in 0 .. MaxLength
  BY DEF IndexSet, Inv
<1>3. f = stack[Len(stack) - 1] /\ up = SubSeq(stack, 1, Len(stack) - 2)
  OBVIOUS
<1> HIDE DEF f, up
<1>4. stack # <<>> /\ val \in Value /\ f.cur \in Value /\ f.set.on \in Value /\ f.ret \in BOOLEAN
      /\ up \in Seq(Frame) /\ Len(up) < MaxFrames /\ Len(up) =< Len(stack) /\ (\A d \in 1 .. Len(up) : up[d] = stack[d])
      /\ (Discarding(up) => ~f.ret) /\ Y \in [Ids -> Nat] /\ vars \in [Vars -> Value]
  BY <1>1, <1>3, IndexTop
<1>5. \A i \in Ids : /\ Outside[i] = Y[i] + Is(f.cur, i) + Is(f.set.on, i) + Is(val, i)
                     /\ i \in HeldIn(up) => Y[i] >= 1
                     /\ Around[i] = Y[i] + Is(f.cur, i) + Is(f.set.on, i)
  BY <1>1, <1>3, IndexTop
<1>6. Outside \in [Ids -> Nat] /\ Sound(heap, Outside, lost)
  BY <1>4, Now
<1>7. IsFiniteSet(DOMAIN vs) /\ \A i : Count(vs, i) = Is(val, i) + Is(f.cur, i) + Is(f.set.on, i)
  <2>1. vs \in Seq(Value)
    BY <1>4
  <2>2. \A i : Count(vs, i) = Is(val, i) + Is(f.cur, i) + Is(f.set.on, i)
    BY CountThree
  <2> HIDE DEF vs
  <2>3. IsFiniteSet(DOMAIN vs)
    BY <2>1, CountSeqType
  <2> QED BY <2>2, <2>3
<1> HIDE DEF Y
<1>8. \A i \in Ids : Y[i] = Outside[i] - Count(vs, i) /\ (i \in HeldIn(up) => Outside[i] >= 1 /\ Y[i] >= 1)
  <2>1. SUFFICES ASSUME NEW i \in Ids
                 PROVE  Y[i] = Outside[i] - Count(vs, i) /\ (i \in HeldIn(up) => Outside[i] >= 1 /\ Y[i] >= 1)
    OBVIOUS
  <2>2. Y[i] \in Nat /\ Is(val, i) \in {0, 1} /\ Is(f.cur, i) \in {0, 1} /\ Is(f.set.on, i) \in {0, 1}
    BY <1>4, IsType
  <2>3. Count(vs, i) = Is(val, i) + Is(f.cur, i) + Is(f.set.on, i)
    BY <1>7
  <2>4. Outside[i] = Y[i] + Is(f.cur, i) + Is(f.set.on, i) + Is(val, i) /\ (i \in HeldIn(up) => Y[i] >= 1)
    BY <1>5
  <2> HIDE DEF vs
  <2> QED BY <2>2, <2>3, <2>4
<1>9. /\ f.cur \in Ids => heap[f.cur].kind # "none"
      /\ f.set.on \in Ids => heap[f.set.on].kind # "none"
  <2>1. \A i \in Ids : i = f.cur \/ i = f.set.on => Around[i] >= 1
    <3>1. SUFFICES ASSUME NEW i \in Ids, i = f.cur \/ i = f.set.on PROVE Around[i] >= 1
      OBVIOUS
    <3>2. Y[i] \in Nat /\ Is(f.cur, i) \in {0, 1} /\ Is(f.set.on, i) \in {0, 1} /\ (Is(f.cur, i) = 1 \/ Is(f.set.on, i) = 1)
      BY <1>4, <3>1, IsType
    <3>3. Around[i] = Y[i] + Is(f.cur, i) + Is(f.set.on, i)
      BY <1>5
    <3> QED BY <3>2, <3>3
  <2> QED BY <1>4, <2>1, There
<1>10. Step(heap, lost, heap', Y, lost', HeldIn(up)) /\ broke' = FALSE
  <2>1. CASE \E k \in Keys : SetEntry(f, k, val)
    <3>1. PICK k \in Keys : SetEntry(f, k, val)
      BY <2>1
    <3>2. \A i \in Ids : Y[i] = Outside[i] - Count(<<val, f.cur, f.set.on>>, i)
      BY <1>8
    <3>3. stack # <<>> /\ f.cur \in Value /\ f.set.on \in Value /\ val \in Value /\ Y \in [Ids -> Nat]
      BY <1>4
    <3>4. \A i \in Ids : i \in HeldIn(up) => Outside[i] >= 1 /\ Y[i] >= 1
      BY <1>8
    <3> QED BY <1>9, <3>1, <3>2, <3>3, <3>4, SetEntryStep, ZenonT(60)
  <2>2. CASE heap' = ReleaseAll(heap, vs) /\ broke' \in {broke, FALSE} /\ lost' = lost
    <3>1. broke' = FALSE
      BY <2>2 DEF Inv
    <3> HIDE DEF vs
    <3>2. Step(heap, lost, ReleaseAll(heap, vs), Y, lost, HeldIn(up))
      BY <1>4, <1>6, <1>7, <1>8, ReleaseStep
    <3> QED BY <2>2, <3>1, <3>2
  <2> QED BY <1>1, <2>1, <2>2
<1>11. StackOK(up, heap', lost')
  <2>1. StackOK(stack, heap, lost)
    BY DEF Inv
  <2> QED BY <1>4, <1>10, <2>1, BelowKept
<1>12. Sound(heap', Ext(vars', up, Running), lost') /\ vars' \in [Vars -> Value]
  BY <1>2, <1>4, <1>10 DEF Step, Y
<1> QED BY <1>1, <1>2, <1>4, <1>10, <1>11, <1>12, DoneKeeps

LEMMA EmptyStack ==
  ASSUME NEW b, b = <<>>, NEW h, NEW L
  PROVE  b \in Seq(Frame) /\ Len(b) = 0 /\ StackOK(b, h, L) /\ ~Discarding(b) /\ \A i : InStack(b, i) = 0
<1>1. b \in Seq(Frame) /\ Len(b) = 0 /\ 1 .. Len(b) = {} /\ 0 =< MaxFrames
  BY SizesAssumption
<1> QED BY <1>1, InNothing DEF StackOK, Discarding

(* The script is over. *)
LEMMA ExitRuntimeVarsKeeps ==
  ASSUME Inv, ExitRuntimeVars
  PROVE  Inv'
<1> DEFINE Z == Ext(vars, stack, Running)
<1> DEFINE Y == Ext(vars', stack, Running)
<1>1. /\ stack = <<>> /\ heap' = ReleaseAll(heap, vars) /\ vars' = [n \in Vars |-> Null]
      /\ lost' = lost \cup CountedIn(heap, <<val>>) /\ val' = Running /\ stack' = stack
      /\ broke' = FALSE /\ exited' \in BOOLEAN /\ length' \in 0 .. MaxLength
  BY DEF ExitRuntimeVars, Inv
<1>2. vars \in [Vars -> Value] /\ vars' \in [Vars -> Value] /\ stack \in Seq(Frame) /\ Sound(heap, Outside, lost)
  BY <1>1, KindFacts DEF Inv, StackOK, Outside
<1>3. Outside \in [Ids -> Nat] /\ Z \in [Ids -> Nat] /\ Y \in [Ids -> Nat]
  BY <1>2, ExtType DEF Outside
<1>4. IsFiniteSet(DOMAIN <<val>>) /\ \A i : Count(<<val>>, i) = Is(val, i)
  BY OneReleased
<1>5. \A i \in Ids : Z[i] = Outside[i] - Count(<<val>>, i)
  <2>1. \A i \in Ids : Outside[i] = Z[i] + Is(val, i) /\ Is(val, i) \in {0, 1} /\ Z[i] \in Nat
    BY <1>2, ExtReturn DEF Outside
  <2> HIDE DEF Z
  <2> QED BY <1>4, <2>1
<1>6. Sound(heap, Z, lost')
  <2> HIDE DEF Z
  <2>1. Step(heap, lost, heap, Z, lost \cup CountedIn(heap, <<val>>), {})
    BY <1>2, <1>3, <1>4, <1>5, ForgetStep
  <2> QED BY <1>1, <2>1 DEF Step
<1>7. ASSUME NEW i \in Ids PROVE Y[i] = Z[i] - Count(vars, i)
  <2>1. Z[i] = Count(vars, i) + InStack(stack, i) + Is(Running, i) /\ Count(vars, i) \in Nat /\ InStack(stack, i) \in Nat
    BY <1>2, ExtType
  <2>2. Y[i] = Count(vars', i) + InStack(stack, i) + Is(Running, i)
    BY <1>2, ExtType
  <2>3. Count(vars', i) = 0
    <3>1. {n \in DOMAIN vars' : vars'[n] = i} = {}
      BY <1>1, IdsFacts
    <3> QED BY <3>1, FS_EmptySet DEF Count
  <2>4. Is(Running, i) = 0
    BY NoValue
  <2> HIDE DEF Y, Z
  <2> QED BY <2>1, <2>2, <2>3, <2>4
<1>8. IsFiniteSet(DOMAIN vars)
  BY <1>2, SizesAssumption
<1>9. Sound(heap', Y, lost')
  <2> HIDE DEF Y, Z
  <2>1. Step(heap, lost', ReleaseAll(heap, vars), Y, lost', {})
    <3> DEFINE M == lost'
    <3>1. Sound(heap, Z, M)
      BY <1>6
    <3> HIDE DEF M
    <3>2. Step(heap, M, ReleaseAll(heap, vars), Y, M, {})
      BY <1>3, <1>7, <1>8, <3>1, ReleaseStep
    <3> QED BY <3>2 DEF M
  <2> QED BY <1>1, <2>1 DEF Step
<1>10. StackOK(stack', heap', lost') /\ Running \notin Ids
  BY <1>1, EmptyStack, IdsFacts
<1> QED BY <1>1, <1>2, <1>9, <1>10 DEF Inv

LEMMA StatementKeeps ==
  ASSUME Inv, MaxTags < TagLimit, Features = {}, Statement
  PROVE  Inv'
<1>1. CASE \E last \in BOOLEAN : Drop(last) \/ Assign(last) \/ AssignEntry(last) \/ AssignIndex(last)
  BY <1>1, DropKeeps, AssignKeeps, AssignEntryKeeps, AssignIndexKeeps
<1> QED BY <1>1, BeginKeeps, OperatorKeeps, ExpectedOperatorKeeps, FirstOperandKeeps, OperateKeeps, IndexSetKeeps DEF Statement

LEMMA NextKeeps ==
  ASSUME Inv, MaxTags < TagLimit, Features = {}, [Next]_evars
  PROVE  Inv'
<1>1. CASE UNCHANGED evars
  BY <1>1 DEF evars, Inv
<1> QED BY <1>1, OperandKeeps, BuiltInKeeps, StatementKeeps, ExitRuntimeVarsKeeps DEF Next

LEMMA InitInv ==
  ASSUME Features = {}, Init
  PROVE  Inv
<1>1. /\ heap = [i \in Ids |-> Free] /\ vars = [n \in Vars |-> Null] /\ val = Running
      /\ exited \in BOOLEAN /\ lost = {} /\ Running \notin Ids
  BY IdsFacts DEF Init
<1>2. PICK ret \in BOOLEAN : stack = <<Body(ret)>>
  BY DEF Init
<1>3. broke = FALSE
  BY DEF Init
<1>4. length \in 0 .. MaxLength
  BY SizesAssumption DEF Init
<1>5. vars \in [Vars -> Value]
  BY <1>1, KindFacts
<1> DEFINE b == <<>>
<1> DEFINE f == Body(ret)
<1>6. stack = Append(b, f) /\ b = <<>>
  BY <1>2
<1>7. f \in EvalFrame /\ \A i \in Ids : Held(f, i) = 0
  BY NewEvals
<1> HIDE DEF b, f
<1>8. b \in Seq(Frame) /\ Len(b) = 0 /\ StackOK(b, heap, lost) /\ ~Discarding(b) /\ \A i : InStack(b, i) = 0
  BY <1>6, EmptyStack
<1>9. StackOK(stack, heap, lost) /\ Ext(vars, stack, Running) = Ext(vars, b, Running)
  <2>1. f \in Frame /\ Sits(Append(b, f), heap, lost, Len(b) + 1)
    BY <1>7, <1>8, EvalSits
  <2>2. Len(b) < MaxFrames
    BY <1>8, SizesAssumption
  <2>3. \A i \in Ids : Held(f, i) = 0
    BY <1>7
  <2> QED BY <1>5, <1>6, <1>8, <2>1, <2>2, <2>3, Stacked
<1>10. Sound(heap, Ext(vars, b, Running), lost)
  <2>1. ASSUME NEW i \in Ids PROVE CellOK(heap[i], Ext(vars, b, Running)[i] + Owned(heap, Ids, i), i \in lost)
    <3>1. Free = [kind |-> "none", tags |-> 0, pinned |-> FALSE, base |-> Null, entries |-> NoEntries] /\ heap[i] = Free
      BY <1>1 DEF Free
    <3>2. Owned(heap, Ids, i) = 0
      <4>1. \A c \in Ids : (Keeps(heap[c].kind) => heap[c].base # i) /\ \A k \in Keys : heap[c].entries[k] # i
        BY <1>1, IdsFacts DEF Free, Keeps, NoEntries
      <4> QED BY <4>1, OwnedByNone
    <3>3. Ext(vars, b, Running)[i] = 0
      <4>1. Ext(vars, b, Running)[i] = Count(vars, i) + InStack(b, i) + Is(Running, i)
        BY <1>5, <1>8, ExtType
      <4>2. Count(vars, i) = 0
        <5>1. {n \in DOMAIN vars : vars[n] = i} = {}
          BY <1>1, IdsFacts
        <5> QED BY <5>1, FS_EmptySet DEF Count
      <4> QED BY <1>8, <4>1, <4>2, NoValue
    <3>4. i \notin lost
      BY <1>1
    <3> QED BY <3>1, <3>2, <3>3, <3>4 DEF CellOK, Keeps
  <2>2. heap \in [Ids -> Cell]
    <3>1. Free \in Cell
      BY SizesAssumption, KindFacts DEF Free, Cell, NoEntries
    <3> QED BY <1>1, <3>1
  <2> QED BY <1>1, <2>1, <2>2 DEF Sound
<1> QED BY <1>1, <1>3, <1>4, <1>5, <1>9, <1>10 DEF Inv

LEMMA Invariance ==
  ASSUME Features = {}, MaxTags < TagLimit
  PROVE  Spec => []Inv
<1>1. Init => Inv
  BY InitInv
<1>2. Inv /\ [Next]_evars => Inv'
  BY NextKeeps
<1> QED BY <1>1, <1>2, PTL DEF Spec

-----------------------------------------------------------------------------
(***************************************************************************)
(* The theorems.  They are about a script that calls neither break() nor   *)
(* foreach() nor project(), and in which no value is referred to more      *)
(* often than its u8 counts.                                               *)
(***************************************************************************)

(* Whatever statements a script is made of, and however deep its calls     *)
(* are, what the evaluator keeps has its type (eval.c, genericClass.c).    *)
THEOREM ScriptTypeOK ==
  ASSUME Features = {}, MaxTags < TagLimit
  PROVE  Spec => []TypeOK
<1>1. Inv => TypeOK
  <2> SUFFICES ASSUME Inv PROVE TypeOK
    OBVIOUS
  <2>1. stack \in Seq(Frame) /\ Len(stack) =< MaxFrames
    BY DEF Inv, StackOK
  <2>2. \A f \in Frames : stack[f].k \in {"eval", "index", "setindex", "call", "args", "block", "loop"}
    <3>1. \A f \in Frames : stack[f] \in Frame
      BY <2>1 DEF Frames
    <3> QED BY <3>1, FrameKinds
  <2>3. heap \in [Ids -> Cell] /\ lost \subseteq Ids
    BY DEF Inv, Sound
  <2>4. vars \in [Vars -> Value] /\ val \in Value \cup {Running} /\ broke = FALSE /\ exited \in BOOLEAN /\ length \in 0 .. MaxLength
    BY DEF Inv
  <2> QED BY <2>1, <2>2, <2>3, <2>4 DEF TypeOK
<1> QED BY <1>1, Invariance, PTL

(* What is referred to from outside of the heap is there. *)
LEMMA Reached ==
  ASSUME Inv
  PROVE  /\ \A i \in Ids : /\ (\E n \in Vars : vars[n] = i) => heap[i].kind # "none"
                           /\ val = i => heap[i].kind # "none"
                           /\ InStack(stack, i) >= 1 => heap[i].kind # "none"
                           /\ i \in lost => heap[i].kind # "none"
         /\ \A c \in Ids : /\ Live(heap[c].base)
                           /\ \A k \in Keys : Live(heap[c].entries[k])
<1>1. vars \in [Vars -> Value] /\ stack \in Seq(Frame) /\ Sound(heap, Outside, lost)
  BY DEF Inv, StackOK, Outside
<1>2. Outside \in [Ids -> Nat]
  BY <1>1, ExtType DEF Outside
<1>3. ASSUME NEW i \in Ids
      PROVE  /\ Outside[i] = Count(vars, i) + InStack(stack, i) + Is(val, i)
             /\ Count(vars, i) \in Nat /\ InStack(stack, i) \in Nat /\ Is(val, i) \in {0, 1}
             /\ (\E n \in Vars : vars[n] = i) => Count(vars, i) >= 1
             /\ val = i => Is(val, i) = 1
  <2>1. (\E n \in Vars : vars[n] = i) => Count(vars, i) >= 1
    BY <1>1, SizesAssumption, CountAtLeast
  <2>2. val = i => Is(val, i) = 1
    BY DEF Is
  <2> QED BY <1>1, <2>1, <2>2, ExtType DEF Outside
<1>4. ASSUME NEW i \in Ids, (\E n \in Vars : vars[n] = i) \/ val = i \/ InStack(stack, i) >= 1 \/ i \in lost
      PROVE  heap[i].kind # "none"
  <2>1. Outside[i] >= 1 \/ i \in lost
    BY <1>3, <1>4
  <2> QED BY <1>1, <1>2, <2>1, Referred
<1>5. ASSUME NEW c \in Ids PROVE Live(heap[c].base) /\ \A k \in Keys : Live(heap[c].entries[k])
  <2>1. IF Keeps(heap[c].kind) THEN heap[c].base \in Ids ELSE heap[c].base = Null
    BY <1>1, <1>2, SoundCell DEF CellOK
  <2>2. ASSUME heap[c].base \in Ids PROVE heap[heap[c].base].kind # "none"
    <3>1. Keeps(heap[c].kind)
      BY <2>1, <2>2, IdsFacts
    <3> QED BY <1>1, <1>2, <2>2, <3>1, Referred
  <2>3. ASSUME NEW k \in Keys, heap[c].entries[k] \in Ids PROVE heap[heap[c].entries[k]].kind # "none"
    BY <1>1, <1>2, <2>3, Referred
  <2> QED BY <2>2, <2>3 DEF Live
<1> QED BY <1>4, <1>5

(* No value that a script can still reach has been freed: not through a    *)
(* variable, an entry, the origin of a function or slice, an argument, or  *)
(* the value that a built-in function works on (garbageCollector.c).       *)
THEOREM ScriptNoDangling ==
  ASSUME Features = {}, MaxTags < TagLimit
  PROVE  Spec => []NoDangling
<1>1. Inv => NoDangling
  <2> SUFFICES ASSUME Inv PROVE NoDangling
    OBVIOUS
  <2>1. stack \in Seq(Frame) /\ DOMAIN stack = 1 .. Len(stack) /\ \A d \in 1 .. Len(stack) : Sits(stack, heap, lost, d)
    BY DEF Inv, StackOK
  <2>2. \A n \in Vars : Live(vars[n])
    BY Reached DEF Live
  <2>3. ASSUME NEW d \in Frames, NEW j \in DOMAIN Holds(stack[d]) PROVE Live(Holds(stack[d])[j])
    <3>1. d \in 1 .. Len(stack)
      BY <2>1 DEF Frames
    <3>2. \A i : Holds(stack[d])[j] = i => InStack(stack, i) >= 1
      BY <2>1, <3>1, InAtLeast
    <3> QED BY <3>2, Reached DEF Live
  <2>4. ASSUME NEW d \in Frames, stack[d].k = "args" PROVE Live(stack[d].of)
    <3>1. d \in 1 .. Len(stack) /\ d \in Nat /\ Belongs(stack, heap, lost, d)
      BY <2>1, <2>4 DEF Frames, Sits
    <3>2. CASE stack[d].of = Null
      BY <3>2, IdsFacts DEF Live
    <3>3. CASE stack[d].of # Null
      <4>1. PICK v \in Ids : (v = stack[d].of \/ (Keeps(heap[v].kind) /\ heap[v].base = stack[d].of)) /\ HeldBelow(stack, lost, d, v)
        BY <3>1, <3>3 DEF Belongs
      <4>2. v \in lost \/ InStack(stack, v) >= 1
        <5>1. \A e \in 1 .. d - 1 : e \in 1 .. Len(stack)
          BY <2>1, <3>1
        <5> QED BY <2>1, <4>1, <5>1, InAtLeast DEF HeldBelow
      <4>3. heap[v].kind # "none" /\ Live(heap[v].base)
        BY <4>2, Reached
      <4> QED BY <4>1, <4>3 DEF Live
    <3> QED BY <3>2, <3>3
  <2>5. val # Running => Live(val)
    BY Reached DEF Live
  <2> QED BY <2>2, <2>3, <2>4, <2>5, Reached DEF NoDangling
<1> QED BY <1>1, Invariance, PTL

(* tagCount is the number of references to a value, in variables, entries, *)
(* origins and on the C stack; it is larger only for a value of which a    *)
(* reference was forgotten (garbageCollector.c, eval.c).                   *)
THEOREM ScriptCountsExact ==
  ASSUME Features = {}, MaxTags < TagLimit
  PROVE  Spec => []CountsExact
<1>1. Inv => CountsExact
  <2> SUFFICES ASSUME Inv, NEW i \in Ids, heap[i].kind # "none"
               PROVE  heap[i].tags >= Refs(i) /\ (i \notin lost => heap[i].tags = Refs(i))
    BY DEF CountsExact
  <2>1. vars \in [Vars -> Value] /\ stack \in Seq(Frame) /\ Sound(heap, Outside, lost)
    BY DEF Inv, StackOK, Outside
  <2>2. Outside \in [Ids -> Nat]
    BY <2>1, ExtType DEF Outside
  <2>3. CellOK(heap[i], Outside[i] + Owned(heap, Ids, i), i \in lost) /\ Owned(heap, Ids, i) \in Nat /\ heap[i].tags \in Nat
    BY <2>1, <2>2, SoundCell
  <2>4. /\ Outside[i] = Count(vars, i) + InStack(stack, i) + Is(val, i)
        /\ Count(vars, i) \in Nat /\ InStack(stack, i) \in Nat /\ Is(val, i) \in {0, 1}
    BY <2>1, ExtType DEF Outside
  <2>5. Refs(i) = Count(vars, i) + Origins(heap, Ids, i) + Entries(heap, Ids, i) + InStack(stack, i) + Is(val, i)
    <3>1. DOMAIN vars = Vars
      BY <2>1
    <3>2. Cardinality({n \in Vars : vars[n] = i}) = Count(vars, i)
      BY <3>1 DEF Count
    <3>3. Cardinality({p \in UNION {{f} \X DOMAIN Holds(stack[f]) : f \in Frames} : Holds(stack[p[1]])[p[2]] = i}) = InStack(stack, i)
      BY DEF InStack, HeldPlaces, Frames
    <3> QED BY <3>2, <3>3 DEF Refs, Origins, Entries, Is
  <2>6. Owned(heap, Ids, i) = Origins(heap, Ids, i) + Entries(heap, Ids, i)
        /\ Origins(heap, Ids, i) \in Nat /\ Entries(heap, Ids, i) \in Nat
    <3> DEFINE C == Ids
    <3>1. C \in SUBSET Ids
      OBVIOUS
    <3> HIDE DEF C
    <3>2. Cardinality(OriginsIn(heap, C, i)) \in Nat /\ Cardinality(EntriesIn(heap, C, i)) \in Nat
      BY <3>1, OwnedParts
    <3>3. Origins(heap, C, i) = Cardinality(OriginsIn(heap, C, i)) /\ Entries(heap, C, i) = Cardinality(EntriesIn(heap, C, i))
      BY DEF Origins, Entries, OriginsIn, EntriesIn
    <3>4. Owned(heap, C, i) = Origins(heap, C, i) + Entries(heap, C, i)
      BY DEF Owned
    <3> QED BY <3>2, <3>3, <3>4 DEF C
  <2>7. Refs(i) = Outside[i] + Owned(heap, Ids, i)
    BY <2>4, <2>5, <2>6
  <2>8. Refs(i) \in Nat
    BY <2>2, <2>3, <2>7
  <2> QED BY <2>3, <2>7, <2>8 DEF CellOK
<1> QED BY <1>1, Invariance, PTL

Exits == broke = FALSE /\ ExitStops

(* No call is returning NULL, and none calls exit(); or one returns NULL.  *)
GoesOnRunning == stack # <<>> /\ val # Null /\ exited' = exited
StaysNull == broke' = FALSE /\ (GoesOnRunning \/ val' = Null)

LEMMA StaysNullKeeps ==
  ASSUME Exits, StaysNull
  PROVE  Exits'
  BY DEF Exits, StaysNull, GoesOnRunning, ExitStops

LEMMA IdleRuns ==
  Idle => val # Null
  BY DEF Idle, Running, Null

LEMMA SameExits ==
  ASSUME Exits, Same, stack # <<>>, val # Null
  PROVE  StaysNull
  BY DEF Exits, Same, StaysNull, GoesOnRunning

LEMMA GiveUpExits ==
  ASSUME Exits, GiveUp, UNCHANGED broke
  PROVE  StaysNull
  BY DEF Exits, GiveUp, Return, StaysNull

LEMMA ErrorExits ==
  ASSUME Error
  PROVE  StaysNull
  BY DEF Error, GiveUp, Return, StaysNull

LEMMA OperandExits ==
  ASSUME Exits, Operand
  PROVE  StaysNull
<1>1. \A t : StartsWith(t) \/ GoesOn(t) => stack # <<>> /\ val # Null
  BY IdleRuns DEF StartsWith, GoesOn, EvalIdle, At
<1>2. CASE Literal \/ ScriptFunction \/ StdFunction \/ Brackets \/ Index
  BY <1>1, <1>2, SameExits DEF Literal, ScriptFunction, StdFunction, Brackets, Index
<1>3. CASE Lookup \/ Entry \/ Member \/ Call \/ CallMember
  BY <1>1, <1>3, SameExits, ErrorExits DEF Lookup, Entry, Member, Call, CallMember
<1>4. CASE SetVariable \/ SetMember
  <2>1. (stack # <<>> /\ val # Null /\ Notes) => StaysNull
    BY SameExits, GiveUpExits DEF Notes
  <2> QED BY <1>1, <1>4, <2>1, ErrorExits DEF SetVariable, SetMember
<1>5. CASE Indexed
  <2>1. CASE Return(Null) /\ broke' = FALSE
    BY <2>1 DEF Return, StaysNull
  <2>2. CASE KindOf(heap, val) = "plain" /\ UNCHANGED <<broke, exited>> /\ stack # <<>>
    BY <2>2, KindIs DEF StaysNull, GoesOnRunning, Exits
  <2> QED BY <1>5, <2>1, <2>2 DEF Indexed, At
<1>6. CASE CallEntry \/ Negate
  <2>1. stack # <<>> /\ val # Null /\ exited' = exited
    BY <1>1, <1>6 DEF CallEntry, Negate
  <2>2. broke' = FALSE
    BY <1>6 DEF CallEntry, Negate, Exits
  <2> QED BY <2>1, <2>2 DEF StaysNull, GoesOnRunning
<1>7. CASE Resume
  BY <1>7, GiveUpExits, SameExits DEF Resume, At
<1>8. CASE Called
  <2>1. CASE val = Null
    BY <1>8, <2>1 DEF Called, Same, Return, StaysNull, Exits
  <2>2. CASE val # Null
    BY <1>8, <2>2, SameExits DEF Called, At
  <2> QED BY <2>1, <2>2
<1> QED BY <1>2, <1>3, <1>4, <1>5, <1>6, <1>7, <1>8 DEF Operand

LEMMA BuiltInExits ==
  ASSUME "break" \notin Features, Exits, BuiltIn
  PROVE  StaysNull
<1>1. \A c, n : Given(c, n) => stack # <<>> /\ val # Null
  BY IdleRuns DEF Given, At
<1>2. CASE NextArg \/ NewDict
  BY <1>1, <1>2, SameExits, IdleRuns DEF NextArg, NewDict, At
<1>3. CASE ArgGot
  BY <1>3, GiveUpExits, SameExits DEF ArgGot, At
<1>4. CASE Compute
  <2>1. stack # <<>> /\ val # Null /\ exited' = exited
    BY <1>4, IdleRuns DEF Compute, At
  <2>2. broke' = FALSE
    BY <1>4 DEF Compute, Exits
  <2> QED BY <2>1, <2>2 DEF StaysNull, GoesOnRunning
<1>5. CASE \E k \in Keys : DictSet(k)
  BY <1>1, <1>5 DEF DictSet, StaysNull, GoesOnRunning, Exits
<1>6. CASE Exit
  <2>1. val' = Null
    BY <1>6 DEF Exit, Gives, Return
  <2>2. broke' = FALSE
    BY <1>6 DEF Exit, Exits
  <2> QED BY <2>1, <2>2 DEF StaysNull
<1>7. CASE If \/ Else
  BY <1>1, <1>7, SameExits DEF If, Else
<1>8. CASE BlockEnded
  <2>1. CASE val = Null
    BY <1>8, <2>1 DEF BlockEnded, BlockFails, Same, Return, StaysNull, Exits
  <2>2. CASE val # Null
    BY <1>8, <2>2, SameExits DEF BlockEnded, At
  <2> QED BY <2>1, <2>2
<1>9. CASE Loop
  <2>1. stack # <<>> /\ val # Null
    BY <1>1, <1>9 DEF Loop, While, ForEach
  <2> QED BY <1>9, <2>1 DEF Loop, StaysNull, GoesOnRunning, Exits
<1>10. CASE Condition
  <2>1. CASE KindOf(heap, val) = "plain"
    <3>1. val # Null
      BY <2>1, KindIs
    <3> QED BY <1>10, <3>1 DEF Condition, At, StaysNull, GoesOnRunning, Exits
  <2>2. CASE KindOf(heap, val) # "plain"
    BY <1>10, <2>2 DEF Condition, Return, StaysNull, Exits
  <2> QED BY <2>1, <2>2
<1>11. CASE LoopBody
  <2>1. CASE val = Null
    BY <1>11, <2>1 DEF LoopBody, Same, Return, StaysNull, Exits
  <2>2. CASE val # Null
    BY <1>11, <2>2, SameExits DEF LoopBody, At
  <2> QED BY <2>1, <2>2
<1>12. CASE CallEnded
  <2>1. CASE val = Null
    BY <1>12, <2>1 DEF CallEnded, Gives, Same, Return, StaysNull, Exits
  <2>2. CASE val # Null
    BY <1>12, <2>2, SameExits DEF CallEnded, At
  <2> QED BY <2>1, <2>2
<1> QED BY <1>2, <1>3, <1>4, <1>5, <1>6, <1>7, <1>8, <1>9, <1>10, <1>11, <1>12 DEF BuiltIn

LEMMA StatementExits ==
  ASSUME Exits, Statement
  PROVE  StaysNull
<1>1. EvalIdle => stack # <<>> /\ val # Null
  BY IdleRuns DEF EvalIdle, At
<1>2. CASE \E s \in Statements : Begin(s)
  BY <1>1, <1>2 DEF Begin, AtStart, StaysNull, GoesOnRunning, Exits
<1>3. CASE Operator \/ ExpectedOperator \/ FirstOperand
  BY <1>1, <1>3, SameExits, GiveUpExits, ErrorExits DEF Operator, ExpectedOperator, FirstOperand, Complete
<1>4. CASE Operate
  <2>1. broke' = FALSE /\ exited' = exited /\ stack # <<>> /\ val # Null
    BY <1>1, <1>4 DEF Operate, Complete, Exits
  <2> QED BY <2>1 DEF StaysNull, GoesOnRunning
<1>5. CASE IndexSet
  <2>1. broke' = FALSE
    BY <1>5 DEF IndexSet, SetEntry, Exits
  <2>2. exited' = exited /\ stack # <<>> /\ val # Null
    BY <1>5 DEF IndexSet, At
  <2> QED BY <2>1, <2>2 DEF StaysNull, GoesOnRunning
<1>6. ASSUME NEW last \in BOOLEAN, Drop(last) \/ Assign(last) \/ AssignEntry(last) \/ AssignIndex(last) PROVE StaysNull
  <2>1. stack # <<>> /\ val # Null
    BY <1>1, <1>6 DEF Drop, Assign, AssignEntry, AssignIndex, AtEnd
  <2>2. exited' = exited
    BY <1>6 DEF Drop, Assign, AssignEntry, AssignIndex, Same
  <2>3. broke' = FALSE
    BY <1>6 DEF Drop, Assign, AssignEntry, AssignIndex, Same, SetEntry, Exits
  <2> QED BY <2>1, <2>2, <2>3 DEF StaysNull, GoesOnRunning
<1> QED BY <1>2, <1>3, <1>4, <1>5, <1>6 DEF Statement

(* Once exit() was called every call returns NULL until the script has     *)
(* ended: no statement of it runs any more (eval.c, standardLibrary.c).    *)
(* With break() this does not hold: a loop then takes any NULL for one.    *)
THEOREM ScriptExitStops ==
  ASSUME "break" \notin Features
  PROVE  Spec => []ExitStops
<1>1. Init => Exits
  BY DEF Init, Exits, ExitStops
<1>2. Exits /\ [Next]_evars => Exits'
  <2> SUFFICES ASSUME Exits, [Next]_evars PROVE Exits'
    OBVIOUS
  <2>1. CASE UNCHANGED evars
    BY <2>1 DEF evars, Exits, ExitStops
  <2>2. CASE ExitRuntimeVars
    BY <2>2 DEF ExitRuntimeVars, Exits, ExitStops
  <2> QED BY <2>1, <2>2, OperandExits, BuiltInExits, StatementExits, StaysNullKeeps DEF Next
<1> QED BY <1>1, <1>2, PTL DEF Spec, Exits
=============================================================================
