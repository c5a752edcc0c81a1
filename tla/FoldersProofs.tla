--------------------------- MODULE FoldersProofs ---------------------------
(***************************************************************************)
(* Proofs about Folders, for volumes of any shape and contents and any     *)
(* number of calls and failing accesses: lemmas about paths, trees and the *)
(* frames of the recursion, then what a step is (Stepped, of which Shape   *)
(* is an invariant), then one strengthening for each theorem: Kept of what *)
(* changes, Remains and Removed of deletions, Bounded of the recursion,    *)
(* Progress and Arrived of copies.                                         *)
(***************************************************************************)
EXTENDS Folders, SequenceTheorems, WellFoundedInduction, TLAPS

-----------------------------------------------------------------------------
(* Paths.                                                                  *)
LEMMA PrefixDef ==
  ASSUME NEW S, NEW p \in Seq(S), NEW q \in Seq(S)
  PROVE  IsPrefix(p, q) <=> Len(p) <= Len(q) /\ \A i \in 1 .. Len(p) : p[i] = q[i]
<1>1. Len(p) \in Nat /\ Len(q) \in Nat /\ p \in [1 .. Len(p) -> S] /\ q \in [1 .. Len(q) -> S]
  BY LenProperties
<1>2. SubSeq(p, 1, Len(p)) = p
  BY SubSeqFull
<1>3. ASSUME Len(p) <= Len(q)
      PROVE  /\ SubSeq(q, 1, Len(p)) \in Seq(S) /\ Len(SubSeq(q, 1, Len(p))) = Len(p)
             /\ \A i \in 1 .. Len(p) : SubSeq(q, 1, Len(p))[i] = q[i]
  <2> DEFINE m == Len(p)
  <2>1. m \in Nat /\ 1 \in Int /\ \A i \in 1 .. m : q[i] \in S
    BY <1>1, <1>3
  <2> HIDE DEF m
  <2>2. /\ SubSeq(q, 1, m) \in Seq(S)
        /\ Len(SubSeq(q, 1, m)) = IF 1 <= m THEN m - 1 + 1 ELSE 0
        /\ \A i \in 1 .. m - 1 + 1 : SubSeq(q, 1, m)[i] = q[1 + i - 1]
    BY <2>1, SubSeqProperties
  <2>3. /\ SubSeq(q, 1, m) \in Seq(S) /\ Len(SubSeq(q, 1, m)) = m
        /\ \A i \in 1 .. m : SubSeq(q, 1, m)[i] = q[i]
    BY <2>1, <2>2
  <2> QED BY <2>3 DEF m
<1>4. ASSUME Len(p) <= Len(q), \A i \in 1 .. Len(p) : p[i] = q[i]
      PROVE  SubSeq(q, 1, Len(p)) = p
  BY <1>3, <1>4, SeqEqual
<1> QED BY <1>2, <1>3, <1>4 DEF IsPrefix

LEMMA PrefixFacts ==
  ASSUME NEW S, NEW p \in Seq(S), NEW q \in Seq(S), NEW r \in Seq(S)
  PROVE  /\ IsPrefix(p, p) /\ IsPrefix(<<>>, p)
         /\ IsPrefix(p, q) => Len(p) <= Len(q)
         /\ IsPrefix(p, q) /\ Len(p) = Len(q) => p = q
         /\ IsPrefix(p, q) /\ IsPrefix(q, r) => IsPrefix(p, r)
         /\ IsPrefix(p, r) /\ IsPrefix(q, r) /\ Len(p) <= Len(q) => IsPrefix(p, q)
<1>1. Len(p) \in Nat /\ Len(q) \in Nat /\ Len(r) \in Nat
  BY LenProperties
<1>2. <<>> \in Seq(S) /\ Len(<<>>) = 0
  BY EmptySeq
<1>3. IsPrefix(p, p) /\ IsPrefix(<<>>, p)
  <2>1. IsPrefix(p, p)
    BY <1>1, PrefixDef
  <2>2. SubSeq(<<>>, 1, 0) = <<>> /\ SubSeq(p, 1, 0) = <<>>
    BY SubSeqEmpty
  <2> QED BY <1>1, <1>2, <2>1, <2>2 DEF IsPrefix
<1>4. IsPrefix(p, q) /\ Len(p) = Len(q) => p = q
  BY <1>1, PrefixDef, SeqEqual
<1> QED BY <1>1, <1>3, <1>4, PrefixDef

LEMMA FrontLast ==
  ASSUME NEW S, NEW p \in Seq(S), p # <<>>
  PROVE  /\ Front(p) \in Seq(S) /\ Last(p) \in S /\ p = Append(Front(p), Last(p))
         /\ Len(p) \in Nat \ {0} /\ Len(Front(p)) = Len(p) - 1
<1> DEFINE n == Len(p) - 1
<1>1. Len(p) \in Nat \ {0} /\ p \in [1 .. Len(p) -> S]
  BY LenProperties, EmptySeq
<1>2. n \in Nat /\ 1 \in Int /\ \A i \in 1 .. n : p[i] \in S
  BY <1>1
<1> HIDE DEF n
<1>3. /\ SubSeq(p, 1, n) \in Seq(S)
      /\ Len(SubSeq(p, 1, n)) = IF 1 <= n THEN n - 1 + 1 ELSE 0
      /\ \A i \in 1 .. n - 1 + 1 : SubSeq(p, 1, n)[i] = p[1 + i - 1]
  BY <1>2, SubSeqProperties
<1>4. /\ Front(p) \in Seq(S) /\ Len(Front(p)) = n
      /\ \A i \in 1 .. n : Front(p)[i] = p[i]
  <2>1. Front(p) = SubSeq(p, 1, n)
    BY DEF Front, n
  <2>2. /\ SubSeq(p, 1, n) \in Seq(S) /\ Len(SubSeq(p, 1, n)) = n
        /\ \A i \in 1 .. n : SubSeq(p, 1, n)[i] = p[i]
    BY <1>2, <1>3
  <2> QED BY <2>1, <2>2
<1>5. Last(p) \in S
  BY <1>1 DEF Last
<1> DEFINE a == Append(Front(p), Last(p))
<1>6. /\ a \in Seq(S) /\ Len(a) = n + 1
      /\ \A i \in 1 .. n : a[i] = p[i]
      /\ a[n + 1] = Last(p)
  BY <1>4, <1>5, AppendProperties
<1>7. Len(a) = Len(p) /\ \A i \in 1 .. Len(p) : p[i] = a[i]
  BY <1>1, <1>6 DEF Last, n
<1> HIDE DEF a
<1>8. p = a
  BY <1>6, <1>7, SeqEqual
<1> QED BY <1>1, <1>4, <1>5, <1>8 DEF a, n

LEMMA AppendFacts ==
  ASSUME NEW S, NEW p \in Seq(S), NEW n \in S
  PROVE  /\ Append(p, n) \in Seq(S) /\ Append(p, n) # <<>>
         /\ Front(Append(p, n)) = p /\ Last(Append(p, n)) = n
         /\ Len(p) \in Nat /\ Len(Append(p, n)) = Len(p) + 1
         /\ IsPrefix(p, Append(p, n))
<1> DEFINE a == Append(p, n)
<1>1. /\ a \in Seq(S) /\ a # <<>> /\ Len(a) = Len(p) + 1 /\ Len(p) \in Nat
      /\ \A i \in 1 .. Len(p) : a[i] = p[i]
      /\ a[Len(p) + 1] = n
  BY AppendProperties, LenProperties
<1> HIDE DEF a
<1>2. Front(a) \in Seq(S) /\ Last(a) \in S /\ a = Append(Front(a), Last(a))
  BY <1>1, FrontLast
<1>3. Front(a) = p /\ Last(a) = n
  BY <1>2, AppendInjective DEF a
<1>4. IsPrefix(p, a)
  BY <1>1, PrefixDef
<1> QED BY <1>1, <1>3, <1>4 DEF a

LEMMA PrefixOfAppend ==
  ASSUME NEW S, NEW p \in Seq(S), NEW n \in S, NEW q \in Seq(S)
  PROVE  IsPrefix(q, Append(p, n)) <=> q = Append(p, n) \/ IsPrefix(q, p)
<1> DEFINE a == Append(p, n)
<1>1. a \in Seq(S) /\ Len(a) = Len(p) + 1 /\ IsPrefix(p, a) /\ Len(p) \in Nat
  BY AppendFacts
<1> HIDE DEF a
<1>2. Len(q) \in Nat
  BY LenProperties
<1>3. q = a => IsPrefix(q, a)
  BY <1>1, PrefixFacts
<1>4. IsPrefix(q, p) => IsPrefix(q, a)
  BY <1>1, PrefixFacts
<1>5. ASSUME IsPrefix(q, a) PROVE q = a \/ IsPrefix(q, p)
  <2>1. Len(q) <= Len(p) + 1
    BY <1>1, <1>5, PrefixFacts
  <2>2. CASE Len(q) = Len(p) + 1
    BY <1>1, <1>5, <2>2, PrefixFacts
  <2>3. CASE Len(q) <= Len(p)
    BY <1>1, <1>5, <2>3, PrefixFacts
  <2> QED BY <1>1, <1>2, <2>1, <2>2, <2>3
<1> QED BY <1>3, <1>4, <1>5 DEF a
-----------------------------------------------------------------------------
(* The place under the destination that corresponds to one under the       *)
(* source.                                                                 *)
(* c is dst with what q has below src.                                     *)
Joins(c, q, src, dst) ==
  /\ Len(c) = Len(dst) + (Len(q) - Len(src))
  /\ \A i \in 1 .. Len(dst) : c[i] = dst[i]
  /\ \A i \in Len(dst) + 1 .. Len(dst) + (Len(q) - Len(src)) :
       c[i] = q[i - Len(dst) + Len(src)]

LEMMA CarriedDef ==
  ASSUME NEW S, NEW q \in Seq(S), NEW src \in Seq(S), NEW dst \in Seq(S), IsPrefix(src, q)
  PROVE  /\ Carried(q, src, dst) \in Seq(S)
         /\ Joins(Carried(q, src, dst), q, src, dst)
<1> DEFINE m == Len(src) + 1
           n == Len(q)
           t == SubSeq(q, m, n)
           c == dst \o t
<1>1. /\ Len(src) \in Nat /\ Len(q) \in Nat /\ Len(dst) \in Nat
      /\ q \in [1 .. Len(q) -> S] /\ Len(src) <= Len(q)
  BY LenProperties, PrefixFacts
<1>2. m \in Int /\ n \in Int /\ m >= 1 /\ m <= n + 1 /\ \A i \in m .. n : q[i] \in S
  BY <1>1
<1>3. /\ (IF m <= n THEN n - m + 1 ELSE 0) = Len(q) - Len(src)
      /\ n - m + 1 = Len(q) - Len(src)
      /\ \A i \in Int : m + i - 1 = i + Len(src)
  BY <1>1
<1> HIDE DEF m, n
<1>4. /\ t \in Seq(S) /\ Len(t) = IF m <= n THEN n - m + 1 ELSE 0
      /\ \A i \in 1 .. n - m + 1 : t[i] = q[m + i - 1]
  BY <1>2, SubSeqProperties
<1> HIDE DEF t
<1>5. Len(t) = Len(q) - Len(src)
  BY <1>3, <1>4
<1>6. \A i \in 1 .. Len(q) - Len(src) : t[i] = q[i + Len(src)]
  <2>1. \A i \in 1 .. Len(q) - Len(src) : m + i - 1 = i + Len(src)
    BY <1>3
  <2>2. \A i \in 1 .. Len(q) - Len(src) : t[i] = q[m + i - 1]
    BY <1>3, <1>4
  <2> QED BY <2>1, <2>2
<1>7. /\ c \in Seq(S) /\ Len(c) = Len(dst) + Len(t)
      /\ \A i \in 1 .. Len(dst) + Len(t) :
           c[i] = IF i <= Len(dst) THEN dst[i] ELSE t[i - Len(dst)]
  BY <1>4, ConcatProperties
<1> HIDE DEF c
<1>8. ASSUME NEW i \in 1 .. Len(dst) PROVE c[i] = dst[i]
  <2>1. i \in 1 .. Len(dst) + Len(t) /\ i <= Len(dst)
    BY <1>1, <1>5
  <2> QED BY <1>7, <2>1
<1>9. ASSUME NEW i \in Len(dst) + 1 .. Len(dst) + (Len(q) - Len(src))
      PROVE  c[i] = q[i - Len(dst) + Len(src)]
  <2>1. /\ i \in 1 .. Len(dst) + Len(t) /\ ~(i <= Len(dst))
        /\ i - Len(dst) \in 1 .. Len(q) - Len(src)
    BY <1>1, <1>5
  <2>2. c[i] = t[i - Len(dst)]
    BY <1>7, <2>1
  <2> QED BY <1>6, <2>1, <2>2
<1>10. Carried(q, src, dst) = c
  BY DEF Carried, c, t, m, n
<1> QED BY <1>5, <1>7, <1>8, <1>9, <1>10 DEF Joins

LEMMA CarriedFacts ==
  ASSUME NEW S, NEW q \in Seq(S), NEW src \in Seq(S), NEW dst \in Seq(S), IsPrefix(src, q)
  PROVE  /\ Carried(q, src, dst) \in Seq(S)
         /\ Len(Carried(q, src, dst)) = Len(dst) + (Len(q) - Len(src))
         /\ IsPrefix(dst, Carried(q, src, dst))
         /\ Carried(Carried(q, src, dst), dst, src) = q
         /\ src = q => Carried(q, src, dst) = dst
         /\ src = dst => Carried(q, src, dst) = q
<1> DEFINE c == Carried(q, src, dst)
           b == Carried(c, dst, src)
<1>1. /\ Len(src) \in Nat /\ Len(q) \in Nat /\ Len(dst) \in Nat /\ Len(src) <= Len(q)
      /\ \A i \in 1 .. Len(src) : src[i] = q[i]
  BY LenProperties, PrefixDef
<1>2. c \in Seq(S) /\ Joins(c, q, src, dst)
  BY CarriedDef
<1>3. IsPrefix(dst, c)
  <2> HIDE DEF c
  <2>1. Len(dst) <= Len(c) /\ \A i \in 1 .. Len(dst) : dst[i] = c[i]
    BY <1>1, <1>2 DEF Joins
  <2> QED BY <1>2, <2>1, PrefixDef
<1>4. b = q
  <2> HIDE DEF c
  <2>1. b \in Seq(S) /\ Joins(b, c, dst, src)
    BY <1>2, <1>3, CarriedDef
  <2> HIDE DEF b
  <2> USE DEF Joins
  <2>2. Len(b) = Len(q) /\ Len(c) - Len(dst) = Len(q) - Len(src)
    BY <1>1, <1>2, <2>1
  <2>3. ASSUME NEW i \in 1 .. Len(q) PROVE b[i] = q[i]
    <3>1. CASE i <= Len(src)
      BY <1>1, <2>1, <3>1
    <3>2. CASE i > Len(src)
      <4> DEFINE j == i - Len(src) + Len(dst)
      <4>1. /\ j \in Len(dst) + 1 .. Len(dst) + (Len(q) - Len(src))
            /\ i \in Len(src) + 1 .. Len(src) + (Len(c) - Len(dst))
            /\ j - Len(dst) + Len(src) = i
        BY <1>1, <2>2, <3>2
      <4>2. b[i] = c[j]
        BY <2>1, <4>1
      <4> HIDE DEF j
      <4> QED BY <1>2, <4>1, <4>2
    <3> QED BY <1>1, <3>1, <3>2
  <2> QED BY <2>1, <2>2, <2>3, SeqEqual
<1>5. ASSUME src = q PROVE c = dst
  <2> HIDE DEF c
  <2> USE DEF Joins
  <2>1. Len(c) = Len(dst)
    BY <1>1, <1>2, <1>5
  <2> QED BY <1>2, <2>1, SeqEqual
<1>6. ASSUME src = dst PROVE c = q
  <2> HIDE DEF c
  <2> USE DEF Joins
  <2>1. Len(c) = Len(q)
    BY <1>1, <1>2, <1>6
  <2>2. ASSUME NEW i \in 1 .. Len(q) PROVE c[i] = q[i]
    <3>1. CASE i <= Len(src)
      BY <1>1, <1>2, <1>6, <3>1
    <3>2. CASE i > Len(src)
      <4>1. /\ i \in Len(dst) + 1 .. Len(dst) + (Len(q) - Len(src))
            /\ i - Len(dst) + Len(src) = i
        BY <1>1, <1>6, <3>2
      <4> QED BY <1>2, <4>1
    <3> QED BY <1>1, <3>1, <3>2
  <2> QED BY <1>2, <2>1, <2>2, SeqEqual
<1> QED BY <1>2, <1>3, <1>4, <1>5, <1>6 DEF Joins

LEMMA CarriedAppend ==
  ASSUME NEW S, NEW q \in Seq(S), NEW src \in Seq(S), NEW dst \in Seq(S), IsPrefix(src, q),
         NEW n \in S
  PROVE  Carried(Append(q, n), src, dst) = Append(Carried(q, src, dst), n)
<1> DEFINE a == Append(q, n)
           c == Carried(q, src, dst)
           x == Carried(a, src, dst)
           y == Append(c, n)
<1>1. /\ Len(src) \in Nat /\ Len(q) \in Nat /\ Len(dst) \in Nat /\ Len(src) <= Len(q)
  BY LenProperties, PrefixDef
<1>2. /\ a \in Seq(S) /\ Len(a) = Len(q) + 1
      /\ \A i \in 1 .. Len(q) : a[i] = q[i]
      /\ a[Len(q) + 1] = n
  BY AppendProperties
<1>3. IsPrefix(src, a)
  BY PrefixOfAppend
<1>4. c \in Seq(S) /\ Joins(c, q, src, dst)
  BY CarriedDef
<1> HIDE DEF a
<1>5. x \in Seq(S) /\ Joins(x, a, src, dst)
  BY <1>2, <1>3, CarriedDef
<1> HIDE DEF c, x
<1>6. /\ y \in Seq(S) /\ Len(y) = Len(c) + 1
      /\ \A i \in 1 .. Len(c) : y[i] = c[i]
      /\ y[Len(c) + 1] = n
  BY <1>4, AppendProperties
<1> HIDE DEF y
<1> USE DEF Joins
<1>7. Len(x) = Len(y)
  <2>1. Len(x) = Len(dst) + (Len(a) - Len(src)) /\ Len(c) = Len(dst) + (Len(q) - Len(src))
    BY <1>4, <1>5
  <2>2. Len(a) = Len(q) + 1 /\ Len(y) = Len(c) + 1
    BY <1>2, <1>6
  <2> HIDE DEF Joins
  <2> QED BY <1>1, <2>1, <2>2
<1>8. ASSUME NEW i \in 1 .. Len(x) PROVE x[i] = y[i]
  <2>1. CASE i <= Len(dst)
    BY <1>1, <1>4, <1>5, <1>6, <2>1
  <2> DEFINE j == i - Len(dst) + Len(src)
  <2>2. CASE i > Len(dst) /\ i <= Len(c)
    <3>1. /\ i \in Len(dst) + 1 .. Len(dst) + (Len(q) - Len(src))
          /\ i \in Len(dst) + 1 .. Len(dst) + (Len(a) - Len(src))
          /\ j \in 1 .. Len(q) /\ i \in 1 .. Len(c)
      BY <1>1, <1>2, <1>4, <2>2
    <3>2. x[i] = a[j] /\ c[i] = q[j]
      BY <1>4, <1>5, <3>1
    <3> HIDE DEF j
    <3> QED BY <1>2, <1>6, <3>1, <3>2
  <2>3. CASE i = Len(c) + 1
    <3>1. i \in Len(dst) + 1 .. Len(dst) + (Len(a) - Len(src)) /\ j = Len(q) + 1
      BY <1>1, <1>2, <1>4, <2>3
    <3>2. x[i] = a[j]
      BY <1>5, <3>1
    <3> HIDE DEF j
    <3> QED BY <1>2, <1>6, <2>3, <3>1, <3>2
  <2>4. i <= Len(c) + 1 /\ i \in Nat /\ Len(c) \in Nat
    BY <1>1, <1>4, <1>6, <1>7
  <2> QED BY <1>1, <2>1, <2>2, <2>3, <2>4
<1>9. x = y
  BY <1>5, <1>6, <1>7, <1>8, SeqEqual
<1> QED BY <1>9 DEF a, c, x, y

LEMMA Child ==
  ASSUME NEW S, NEW p \in Seq(S), NEW q \in Seq(S), IsPrefix(p, q), p # q
  PROVE  \E n \in S : IsPrefix(Append(p, n), q)
<1> DEFINE n == q[Len(p) + 1]
           a == Append(p, n)
<1>1. /\ Len(p) \in Nat /\ Len(q) \in Nat /\ q \in [1 .. Len(q) -> S]
      /\ Len(p) <= Len(q) /\ Len(p) # Len(q)
      /\ \A i \in 1 .. Len(p) : p[i] = q[i]
  BY LenProperties, PrefixDef, PrefixFacts
<1>2. n \in S
  BY <1>1
<1>3. /\ a \in Seq(S) /\ Len(a) = Len(p) + 1
      /\ \A i \in 1 .. Len(p) : a[i] = p[i]
      /\ a[Len(p) + 1] = n
  BY <1>2, AppendProperties
<1> HIDE DEF a
<1>4. Len(a) <= Len(q)
  BY <1>1, <1>3
<1>5. \A i \in 1 .. Len(a) : a[i] = q[i]
  BY <1>1, <1>3
<1>6. IsPrefix(a, q)
  BY <1>3, <1>4, <1>5, PrefixDef
<1> QED BY <1>2, <1>6 DEF a

LEMMA PathDef ==
  ASSUME NEW p
  PROVE  p \in Path <=> p \in Seq(Names) /\ Len(p) <= MaxDepth
<1>1. MaxDepth \in Nat
  BY BoundsAssumption
<1>2. ASSUME p \in Path PROVE p \in Seq(Names) /\ Len(p) <= MaxDepth
  <2>1. PICK d \in 0 .. MaxDepth : p \in [1 .. d -> Names]
    BY <1>2 DEF Path
  <2>2. d \in Nat /\ d <= MaxDepth
    BY <1>1, <2>1
  <2>3. p \in Seq(Names)
    BY <2>1, <2>2, SeqDef
  <2>4. Len(p) \in Nat /\ DOMAIN p = 1 .. Len(p) /\ DOMAIN p = 1 .. d
    BY <2>1, <2>3, LenProperties
  <2>5. Len(p) = d
    <3> DEFINE k == Len(p)
    <3>1. k \in Nat /\ 1 .. k = 1 .. d
      BY <2>4
    <3> HIDE DEF k
    <3>2. (k \in 1 .. k <=> k \in 1 .. d) /\ (d \in 1 .. k <=> d \in 1 .. d)
      BY <3>1
    <3>3. k = d
      BY <2>2, <3>1, <3>2
    <3> QED BY <3>3 DEF k
  <2> QED BY <2>2, <2>3, <2>5
<1>3. ASSUME p \in Seq(Names), Len(p) <= MaxDepth PROVE p \in Path
  <2>1. Len(p) \in 0 .. MaxDepth /\ p \in [1 .. Len(p) -> Names]
    BY <1>1, <1>3, LenProperties
  <2> QED BY <2>1 DEF Path
<1> QED BY <1>2, <1>3

-----------------------------------------------------------------------------
(* Trees.                                                                  *)

(* What is above an entry is a folder.                                     *)
LEMMA Ancestors ==
  ASSUME NEW t, IsTree(t), NEW q \in DOMAIN t, NEW p \in Seq(Names), IsPrefix(p, q)
  PROVE  p \in DOMAIN t /\ (p # q => t[p].dir)
<1> DEFINE Good(r) == p \in DOMAIN t /\ (p # r => t[p].dir)
           Bad == {n \in Nat : \E r \in DOMAIN t : IsPrefix(p, r) /\ Len(r) = n /\ ~Good(r)}
<1>1. \A r \in DOMAIN t : r \in Seq(Names) /\ Len(r) \in Nat
  BY PathDef, LenProperties DEF IsTree
<1>2. ASSUME ~Good(q) PROVE FALSE
  <2>1. Len(q) \in Bad
    BY <1>1, <1>2
  <2>2. PICK n \in Bad : \A m \in Bad : ~(<<m, n>> \in OpToRel(<, Nat))
    <3> HIDE DEF Bad
    <3>1. Bad \subseteq Nat
      BY DEF Bad
    <3>2. IsWellFoundedOn(OpToRel(<, Nat), Nat)
      BY NatLessThanWellFounded
    <3> QED BY <2>1, <3>1, <3>2, WFMin
  <2>3. PICK r \in DOMAIN t : IsPrefix(p, r) /\ Len(r) = n /\ ~Good(r)
    BY <2>2
  <2>4. p # r
    BY <2>3
  <2>5. r # <<>>
    <3>1. ASSUME r = <<>> PROVE FALSE
      <4>1. Len(r) = 0 /\ Len(p) <= Len(r) /\ Len(p) \in Nat
        BY <1>1, <2>3, <3>1, EmptySeq, PrefixFacts, LenProperties
      <4>2. p = <<>>
        BY <4>1, EmptySeq
      <4> QED BY <2>4, <3>1, <4>2
    <3> QED BY <3>1
  <2>6. /\ Front(r) \in DOMAIN t /\ t[Front(r)].dir
        /\ Front(r) \in Seq(Names) /\ Last(r) \in Names
        /\ r = Append(Front(r), Last(r)) /\ Len(Front(r)) = Len(r) - 1
    BY <1>1, <2>5, FrontLast DEF IsTree
  <2>7. IsPrefix(p, Front(r))
    BY <2>3, <2>4, <2>6, PrefixOfAppend
  <2>8. ~Good(Front(r))
    BY <2>3, <2>4, <2>6
  <2>9. Len(Front(r)) \in Nat /\ n \in Nat /\ Len(Front(r)) < n
    BY <1>1, <2>3, <2>6
  <2>10. Len(Front(r)) \in Bad
    BY <2>6, <2>7, <2>8, <2>9
  <2> HIDE DEF Bad
  <2>11. <<Len(Front(r)), n>> \in OpToRel(<, Nat)
    BY <2>9 DEF OpToRel
  <2> QED BY <2>2, <2>10, <2>11
<1> QED BY <1>2

LEMMA PutTree ==
  ASSUME IsTree(tree), NEW p \in Path, p # <<>>, IsDir(Front(p)), ~IsDir(p), NEW e \in Entry
  PROVE  IsTree(With(p, e))
<1> DEFINE t == With(p, e)
<1>1. DOMAIN t = DOMAIN tree \cup {p} /\ t[p] = e
      /\ \A q \in DOMAIN tree \ {p} : t[q] = tree[q]
  BY DEF With
<1>2. /\ DOMAIN tree \subseteq Path /\ \A q \in DOMAIN tree : tree[q] \in Entry
      /\ <<>> \in DOMAIN tree /\ tree[<<>>].dir
      /\ \A q \in DOMAIN tree \ {<<>>} : Front(q) \in DOMAIN tree /\ tree[Front(q)].dir
  BY DEF IsTree
<1> HIDE DEF t
<1>3. Front(p) \in DOMAIN tree /\ tree[Front(p)].dir /\ Front(p) # p
  BY DEF IsDir, Exists
<1>4. DOMAIN t \subseteq Path /\ \A q \in DOMAIN t : t[q] \in Entry
  BY <1>1, <1>2
<1>5. <<>> \in DOMAIN t /\ t[<<>>].dir
  BY <1>1, <1>2
<1>6. ASSUME NEW q \in DOMAIN t \ {<<>>}
      PROVE  Front(q) \in DOMAIN t /\ t[Front(q)].dir
  <2>1. CASE q = p
    BY <1>1, <1>3, <2>1
  <2>2. CASE q # p
    <3>1. Front(q) \in DOMAIN tree /\ tree[Front(q)].dir
      BY <1>1, <1>2, <2>2
    <3>2. Front(q) # p
      BY <3>1 DEF IsDir, Exists
    <3> QED BY <1>1, <3>1, <3>2
  <2> QED BY <2>1, <2>2
<1> QED BY <1>4, <1>5, <1>6 DEF IsTree, t

LEMMA DropTree ==
  ASSUME IsTree(tree), NEW p, p # <<>>, \A q \in DOMAIN tree \ {<<>>} : Front(q) # p
  PROVE  IsTree(Without(p))
<1> DEFINE t == Without(p)
<1>1. DOMAIN t = DOMAIN tree \ {p} /\ \A q \in DOMAIN t : t[q] = tree[q]
  BY DEF Without
<1>2. /\ DOMAIN tree \subseteq Path /\ \A q \in DOMAIN tree : tree[q] \in Entry
      /\ <<>> \in DOMAIN tree /\ tree[<<>>].dir
      /\ \A q \in DOMAIN tree \ {<<>>} : Front(q) \in DOMAIN tree /\ tree[Front(q)].dir
  BY DEF IsTree
<1> HIDE DEF t
<1>3. ASSUME NEW q \in DOMAIN t \ {<<>>}
      PROVE  Front(q) \in DOMAIN t /\ t[Front(q)].dir
  BY <1>1, <1>2
<1>4. DOMAIN t \subseteq Path /\ (\A q \in DOMAIN t : t[q] \in Entry)
      /\ <<>> \in DOMAIN t /\ t[<<>>].dir
  BY <1>1, <1>2
<1> QED BY <1>3, <1>4 DEF IsTree, t

(* What a rename leaves, and where it brings the rest.                     *)
LEMMA RenamedFacts ==
  ASSUME IsTree(tree), NEW src \in Seq(Names), NEW dst \in Seq(Names), CanRename(src, dst)
  PROVE  /\ \A q \in DOMAIN tree :
              ~IsPrefix(src, q) => /\ q \in DOMAIN Renamed(src, dst)
                                   /\ Renamed(src, dst)[q] = tree[q]
         /\ \A p \in DOMAIN tree :
              IsPrefix(src, p) /\ ~IsPrefix(src, dst) =>
                /\ Carried(p, src, dst) \in DOMAIN Renamed(src, dst)
                /\ Renamed(src, dst)[Carried(p, src, dst)] = tree[p]
         /\ \A q \in DOMAIN Renamed(src, dst) :
              \/ q \in DOMAIN tree /\ ~IsPrefix(src, q)
              \/ /\ ~IsPrefix(src, dst)
                 /\ \E p \in DOMAIN tree : IsPrefix(src, p) /\ q = Carried(p, src, dst)
<1> DEFINE stay   == {q \in DOMAIN tree : ~IsPrefix(src, q)}
           moving == IF IsPrefix(src, dst) THEN {} ELSE DOMAIN tree \ stay
           dom    == stay \cup {Carried(p, src, dst) : p \in moving}
           R      == [q \in dom |-> IF q \in stay THEN tree[q] ELSE tree[Carried(q, dst, src)]]
<1>1. R = Renamed(src, dst)
  BY DEF Renamed
<1>2. \A q \in DOMAIN tree : q \in Seq(Names)
  BY PathDef DEF IsTree
<1>3. ASSUME NEW p \in moving
      PROVE  /\ p \in DOMAIN tree /\ IsPrefix(src, p) /\ Carried(p, src, dst) \notin stay
             /\ Carried(Carried(p, src, dst), dst, src) = p
  <2>1. p \in DOMAIN tree /\ IsPrefix(src, p) /\ p \in Seq(Names)
    BY <1>2
  <2>2. /\ Carried(p, src, dst) \in Seq(Names) /\ IsPrefix(dst, Carried(p, src, dst))
        /\ Carried(Carried(p, src, dst), dst, src) = p
    BY <2>1, CarriedFacts
  <2>3. dst \notin DOMAIN tree
    BY DEF CanRename, CanMake, Exists
  <2>4. Carried(p, src, dst) \notin DOMAIN tree
    BY <2>2, <2>3, Ancestors
  <2> QED BY <2>1, <2>2, <2>4
<1>4. ASSUME NEW q \in DOMAIN tree, ~IsPrefix(src, q)
      PROVE  q \in DOMAIN R /\ R[q] = tree[q]
  BY <1>4
<1>5. ASSUME NEW p \in DOMAIN tree, IsPrefix(src, p), ~IsPrefix(src, dst)
      PROVE  Carried(p, src, dst) \in DOMAIN R /\ R[Carried(p, src, dst)] = tree[p]
  <2>1. p \in moving
    BY <1>5
  <2>2. Carried(p, src, dst) \in dom
    BY <2>1
  <2>3. R[Carried(p, src, dst)] = tree[Carried(Carried(p, src, dst), dst, src)]
    <3>1. Carried(p, src, dst) \notin stay
      BY <1>3, <2>1
    <3> HIDE DEF stay, dom
    <3> QED BY <2>2, <3>1
  <2> QED BY <1>3, <2>1, <2>2, <2>3
<1>6. ASSUME NEW q \in DOMAIN R
      PROVE  \/ q \in DOMAIN tree /\ ~IsPrefix(src, q)
             \/ /\ ~IsPrefix(src, dst)
                /\ \E p \in DOMAIN tree : IsPrefix(src, p) /\ q = Carried(p, src, dst)
  <2>1. q \in stay \/ \E p \in moving : q = Carried(p, src, dst)
    BY <1>6
  <2>2. moving # {} => ~IsPrefix(src, dst)
    OBVIOUS
  <2> QED BY <1>3, <2>1, <2>2
<1> HIDE DEF R
<1> QED BY <1>1, <1>4, <1>5, <1>6

LEMMA RenamedTree ==
  ASSUME IsTree(tree), NEW src \in Seq(Names), NEW dst \in Seq(Names), CanRename(src, dst)
  PROVE  IsTree(Renamed(src, dst))
<1> DEFINE R == Renamed(src, dst)
<1>1. /\ \A q \in DOMAIN tree : ~IsPrefix(src, q) => q \in DOMAIN R /\ R[q] = tree[q]
      /\ \A p \in DOMAIN tree :
           IsPrefix(src, p) /\ ~IsPrefix(src, dst) =>
             /\ Carried(p, src, dst) \in DOMAIN R
             /\ R[Carried(p, src, dst)] = tree[p]
      /\ \A q \in DOMAIN R :
           \/ q \in DOMAIN tree /\ ~IsPrefix(src, q)
           \/ /\ ~IsPrefix(src, dst)
              /\ \E p \in DOMAIN tree : IsPrefix(src, p) /\ q = Carried(p, src, dst)
  BY RenamedFacts
<1> HIDE DEF R
<1>2. /\ DOMAIN tree \subseteq Path /\ \A q \in DOMAIN tree : tree[q] \in Entry
      /\ <<>> \in DOMAIN tree /\ tree[<<>>].dir
      /\ \A q \in DOMAIN tree \ {<<>>} : Front(q) \in DOMAIN tree /\ tree[Front(q)].dir
  BY DEF IsTree
<1>3. \A q \in DOMAIN tree : q \in Seq(Names) /\ Len(q) <= MaxDepth
  BY <1>2, PathDef
<1>4. /\ src # <<>> /\ src \in DOMAIN tree /\ Len(dst) <= MaxDepth /\ dst # <<>>
      /\ Front(dst) \in DOMAIN tree /\ tree[Front(dst)].dir
      /\ \A q \in DOMAIN tree :
           IsPrefix(src, q) /\ src # q => Len(Carried(q, src, dst)) <= MaxDepth
  BY BoundsAssumption, EmptySeq DEF CanRename, CanMake, Exists, IsDir, Below, IsStrictPrefix
<1>5. ASSUME NEW p \in DOMAIN tree, IsPrefix(src, p)
      PROVE  Carried(p, src, dst) \in Path
  <2>1. Carried(p, src, dst) \in Seq(Names) /\ (src = p => Carried(p, src, dst) = dst)
    BY <1>3, <1>5, CarriedFacts
  <2>2. Len(Carried(p, src, dst)) <= MaxDepth
    BY <1>4, <1>5, <2>1
  <2> QED BY <2>1, <2>2, PathDef
<1>6. DOMAIN R \subseteq Path
  BY <1>1, <1>2, <1>5
<1>7. \A q \in DOMAIN R : R[q] \in Entry
  BY <1>1, <1>2
<1>8. <<>> \in DOMAIN R /\ R[<<>>].dir
  <2>1. ASSUME IsPrefix(src, <<>>) PROVE FALSE
    <3>1. <<>> \in Seq(Names) /\ Len(<<>>) = 0 /\ Len(src) \in Nat
      BY EmptySeq, LenProperties
    <3>2. Len(src) <= 0
      BY <2>1, <3>1, PrefixFacts
    <3>3. src = <<>>
      BY <3>1, <3>2, EmptySeq
    <3> QED BY <1>4, <3>3
  <2> QED BY <1>1, <1>2, <2>1
<1>9. ASSUME NEW q \in DOMAIN R \ {<<>>}
      PROVE  Front(q) \in DOMAIN R /\ R[Front(q)].dir
  <2>1. ASSUME NEW r \in Seq(Names), NEW n \in Names, ~IsPrefix(src, Append(r, n)),
               r \in DOMAIN tree, tree[r].dir
        PROVE  r \in DOMAIN R /\ R[r].dir
    BY <1>1, <2>1, PrefixOfAppend
  <2>2. CASE q \in DOMAIN tree /\ ~IsPrefix(src, q)
    <3>1. Front(q) \in Seq(Names) /\ Last(q) \in Names /\ q = Append(Front(q), Last(q))
      BY <1>3, <2>2, FrontLast
    <3> QED BY <1>2, <2>1, <2>2, <3>1
  <2>3. ASSUME ~IsPrefix(src, dst), NEW p \in DOMAIN tree, IsPrefix(src, p),
               q = Carried(p, src, dst)
        PROVE  Front(q) \in DOMAIN R /\ R[Front(q)].dir
    <3>1. CASE p = src
      <4>1. q = dst
        BY <2>3, <3>1, CarriedFacts
      <4>2. Front(dst) \in Seq(Names) /\ Last(dst) \in Names /\ dst = Append(Front(dst), Last(dst))
        BY <1>4, FrontLast
      <4> QED BY <1>4, <2>1, <2>3, <4>1, <4>2
    <3>2. CASE p # src
      <4>1. p # <<>>
        <5>1. <<>> \in Seq(Names) /\ Len(<<>>) = 0 /\ Len(src) \in Nat
          BY EmptySeq, LenProperties
        <5>2. ASSUME p = <<>> PROVE FALSE
          <6>1. Len(src) <= 0
            BY <2>3, <5>1, <5>2, PrefixFacts
          <6> QED BY <1>4, <5>1, <6>1, EmptySeq
        <5> QED BY <5>2
      <4>2. Front(p) \in Seq(Names) /\ Last(p) \in Names /\ p = Append(Front(p), Last(p))
        BY <1>3, <4>1, FrontLast
      <4>3. IsPrefix(src, Front(p))
        BY <2>3, <3>2, <4>2, PrefixOfAppend
      <4>4. q = Append(Carried(Front(p), src, dst), Last(p))
        <5>1. Carried(Append(Front(p), Last(p)), src, dst)
                = Append(Carried(Front(p), src, dst), Last(p))
          BY <4>2, <4>3, CarriedAppend
        <5> QED BY <2>3, <4>2, <5>1
      <4>5. Front(q) = Carried(Front(p), src, dst)
        <5>1. Carried(Front(p), src, dst) \in Seq(Names)
          BY <4>2, <4>3, CarriedFacts
        <5> QED BY <4>2, <4>4, <5>1, AppendFacts
      <4> QED BY <1>1, <1>2, <2>3, <4>1, <4>3, <4>5
    <3> QED BY <3>1, <3>2
  <2> QED BY <1>1, <2>2, <2>3
<1> QED BY <1>6, <1>7, <1>8, <1>9 DEF IsTree, R

-----------------------------------------------------------------------------
(* What the operations on the volume may do.                               *)
Counting == faults \in 0 .. MaxFaults

LEMMA FaultCounts ==
  ASSUME Counting, Fault \/ NoFault
  PROVE  faults' \in 0 .. MaxFaults
BY BoundsAssumption DEF Counting, Fault, NoFault

LEMMA UnlinkOutcome ==
  ASSUME Counting, NEW p, Unlink(p)
  PROVE  /\ ret' \in Results /\ faults' \in 0 .. MaxFaults
         /\ tree' = tree \/ (CanUnlink(p) /\ tree' = Without(p))
         /\ ret' = "ok" => CanUnlink(p) /\ tree' = Without(p)
<1>1. Fault \/ NoFault
  BY DEF Unlink
<1>2. faults' \in 0 .. MaxFaults
  BY <1>1, FaultCounts
<1> QED BY <1>2 DEF Unlink, Unlinked, Results

LEMMA RenameOutcome ==
  ASSUME Counting, NEW src, NEW dst, Rename(src, dst)
  PROVE  /\ ret' \in Results /\ faults' \in 0 .. MaxFaults
         /\ tree' = tree \/ (CanRename(src, dst) /\ tree' = Renamed(src, dst))
         /\ ret' = "ok" => CanRename(src, dst) /\ tree' = Renamed(src, dst)
<1>1. Fault \/ NoFault
  BY DEF Rename
<1>2. faults' \in 0 .. MaxFaults
  BY <1>1, FaultCounts
<1> QED BY <1>2 DEF Rename, Results

(* A prefix of what a file holds can be a file.                            *)
LEMMA ChunksOut ==
  ASSUME IsTree(tree), NEW src, NEW dst, IsFile(src), NEW n \in 0 .. Len(tree[src].data)
  PROVE  \E e \in Entry : ~e.dir /\ Out(src, dst, n) = With(dst, e)
<1> DEFINE d == tree[src].data
           e == [dir |-> FALSE, ro |-> FALSE, data |-> SubSeq(d, 1, n)]
<1>1. d \in Seq(Chunks)
  BY DEF IsFile, Exists, IsTree, Entry
<1>2. Len(d) \in Nat /\ d \in [1 .. Len(d) -> Chunks] /\ n \in 0 .. Len(d)
  BY <1>1, LenProperties
<1>3. 1 \in Int /\ n \in Int /\ \A i \in 1 .. n : d[i] \in Chunks
  BY <1>2
<1> HIDE DEF d
<1>4. SubSeq(d, 1, n) \in Seq(Chunks)
  BY <1>3, SubSeqProperties
<1>5. e \in Entry /\ ~e.dir
  BY <1>4 DEF Entry
<1>6. Out(src, dst, n) = With(dst, e)
  BY DEF Out, d
<1> QED BY <1>5, <1>6

LEMMA FileCopyOutcome ==
  ASSUME IsTree(tree), Counting, NEW src, NEW dst, NEW mayCancel,
         FileCopy(src, dst, mayCancel)
  PROVE  /\ ret' \in Results /\ faults' \in 0 .. MaxFaults
         /\ \/ tree' = tree
            \/ /\ src # dst /\ IsFile(src) /\ CanCreate(dst)
               /\ \/ \E e \in Entry : ~e.dir /\ tree' = With(dst, e)
                  \/ mayCancel /\ tree' = Without(dst)
         /\ ret' = "ok" /\ ~ClosesMayFail =>
              /\ src # dst /\ IsFile(src) /\ CanCreate(dst)
              /\ tree' = Out(src, dst, Len(tree[src].data))
<1> DEFINE Ready == src # dst /\ IsFile(src) /\ CanCreate(dst)
           Written == \E e \in Entry : ~e.dir /\ tree' = With(dst, e)
<1>1. Fault \/ NoFault
  BY DEF FileCopy, Stays, Breaks, Cancelled
<1>2. faults' \in 0 .. MaxFaults
  BY <1>1, FaultCounts
<1>3. ASSUME IsFile(src)
      PROVE  /\ Len(tree[src].data) \in Nat
             /\ \A n \in 0 .. Len(tree[src].data) :
                  tree' = Out(src, dst, n) => Written
  <2>1. tree[src].data \in Seq(Chunks)
    BY <1>3 DEF IsFile, Exists, IsTree, Entry
  <2>2. Len(tree[src].data) \in Nat
    BY <2>1, LenProperties
  <2>3. ASSUME NEW n \in 0 .. Len(tree[src].data), tree' = Out(src, dst, n)
        PROVE  Written
    BY <1>3, <2>3, ChunksOut
  <2> QED BY <2>2, <2>3
<1> HIDE DEF Written
<1>4. CASE src = dst /\ Stays("refused")
  BY <1>2, <1>4 DEF Stays, Results
<1>5. CASE src # dst /\ ~(IsFile(src) /\ CanCreate(dst)) /\ Stays("fat")
  BY <1>2, <1>5 DEF Stays, Results
<1>6. CASE src # dst /\ Fault /\ UNCHANGED tree /\ ret' = "fat"
  BY <1>2, <1>6 DEF Results
<1>7. CASE Ready /\ NoFault /\ tree' = Out(src, dst, Len(tree[src].data)) /\ ret' = "ok"
  <2>1. Len(tree[src].data) \in 0 .. Len(tree[src].data)
    BY <1>3, <1>7
  <2>2. Written
    BY <1>3, <1>7, <2>1
  <2> QED BY <1>2, <1>7, <2>2 DEF Results, Written
<1>8. CASE Ready /\ Breaks(src, dst)
  <2>1. PICK n \in 0 .. (Len(tree[src].data) - 1) : tree' = Out(src, dst, n) /\ ret' = "fat"
    BY <1>8 DEF Breaks
  <2>2. n \in 0 .. Len(tree[src].data)
    BY <1>3, <1>8, <2>1
  <2>3. Written
    BY <1>3, <1>8, <2>1, <2>2
  <2> QED BY <1>2, <1>8, <2>1, <2>3 DEF Results, Written
<1>9. CASE Ready /\ ClosesMayFail /\ Fault /\ tree' = Out(src, dst, 0) /\ ret' = "ok"
  <2>1. 0 \in 0 .. Len(tree[src].data)
    BY <1>3, <1>9
  <2>2. Written
    BY <1>3, <1>9, <2>1
  <2> QED BY <1>2, <1>9, <2>2 DEF Results, Written
<1>10. CASE Ready /\ mayCancel /\ Cancelled(src, dst)
  <2>1. PICK n \in 1 .. Len(tree[src].data) :
          (NoFault /\ tree' = Without(dst)) \/ (Fault /\ tree' = Out(src, dst, n))
    BY <1>10 DEF Cancelled
  <2>2. ret' = "cancelled" /\ n \in 0 .. Len(tree[src].data)
    BY <1>3, <1>10, <2>1 DEF Cancelled
  <2>3. tree' = Without(dst) \/ Written
    BY <1>3, <1>10, <2>1, <2>2
  <2> QED BY <1>2, <1>10, <2>2, <2>3 DEF Results, Written
<1> QED BY <1>4, <1>5, <1>6, <1>7, <1>8, <1>9, <1>10 DEF FileCopy

LEMMA EnterCopyOutcome ==
  ASSUME Counting, NEW src, NEW at, NEW rest, EnterCopy(src, at, rest)
  PROVE  LET dst == Append(at, Last(src)) IN
         /\ ret' \in Results /\ faults' \in 0 .. MaxFaults
         /\ \/ tree' = tree /\ frames' = rest /\ ret' # "ok"
            \/ /\ ret' = "ok" /\ IsDir(src) /\ ~Refuses(src, at)
               /\ frames' = Append(rest, Frame("copy", src, dst, Listing(src)))
               /\ tree' = tree \/ (CanMake(dst) /\ tree' = With(dst, Folder))
<1>1. Fault \/ NoFault
  BY DEF EnterCopy, Stays
<1>2. faults' \in 0 .. MaxFaults
  BY <1>1, FaultCounts
<1> QED BY <1>2 DEF EnterCopy, Stays, Made, Results

LEMMA EnterDeleteOutcome ==
  ASSUME Counting, NEW p, NEW rest, EnterDelete(p, rest)
  PROVE  /\ ret' \in Results /\ faults' \in 0 .. MaxFaults /\ tree' = tree
         /\ \/ frames' = rest /\ ret' # "ok"
            \/ /\ ret' = "ok" /\ IsDir(p)
               /\ frames' = Append(rest, Frame("delete", p, p, Listing(p)))
<1>1. Fault \/ NoFault
  BY DEF EnterDelete, Stays
<1>2. faults' \in 0 .. MaxFaults
  BY <1>1, FaultCounts
<1> QED BY <1>2 DEF EnterDelete, Stays, Results

-----------------------------------------------------------------------------
(* The frames of the recursion.                                            *)
Items    == [name : Names, dir : BOOLEAN]
FrameSet == [op : {"copy", "delete"}, src : Seq(Names), dst : Seq(Names), todo : SUBSET Items]
CallSet  == [op : {"none", "copy", "move", "copyfolder", "movefolder", "delete", "unlink"},
             src : Seq(Names), dst : Seq(Names), by : {"menu", "paste", "script"}]
LoopOf(op) == IF op = "delete" THEN "delete" ELSE "copy"

(* The frames go down from the folder of the call, one name at a time.     *)
Links(fs, c) ==
  /\ \A i \in 1 .. Len(fs) :
       /\ IsPrefix(c.src, fs[i].src) /\ Len(fs[i].src) = Len(c.src) + (i - 1)
       /\ fs[i].dst = Carried(fs[i].src, c.src, c.dst)
       /\ fs[i].op = LoopOf(c.op)
  /\ \A i \in 1 .. Len(fs) - 1 :
       \E n \in Names : fs[i + 1].src = Append(fs[i].src, n)

LEMMA LinksStart ==
  ASSUME NEW c \in CallSet, NEW todo \in SUBSET Items
  PROVE  LET fs == Append(<<>>, Frame(LoopOf(c.op), c.src, c.dst, todo))
         IN  fs \in Seq(FrameSet) /\ Links(fs, c)
<1> DEFINE f  == Frame(LoopOf(c.op), c.src, c.dst, todo)
           fs == Append(<<>>, f)
<1>1. c.src \in Seq(Names) /\ c.dst \in Seq(Names) /\ Len(c.src) \in Nat
  BY LenProperties DEF CallSet
<1>2. f \in FrameSet
  BY <1>1 DEF Frame, FrameSet, LoopOf
<1>3. /\ fs \in Seq(FrameSet) /\ Len(fs) = Len(<<>>) + 1 /\ fs[Len(<<>>) + 1] = f
      /\ Len(<<>>) = 0
  <2> HIDE DEF f
  <2> QED BY <1>2, EmptySeq, AppendProperties
<1>4. f.src = c.src /\ f.dst = c.dst /\ f.op = LoopOf(c.op)
  BY DEF Frame
<1>5. IsPrefix(c.src, c.src) /\ c.dst = Carried(c.src, c.src, c.dst)
  BY <1>1, PrefixFacts, CarriedFacts
<1> HIDE DEF f, fs
<1>6. Len(fs) = 1 /\ fs[1] = f
  BY <1>3
<1>7. ASSUME NEW i \in 1 .. Len(fs)
      PROVE  /\ IsPrefix(c.src, fs[i].src) /\ Len(fs[i].src) = Len(c.src) + (i - 1)
             /\ fs[i].dst = Carried(fs[i].src, c.src, c.dst)
             /\ fs[i].op = LoopOf(c.op)
  <2>1. i = 1
    BY <1>6
  <2> QED BY <1>1, <1>4, <1>5, <1>6, <2>1
<1>8. 1 .. Len(fs) - 1 = {}
  BY <1>6
<1>9. Links(fs, c)
  BY <1>7, <1>8 DEF Links
<1> QED BY <1>3, <1>9 DEF f, fs

(* The loop has taken an entry: only what is left to do changes.           *)
LEMMA LinksRest ==
  ASSUME NEW c \in CallSet, NEW fs \in Seq(FrameSet), Links(fs, c), fs # <<>>, NEW e
  PROVE  LET gs == Append(Front(fs), [Last(fs) EXCEPT !.todo = @ \ {e}])
         IN  /\ gs \in Seq(FrameSet) /\ Links(gs, c)
             /\ Len(fs) \in Nat \ {0} /\ Len(gs) = Len(fs)
             /\ \A i \in 1 .. Len(fs) - 1 : gs[i] = fs[i]
             /\ Last(fs) = fs[Len(fs)]
             /\ gs[Len(fs)] = [fs[Len(fs)] EXCEPT !.todo = @ \ {e}]
<1> DEFINE f  == [Last(fs) EXCEPT !.todo = @ \ {e}]
           gs == Append(Front(fs), f)
<1>1. /\ Front(fs) \in Seq(FrameSet) /\ Last(fs) \in FrameSet
      /\ Len(fs) \in Nat \ {0} /\ Len(Front(fs)) = Len(fs) - 1
      /\ fs = Append(Front(fs), Last(fs))
  BY FrontLast
<1>2. f \in FrameSet /\ f.src = Last(fs).src /\ f.dst = Last(fs).dst /\ f.op = Last(fs).op
  BY <1>1 DEF FrameSet
<1>3. /\ gs \in Seq(FrameSet) /\ Len(gs) = Len(Front(fs)) + 1
      /\ \A i \in 1 .. Len(Front(fs)) : gs[i] = Front(fs)[i]
      /\ gs[Len(Front(fs)) + 1] = f
  <2> HIDE DEF f
  <2> QED BY <1>1, <1>2, AppendProperties
<1>4. /\ \A i \in 1 .. Len(Front(fs)) : fs[i] = Front(fs)[i]
      /\ fs[Len(Front(fs)) + 1] = Last(fs)
  BY <1>1, AppendProperties
<1>5. f = [Last(fs) EXCEPT !.todo = @ \ {e}]
  OBVIOUS
<1> HIDE DEF f, gs
<1>6. /\ Len(gs) = Len(fs) /\ \A i \in 1 .. Len(fs) - 1 : gs[i] = fs[i]
      /\ gs[Len(fs)] = f /\ fs[Len(fs)] = Last(fs)
  BY <1>1, <1>3, <1>4
<1>7. \A i \in 1 .. Len(fs) :
        gs[i].src = fs[i].src /\ gs[i].dst = fs[i].dst /\ gs[i].op = fs[i].op
  <2> TAKE i \in 1 .. Len(fs)
  <2>1. CASE i = Len(fs)
    BY <1>2, <1>6, <2>1
  <2>2. CASE i # Len(fs)
    <3>1. i \in 1 .. Len(fs) - 1
      BY <1>1, <2>2
    <3> QED BY <1>6, <3>1
  <2> QED BY <2>1, <2>2
<1>8. \A i \in 1 .. Len(gs) :
       /\ IsPrefix(c.src, gs[i].src) /\ Len(gs[i].src) = Len(c.src) + (i - 1)
       /\ gs[i].dst = Carried(gs[i].src, c.src, c.dst)
       /\ gs[i].op = LoopOf(c.op)
  BY <1>6, <1>7 DEF Links
<1>9. ASSUME NEW i \in 1 .. Len(gs) - 1
      PROVE  \E n \in Names : gs[i + 1].src = Append(gs[i].src, n)
  <2>1. i \in 1 .. Len(fs) /\ i + 1 \in 1 .. Len(fs) /\ i \in 1 .. Len(fs) - 1
    BY <1>1, <1>6
  <2>2. gs[i + 1].src = fs[i + 1].src /\ gs[i].src = fs[i].src
    BY <1>7, <2>1
  <2> QED BY <2>1, <2>2 DEF Links
<1>10. Links(gs, c)
  BY <1>8, <1>9 DEF Links
<1> QED BY <1>1, <1>3, <1>5, <1>6, <1>10 DEF f, gs

(* A call of a call.                                                       *)
LEMMA LinksPush ==
  ASSUME NEW c \in CallSet, NEW fs \in Seq(FrameSet), Links(fs, c), fs # <<>>,
         NEW n \in Names, NEW todo \in SUBSET Items
  PROVE  LET top == fs[Len(fs)]
             f   == Frame(top.op, Append(top.src, n), Append(top.dst, n), todo)
             gs  == Append(fs, f)
         IN  /\ gs \in Seq(FrameSet) /\ Links(gs, c)
             /\ Len(fs) \in Nat \ {0} /\ Len(gs) = Len(fs) + 1
             /\ \A i \in 1 .. Len(fs) : gs[i] = fs[i]
             /\ gs[Len(fs) + 1] = f
<1> DEFINE top == fs[Len(fs)]
           f   == Frame(top.op, Append(top.src, n), Append(top.dst, n), todo)
           gs  == Append(fs, f)
<1>1. Len(fs) \in Nat \ {0} /\ fs \in [1 .. Len(fs) -> FrameSet]
  BY LenProperties, EmptySeq
<1>2. top \in FrameSet
  BY <1>1
<1>3. /\ c.src \in Seq(Names) /\ c.dst \in Seq(Names)
      /\ IsPrefix(c.src, top.src) /\ Len(top.src) = Len(c.src) + (Len(fs) - 1)
      /\ top.dst = Carried(top.src, c.src, c.dst) /\ top.op = LoopOf(c.op)
  BY <1>1 DEF Links, CallSet
<1>4. top.src \in Seq(Names) /\ top.dst \in Seq(Names) /\ top.op \in {"copy", "delete"}
  <2> HIDE DEF top
  <2> QED BY <1>2 DEF FrameSet
<1>5. /\ f.src = Append(top.src, n) /\ f.dst = Append(top.dst, n) /\ f.op = top.op
      /\ f.todo = todo
  BY DEF Frame
<1> HIDE DEF top
<1>6. /\ Append(top.src, n) \in Seq(Names) /\ Append(top.dst, n) \in Seq(Names)
      /\ Len(top.src) \in Nat /\ Len(Append(top.src, n)) = Len(top.src) + 1
      /\ IsPrefix(top.src, Append(top.src, n)) /\ Len(c.src) \in Nat
  BY <1>3, <1>4, AppendFacts, LenProperties
<1>7. f \in FrameSet
  BY <1>4, <1>6 DEF Frame, FrameSet
<1> HIDE DEF f
<1>8. /\ gs \in Seq(FrameSet) /\ Len(gs) = Len(fs) + 1
      /\ \A i \in 1 .. Len(fs) : gs[i] = fs[i]
      /\ gs[Len(fs) + 1] = f
  BY <1>7, AppendProperties
<1> HIDE DEF gs
<1>9. /\ IsPrefix(c.src, f.src) /\ Len(f.src) = Len(c.src) + (Len(fs) + 1 - 1)
      /\ f.dst = Carried(f.src, c.src, c.dst) /\ f.op = LoopOf(c.op)
  <2>1. IsPrefix(c.src, f.src)
    BY <1>3, <1>4, <1>5, PrefixOfAppend
  <2>2. Carried(Append(top.src, n), c.src, c.dst) = Append(Carried(top.src, c.src, c.dst), n)
    BY <1>3, <1>4, CarriedAppend
  <2>3. Len(f.src) = Len(c.src) + (Len(fs) + 1 - 1)
    BY <1>1, <1>3, <1>5, <1>6
  <2> QED BY <1>3, <1>5, <2>1, <2>2, <2>3
<1>10. ASSUME NEW i \in 1 .. Len(gs)
       PROVE  /\ IsPrefix(c.src, gs[i].src) /\ Len(gs[i].src) = Len(c.src) + (i - 1)
              /\ gs[i].dst = Carried(gs[i].src, c.src, c.dst)
              /\ gs[i].op = LoopOf(c.op)
  <2>1. CASE i = Len(fs) + 1
    BY <1>8, <1>9, <2>1
  <2>2. CASE i # Len(fs) + 1
    <3>1. i \in 1 .. Len(fs)
      BY <1>1, <1>8, <2>2
    <3> QED BY <1>8, <3>1 DEF Links
  <2> QED BY <2>1, <2>2
<1>11. ASSUME NEW i \in 1 .. Len(gs) - 1
       PROVE  \E m \in Names : gs[i + 1].src = Append(gs[i].src, m)
  <2>1. CASE i = Len(fs)
    <3>1. gs[i + 1] = f /\ gs[i] = top
      BY <1>1, <1>8, <2>1 DEF top
    <3> QED BY <1>5, <3>1
  <2>2. CASE i # Len(fs)
    <3>1. i \in 1 .. Len(fs) /\ i + 1 \in 1 .. Len(fs) /\ i \in 1 .. Len(fs) - 1
      <4>1. Len(gs) = Len(fs) + 1 /\ Len(fs) \in Nat \ {0}
        BY <1>1, <1>8
      <4> QED BY <2>2, <4>1
    <3>2. \A j \in 1 .. Len(fs) : gs[j] = fs[j]
      BY <1>8
    <3>3. gs[i + 1] = fs[i + 1] /\ gs[i] = fs[i]
      BY <3>1, <3>2
    <3> QED BY <3>1, <3>3 DEF Links
  <2> QED BY <2>1, <2>2
<1>12. Links(gs, c)
  BY <1>10, <1>11 DEF Links
<1> QED BY <1>1, <1>8, <1>12 DEF gs, f, top

LEMMA LinksPop ==
  ASSUME NEW c \in CallSet, NEW fs \in Seq(FrameSet), Links(fs, c), fs # <<>>
  PROVE  /\ Front(fs) \in Seq(FrameSet) /\ Links(Front(fs), c)
         /\ Len(fs) \in Nat \ {0} /\ Len(Front(fs)) = Len(fs) - 1
         /\ \A i \in 1 .. Len(fs) - 1 : Front(fs)[i] = fs[i]
         /\ Last(fs) = fs[Len(fs)] /\ (Len(fs) = 1 <=> Front(fs) = <<>>)
<1> DEFINE gs == Front(fs)
<1>1. /\ gs \in Seq(FrameSet) /\ Last(fs) \in FrameSet
      /\ Len(fs) \in Nat \ {0} /\ Len(gs) = Len(fs) - 1
      /\ fs = Append(gs, Last(fs))
  BY FrontLast
<1> HIDE DEF gs
<1>2. /\ \A i \in 1 .. Len(gs) : fs[i] = gs[i]
      /\ fs[Len(gs) + 1] = Last(fs)
  BY <1>1, AppendProperties
<1>3. (\A i \in 1 .. Len(fs) - 1 : gs[i] = fs[i]) /\ Last(fs) = fs[Len(fs)]
  BY <1>1, <1>2
<1>4. ASSUME NEW i \in 1 .. Len(gs)
       PROVE  /\ IsPrefix(c.src, gs[i].src) /\ Len(gs[i].src) = Len(c.src) + (i - 1)
              /\ gs[i].dst = Carried(gs[i].src, c.src, c.dst)
              /\ gs[i].op = LoopOf(c.op)
  <2>1. i \in 1 .. Len(fs) /\ i \in 1 .. Len(fs) - 1
    BY <1>1
  <2> QED BY <1>3, <2>1 DEF Links
<1>5. ASSUME NEW i \in 1 .. Len(gs) - 1
       PROVE  \E m \in Names : gs[i + 1].src = Append(gs[i].src, m)
  <2>1. i + 1 \in 1 .. Len(fs) - 1 /\ i \in 1 .. Len(fs) - 1
    BY <1>1
  <2>2. gs[i + 1] = fs[i + 1] /\ gs[i] = fs[i]
    BY <1>3, <2>1
  <2> QED BY <2>1, <2>2 DEF Links
<1>6. Len(fs) = 1 <=> gs = <<>>
  BY <1>1, EmptySeq
<1>7. Links(gs, c)
  BY <1>4, <1>5 DEF Links
<1> QED BY <1>1, <1>3, <1>6, <1>7 DEF gs

-----------------------------------------------------------------------------
(* The types, and what a step is.                                          *)
Shape ==
  /\ IsTree(tree) /\ IsTree(before)
  /\ clip \in [mode : Modes, src : Path] /\ (clip.mode # "none" => clip.src # <<>>)
  /\ ret \in Results /\ Counting /\ calls \in 0 .. MaxCalls
  /\ call \in CallSet /\ (call.op \in {"delete", "unlink"} => call.dst = call.src)
  /\ frames \in Seq(FrameSet) /\ Links(frames, call)
  /\ frames # <<>> => call.op \in {"copyfolder", "delete"}

(* Every change of the volume is one of a copy, at the place that          *)
(* corresponds to something under the source, of a deletion, under what is *)
(* deleted, or of a move.                                                  *)
CopyEffect ==
  /\ call'.op \in {"copy", "copyfolder"}
  /\ \E s \in DOMAIN tree : LET w == Carried(s, call'.src, call'.dst) IN
       /\ IsPrefix(call'.src, s) /\ CanCreate(w)
       /\ (\E e \in Entry : tree' = With(w, e)) \/ tree' = Without(w)

DeleteEffect ==
  /\ call'.op \in {"delete", "unlink"}
  /\ \E w \in DOMAIN tree : IsPrefix(call'.src, w) /\ CanUnlink(w) /\ tree' = Without(w)

MoveEffect ==
  /\ call'.op \in MoveModes /\ CanRename(call'.src, call'.dst)
  /\ tree' = Renamed(call'.src, call'.dst)

Effect == tree' = tree \/ CopyEffect \/ DeleteEffect \/ MoveEffect

Descent(e) ==
  LET s == Append(Top.src, e.name)
  IN  Append(Rest(e), Frame(Top.op, s, Append(Top.dst, e.name), Listing(s)))

CallKept == call' = call /\ before' = before
CallMade == /\ frames = <<>> /\ before' = tree /\ call' \in CallSet
            /\ call'.op \in {"delete", "unlink"} => call'.dst = call'.src

Framing ==
  \/ frames' = frames
  \/ frames # <<>> /\ frames' = Front(frames)
  \/ frames # <<>> /\ \E e \in Top.todo : frames' = Rest(e)
  \/ /\ frames # <<>>
     /\ \E e \in Top.todo : IsDir(Append(Top.src, e.name)) /\ frames' = Descent(e)
  \/ /\ CallMade /\ call'.op \in {"copyfolder", "delete"} /\ IsDir(call'.src)
     /\ frames' = Append(<<>>, Frame(LoopOf(call'.op), call'.src, call'.dst, Listing(call'.src)))

Stepped ==
  /\ Effect /\ Framing /\ (CallKept \/ CallMade)
  /\ ret' \in Results /\ faults' \in 0 .. MaxFaults /\ calls' \in 0 .. MaxCalls
  /\ \/ clip' = clip \/ clip' = NoClip
     \/ \E p \in DOMAIN tree \ {<<>>}, mode \in Modes : clip' = [mode |-> mode, src |-> p]

LEMMA ListingItems ==
  ASSUME IsTree(tree), NEW p \in Seq(Names)
  PROVE  Listing(p) \in SUBSET Items
<1> SUFFICES ASSUME NEW q \in Below(p), Len(q) = Len(p) + 1
             PROVE  [name |-> Last(q), dir |-> tree[q].dir] \in Items
  BY DEF Listing
<1>1. q \in DOMAIN tree /\ q \in Path /\ tree[q] \in Entry
  BY DEF Below, IsTree
<1>2. q \in Seq(Names) /\ Len(p) \in Nat
  BY <1>1, PathDef, LenProperties
<1>3. q # <<>>
  BY <1>2, EmptySeq
<1>4. Last(q) \in Names
  BY <1>2, <1>3, FrontLast
<1> QED BY <1>1, <1>4 DEF Items, Entry

LEMMA TopFacts ==
  ASSUME Shape, frames # <<>>
  PROVE  /\ Top \in FrameSet /\ Top = frames[Len(frames)] /\ Len(frames) \in Nat \ {0}
         /\ Top.src \in Seq(Names) /\ Top.dst \in Seq(Names) /\ Top.todo \in SUBSET Items
         /\ IsPrefix(call.src, Top.src) /\ Len(Top.src) = Len(call.src) + (Len(frames) - 1)
         /\ Top.dst = Carried(Top.src, call.src, call.dst)
         /\ Top.op = LoopOf(call.op)
<1>1. frames \in Seq(FrameSet) /\ Links(frames, call)
  BY DEF Shape
<1>2. Len(frames) \in Nat \ {0} /\ frames \in [1 .. Len(frames) -> FrameSet]
  BY <1>1, LenProperties, EmptySeq
<1>3. Top = frames[Len(frames)] /\ Len(frames) \in 1 .. Len(frames)
  BY <1>2 DEF Top, Last
<1>4. Top \in FrameSet
  BY <1>2, <1>3
<1>5. /\ IsPrefix(call.src, Top.src) /\ Len(Top.src) = Len(call.src) + (Len(frames) - 1)
      /\ Top.dst = Carried(Top.src, call.src, call.dst)
      /\ Top.op = LoopOf(call.op)
  BY <1>1, <1>3 DEF Links
<1> QED BY <1>2, <1>3, <1>4, <1>5 DEF FrameSet

(* The two places an entry that is taken stands for.                       *)
LEMMA ItemFacts ==
  ASSUME Shape, frames # <<>>, NEW e \in Top.todo
  PROVE  LET s == Append(Top.src, e.name) IN
         /\ s \in Seq(Names) /\ IsPrefix(call.src, s) /\ Last(s) = e.name
         /\ Append(Top.dst, e.name) = Carried(s, call.src, call.dst)
         /\ Append(Top.dst, e.name) \in Seq(Names)
         /\ call.op = "delete" => Append(Top.dst, e.name) = s
<1>1. /\ Top.src \in Seq(Names) /\ Top.dst \in Seq(Names) /\ e.name \in Names
      /\ IsPrefix(call.src, Top.src) /\ Top.dst = Carried(Top.src, call.src, call.dst)
  BY TopFacts DEF Items
<1>2. call.src \in Seq(Names) /\ call.dst \in Seq(Names)
  BY DEF Shape, CallSet
<1>3. /\ Append(Top.src, e.name) \in Seq(Names) /\ Last(Append(Top.src, e.name)) = e.name
      /\ Append(Top.dst, e.name) \in Seq(Names)
  BY <1>1, AppendFacts
<1>4. IsPrefix(call.src, Append(Top.src, e.name))
  BY <1>1, <1>2, PrefixOfAppend
<1>5. Append(Top.dst, e.name) = Carried(Append(Top.src, e.name), call.src, call.dst)
  BY <1>1, <1>2, CarriedAppend
<1>6. call.op = "delete" => Append(Top.dst, e.name) = Append(Top.src, e.name)
  BY <1>1, <1>2, CarriedFacts DEF Shape
<1> QED BY <1>3, <1>4, <1>5, <1>6

(* Every action is such a step.                                            *)
LEMMA CopyFileStep ==
  ASSUME Shape, CopyFile
  PROVE  Stepped
<1>1. frames # <<>> /\ Top.op = "copy" /\ CallKept /\ calls' = calls
  BY DEF CopyFile, Turn, InLoop, Same, CallKept
<1>2. PICK e \in Top.todo :
        /\ FileCopy(Append(Top.src, e.name), Append(Top.dst, e.name), FALSE)
        /\ frames' = Rest(e)
  BY DEF CopyFile
<1> DEFINE s == Append(Top.src, e.name)
           w == Carried(s, call.src, call.dst)
<1>3. call.op \in {"copyfolder", "delete"} /\ IsTree(tree) /\ Counting /\ calls \in 0 .. MaxCalls
  BY <1>1 DEF Shape
<1>4. call.op = "copyfolder"
  BY <1>1, <1>3, TopFacts DEF LoopOf
<1>5. IsPrefix(call.src, s) /\ Append(Top.dst, e.name) = w
  BY <1>1, ItemFacts
<1> HIDE DEF s, w
<1>6. FileCopy(s, w, FALSE)
  BY <1>2, <1>5 DEF s
<1>7. /\ ret' \in Results /\ faults' \in 0 .. MaxFaults
      /\ \/ tree' = tree
         \/ IsFile(s) /\ CanCreate(w) /\ \E d \in Entry : tree' = With(w, d)
  BY <1>3, <1>6, FileCopyOutcome
<1>8. Effect
  <2>1. CASE tree' = tree
    BY <2>1 DEF Effect
  <2>2. CASE IsFile(s) /\ CanCreate(w) /\ \E d \in Entry : tree' = With(w, d)
    <3>1. s \in DOMAIN tree
      BY <2>2 DEF IsFile, Exists
    <3> QED BY <1>1, <1>4, <1>5, <2>2, <3>1 DEF Effect, CopyEffect, CallKept, w
  <2> QED BY <1>7, <2>1, <2>2
<1>9. Framing
  BY <1>1, <1>2 DEF Framing
<1>10. clip' = clip \/ clip' = NoClip
  BY DEF CopyFile, Settle
<1> QED BY <1>1, <1>3, <1>7, <1>8, <1>9, <1>10 DEF Stepped

LEMMA CopySubStep ==
  ASSUME Shape, CopySub
  PROVE  Stepped
<1>1. frames # <<>> /\ Top.op = "copy" /\ CallKept /\ calls' = calls
  BY DEF CopySub, Turn, InLoop, Same, CallKept
<1>2. PICK e \in Top.todo : EnterCopy(Append(Top.src, e.name), Top.dst, Rest(e))
  BY DEF CopySub
<1> DEFINE s == Append(Top.src, e.name)
           w == Carried(s, call.src, call.dst)
<1>3. call.op \in {"copyfolder", "delete"} /\ IsTree(tree) /\ Counting /\ calls \in 0 .. MaxCalls
  BY <1>1 DEF Shape
<1>4. call.op = "copyfolder"
  BY <1>1, <1>3, TopFacts DEF LoopOf
<1>5. IsPrefix(call.src, s) /\ Append(Top.dst, e.name) = w /\ Last(s) = e.name
  BY <1>1, ItemFacts
<1> HIDE DEF s, w
<1>6. EnterCopy(s, Top.dst, Rest(e))
  BY <1>2 DEF s
<1>7. /\ ret' \in Results /\ faults' \in 0 .. MaxFaults
      /\ \/ tree' = tree /\ frames' = Rest(e)
         \/ /\ IsDir(s) /\ frames' = Append(Rest(e), Frame("copy", s, w, Listing(s)))
            /\ tree' = tree \/ (CanMake(w) /\ tree' = With(w, Folder))
  BY <1>3, <1>5, <1>6, EnterCopyOutcome
<1>8. Effect
  <2>1. CASE tree' = tree
    BY <2>1 DEF Effect
  <2>2. CASE IsDir(s) /\ CanMake(w) /\ tree' = With(w, Folder)
    <3>1. s \in DOMAIN tree /\ CanCreate(w)
      BY <2>2 DEF IsDir, Exists, CanCreate
    <3>2. Folder \in Entry
      BY EmptySeq DEF Folder, Entry
    <3> QED BY <1>1, <1>4, <1>5, <2>2, <3>1, <3>2 DEF Effect, CopyEffect, CallKept, w
  <2> QED BY <1>7, <2>1, <2>2
<1>9. Framing
  BY <1>1, <1>5, <1>7 DEF Framing, Descent, s
<1>10. clip' = clip \/ clip' = NoClip
  BY DEF CopySub, Settle
<1> QED BY <1>1, <1>3, <1>7, <1>8, <1>9, <1>10 DEF Stepped

LEMMA CopyDoneStep ==
  ASSUME Shape, CopyDone
  PROVE  Stepped
<1>1. frames # <<>> /\ CallKept /\ calls' = calls /\ frames' = Front(frames)
  BY DEF CopyDone, InLoop, Same, CallKept
<1>2. ret \in Results /\ Counting /\ calls \in 0 .. MaxCalls
  BY DEF Shape
<1>3. (Fault \/ NoFault) /\ tree' = tree /\ ret' \in Results
  BY <1>2 DEF CopyDone, Stays, Results
<1>4. faults' \in 0 .. MaxFaults
  BY <1>2, <1>3, FaultCounts
<1>5. clip' = clip \/ clip' = NoClip
  BY DEF CopyDone, Settle
<1> QED BY <1>1, <1>2, <1>3, <1>4, <1>5 DEF Stepped, Effect, Framing

LEMMA DeleteFileStep ==
  ASSUME Shape, DeleteFile
  PROVE  Stepped
<1>1. frames # <<>> /\ Top.op = "delete" /\ CallKept /\ calls' = calls
  BY DEF DeleteFile, Turn, InLoop, Same, CallKept
<1>2. PICK e \in Top.todo : Unlink(Append(Top.src, e.name)) /\ frames' = Rest(e)
  BY DEF DeleteFile
<1> DEFINE s == Append(Top.src, e.name)
<1>3. call.op \in {"copyfolder", "delete"} /\ Counting /\ calls \in 0 .. MaxCalls
  BY <1>1 DEF Shape
<1>4. call.op = "delete"
  BY <1>1, <1>3, TopFacts DEF LoopOf
<1>5. IsPrefix(call.src, s)
  BY <1>1, ItemFacts
<1> HIDE DEF s
<1>6. Unlink(s)
  BY <1>2 DEF s
<1>7. /\ ret' \in Results /\ faults' \in 0 .. MaxFaults
      /\ tree' = tree \/ (CanUnlink(s) /\ tree' = Without(s))
  BY <1>3, <1>6, UnlinkOutcome
<1>8. Effect
  BY <1>1, <1>4, <1>5, <1>7 DEF Effect, DeleteEffect, CallKept, CanUnlink, Exists
<1>9. Framing
  BY <1>1, <1>2 DEF Framing
<1>10. clip' = clip \/ clip' = NoClip
  BY DEF DeleteFile, Settle
<1> QED BY <1>1, <1>3, <1>7, <1>8, <1>9, <1>10 DEF Stepped

LEMMA DeleteSubStep ==
  ASSUME Shape, DeleteSub
  PROVE  Stepped
<1>1. frames # <<>> /\ Top.op = "delete" /\ CallKept /\ calls' = calls
  BY DEF DeleteSub, Turn, InLoop, Same, CallKept
<1>2. PICK e \in Top.todo : EnterDelete(Append(Top.src, e.name), Rest(e))
  BY DEF DeleteSub
<1> DEFINE s == Append(Top.src, e.name)
<1>3. call.op \in {"copyfolder", "delete"} /\ Counting /\ calls \in 0 .. MaxCalls
  BY <1>1 DEF Shape
<1>4. call.op = "delete"
  BY <1>1, <1>3, TopFacts DEF LoopOf
<1>5. IsPrefix(call.src, s) /\ Append(Top.dst, e.name) = s
  BY <1>1, <1>4, ItemFacts
<1> HIDE DEF s
<1>6. EnterDelete(s, Rest(e))
  BY <1>2 DEF s
<1>7. /\ ret' \in Results /\ faults' \in 0 .. MaxFaults /\ tree' = tree
      /\ \/ frames' = Rest(e)
         \/ IsDir(s) /\ frames' = Append(Rest(e), Frame("delete", s, s, Listing(s)))
  BY <1>3, <1>6, EnterDeleteOutcome
<1>8. Framing
  BY <1>1, <1>5, <1>7 DEF Framing, Descent, s
<1>9. clip' = clip \/ clip' = NoClip
  BY DEF DeleteSub, Settle
<1> QED BY <1>1, <1>3, <1>7, <1>8, <1>9 DEF Stepped, Effect

LEMMA DeleteDoneStep ==
  ASSUME Shape, DeleteDone
  PROVE  Stepped
<1>1. frames # <<>> /\ Top.op = "delete" /\ CallKept /\ calls' = calls /\ frames' = Front(frames)
  BY DEF DeleteDone, InLoop, Same, CallKept
<1>2. call.op \in {"copyfolder", "delete"} /\ ret \in Results /\ Counting /\ calls \in 0 .. MaxCalls
  BY <1>1 DEF Shape
<1>3. call.op = "delete" /\ IsPrefix(call.src, Top.src)
  BY <1>1, <1>2, TopFacts DEF LoopOf
<1>4. /\ ret' \in Results /\ faults' \in 0 .. MaxFaults
      /\ tree' = tree \/ (CanUnlink(Top.src) /\ tree' = Without(Top.src))
  <2>1. CASE Stays(ret)
    BY <1>2, <2>1, FaultCounts DEF Stays
  <2>2. CASE Unlink(Top.src)
    BY <1>2, <2>2, UnlinkOutcome
  <2> QED BY <2>1, <2>2 DEF DeleteDone
<1>5. Effect
  BY <1>1, <1>3, <1>4 DEF Effect, DeleteEffect, CallKept, CanUnlink, Exists
<1>6. Framing
  BY <1>1 DEF Framing
<1>7. clip' = clip \/ clip' = NoClip
  BY DEF DeleteDone, Settle
<1> QED BY <1>1, <1>2, <1>4, <1>5, <1>6, <1>7 DEF Stepped

(* The calls.                                                              *)
LEMMA PickStep ==
  ASSUME Shape, NEW mode \in Modes \ {"none"}, NEW p \in DOMAIN tree, Pick(mode, p)
  PROVE  Stepped
<1>1. /\ p # <<>> /\ clip' = [mode |-> mode, src |-> p] /\ CallKept /\ tree' = tree
      /\ frames' = frames /\ ret' = ret /\ faults' = faults /\ calls' = calls
  BY DEF Pick, Same, CallKept
<1>2. ret \in Results /\ Counting /\ calls \in 0 .. MaxCalls
  BY DEF Shape
<1> QED BY <1>1, <1>2 DEF Stepped, Effect, Framing, Counting

LEMMA MadeFacts ==
  ASSUME Shape, NEW op, NEW src \in Seq(Names), NEW dst \in Seq(Names), NEW by,
         op \in {"copy", "move", "copyfolder", "movefolder", "delete", "unlink"},
         by \in {"menu", "paste", "script"}, op \in {"delete", "unlink"} => dst = src,
         Call(op, src, dst, by)
  PROVE  /\ CallMade /\ calls' \in 0 .. MaxCalls /\ frames = <<>>
         /\ call'.op = op /\ call'.src = src /\ call'.dst = dst
<1>1. calls' \in 0 .. MaxCalls
  BY BoundsAssumption DEF Shape, Call
<1> QED BY <1>1 DEF Call, CallMade, CallSet

(* A copy that starts: what it may write is where its source goes.         *)
LEMMA CopyStarts ==
  ASSUME IsTree(tree), call'.op \in {"copy", "copyfolder"},
         call'.src \in Seq(Names), call'.dst \in Seq(Names), Exists(call'.src),
         CanCreate(call'.dst),
         (\E e \in Entry : tree' = With(call'.dst, e)) \/ tree' = Without(call'.dst)
  PROVE  Effect
<1>1. IsPrefix(call'.src, call'.src) /\ Carried(call'.src, call'.src, call'.dst) = call'.dst
  BY PrefixFacts, CarriedFacts
<1> QED BY <1>1 DEF Effect, CopyEffect, Exists

LEMMA FileCopyStarts ==
  ASSUME Shape, call'.op = "copy", call'.src \in Seq(Names), call'.dst \in Seq(Names),
         NEW mayCancel, FileCopy(call'.src, call'.dst, mayCancel)
  PROVE  Effect /\ ret' \in Results /\ faults' \in 0 .. MaxFaults
<1>1. IsTree(tree) /\ Counting
  BY DEF Shape
<1>2. /\ ret' \in Results /\ faults' \in 0 .. MaxFaults
      /\ \/ tree' = tree
         \/ /\ IsFile(call'.src) /\ CanCreate(call'.dst)
            /\ (\E e \in Entry : tree' = With(call'.dst, e)) \/ tree' = Without(call'.dst)
  BY <1>1, FileCopyOutcome
<1>3. CASE tree' = tree
  BY <1>2, <1>3 DEF Effect
<1>4. CASE tree' # tree
  <2>1. /\ Exists(call'.src) /\ CanCreate(call'.dst)
        /\ (\E e \in Entry : tree' = With(call'.dst, e)) \/ tree' = Without(call'.dst)
    BY <1>2, <1>4 DEF IsFile
  <2>2. Effect
    BY <1>1, <2>1, CopyStarts
  <2> QED BY <1>2, <2>2
<1> QED BY <1>3, <1>4

LEMMA FolderCopyStarts ==
  ASSUME Shape, CallMade, call'.op = "copyfolder", NEW at,
         call'.src \in Seq(Names), call'.dst \in Seq(Names),
         call'.dst = Append(at, Last(call'.src)), EnterCopy(call'.src, at, <<>>)
  PROVE  Effect /\ Framing /\ ret' \in Results /\ faults' \in 0 .. MaxFaults
<1>1. IsTree(tree) /\ Counting
  BY DEF Shape
<1>2. /\ ret' \in Results /\ faults' \in 0 .. MaxFaults
      /\ \/ tree' = tree /\ frames' = <<>>
         \/ /\ IsDir(call'.src)
            /\ frames' = Append(<<>>, Frame("copy", call'.src, call'.dst, Listing(call'.src)))
            /\ tree' = tree \/ (CanMake(call'.dst) /\ tree' = With(call'.dst, Folder))
  BY <1>1, EnterCopyOutcome
<1>3. Framing
  BY <1>2 DEF Framing, LoopOf, CallMade
<1>4. Effect
  <2>1. CASE tree' = tree
    BY <2>1 DEF Effect
  <2>2. CASE IsDir(call'.src) /\ CanMake(call'.dst) /\ tree' = With(call'.dst, Folder)
    <3>1. Exists(call'.src) /\ CanCreate(call'.dst)
      BY <2>2 DEF IsDir, CanCreate
    <3>2. Folder \in Entry
      BY EmptySeq DEF Folder, Entry
    <3> QED BY <1>1, <2>2, <3>1, <3>2, CopyStarts
  <2> QED BY <1>2, <2>1, <2>2
<1> QED BY <1>2, <1>3, <1>4

LEMMA PasteStep ==
  ASSUME Shape, NEW at \in DOMAIN tree, Paste(at)
  PROVE  Stepped
<1> DEFINE src == clip.src
           dst == Append(at, Last(src))
<1>1. clip.mode # "none" /\ Call(clip.mode, src, dst, "paste")
  BY DEF Paste
<1>2. src \in Seq(Names) /\ src # <<>> /\ clip.mode \in Modes \ {"none"}
  BY <1>1, PathDef DEF Shape
<1>3. dst \in Seq(Names)
  <2>1. Last(src) \in Names /\ at \in Seq(Names)
    BY <1>2, FrontLast, PathDef DEF Shape, IsTree
  <2> QED BY <2>1, AppendFacts
<1> HIDE DEF dst
<1>4. /\ CallMade /\ calls' \in 0 .. MaxCalls /\ frames = <<>>
      /\ call'.op = clip.mode /\ call'.src = src /\ call'.dst = dst
  BY <1>1, <1>2, <1>3, MadeFacts DEF Modes
<1>5. \/ Stays("refused") /\ frames' = <<>>
      \/ clip.mode \in MoveModes /\ Rename(src, dst) /\ frames' = <<>>
      \/ clip.mode = "copy" /\ FileCopy(src, dst, TRUE) /\ frames' = <<>>
      \/ clip.mode = "copyfolder" /\ EnterCopy(src, at, <<>>)
  BY DEF Paste, dst
<1>6. Effect /\ Framing /\ ret' \in Results /\ faults' \in 0 .. MaxFaults
  <2>1. CASE Stays("refused") /\ frames' = <<>>
    BY <1>4, <2>1, FaultCounts DEF Stays, Effect, Framing, Results, Shape
  <2>2. CASE clip.mode \in MoveModes /\ Rename(src, dst) /\ frames' = <<>>
    <3>1. /\ ret' \in Results /\ faults' \in 0 .. MaxFaults
          /\ tree' = tree \/ (CanRename(src, dst) /\ tree' = Renamed(src, dst))
      BY <2>2, RenameOutcome DEF Shape
    <3> QED BY <1>4, <2>2, <3>1 DEF Effect, MoveEffect, Framing
  <2>3. CASE clip.mode = "copy" /\ FileCopy(src, dst, TRUE) /\ frames' = <<>>
    <3>1. Effect /\ ret' \in Results /\ faults' \in 0 .. MaxFaults
      BY <1>2, <1>3, <1>4, <2>3, FileCopyStarts
    <3> QED BY <1>4, <2>3, <3>1 DEF Framing
  <2>4. CASE clip.mode = "copyfolder" /\ EnterCopy(src, at, <<>>)
    BY <1>2, <1>3, <1>4, <2>4, FolderCopyStarts DEF dst
  <2> QED BY <1>5, <2>1, <2>2, <2>3, <2>4
<1>7. clip' = clip \/ clip' = NoClip
  BY DEF Paste, Settle
<1> QED BY <1>4, <1>6, <1>7 DEF Stepped

LEMMA ScriptCopyDirStep ==
  ASSUME Shape, NEW src \in DOMAIN tree, NEW at \in DOMAIN tree, ScriptCopyDir(src, at)
  PROVE  Stepped
<1> DEFINE dst == Append(at, Last(src))
<1>1. Call("copyfolder", src, dst, "script") /\ EnterCopy(src, at, <<>>) /\ src # <<>>
  BY DEF ScriptCopyDir
<1>2. src \in Seq(Names) /\ at \in Seq(Names)
  BY PathDef DEF Shape, IsTree
<1>3. dst \in Seq(Names)
  BY <1>1, <1>2, FrontLast, AppendFacts
<1> HIDE DEF dst
<1>4. /\ CallMade /\ calls' \in 0 .. MaxCalls /\ frames = <<>>
      /\ call'.op = "copyfolder" /\ call'.src = src /\ call'.dst = dst
  BY <1>1, <1>2, <1>3, MadeFacts
<1>5. Effect /\ Framing /\ ret' \in Results /\ faults' \in 0 .. MaxFaults
  BY <1>1, <1>2, <1>3, <1>4, FolderCopyStarts DEF dst
<1>6. clip' = clip \/ clip' = NoClip
  BY DEF ScriptCopyDir, Settle
<1> QED BY <1>4, <1>5, <1>6 DEF Stepped

LEMMA ScriptCopyFileStep ==
  ASSUME Shape, NEW src \in DOMAIN tree, NEW at \in DOMAIN tree, NEW n \in Names,
         ScriptCopyFile(src, Append(at, n))
  PROVE  Stepped
<1> DEFINE dst == Append(at, n)
<1>1. Call("copy", src, dst, "script") /\ FileCopy(src, dst, FALSE) /\ frames' = frames
  BY DEF ScriptCopyFile
<1>2. src \in Seq(Names) /\ at \in Seq(Names)
  BY PathDef DEF Shape, IsTree
<1>3. dst \in Seq(Names)
  BY <1>2, AppendFacts
<1>4. clip' = clip \/ clip' = NoClip
  BY DEF ScriptCopyFile, Settle
<1> HIDE DEF dst
<1>5. /\ CallMade /\ calls' \in 0 .. MaxCalls /\ frames = <<>>
      /\ call'.op = "copy" /\ call'.src = src /\ call'.dst = dst
  BY <1>1, <1>2, <1>3, MadeFacts
<1>6. Effect /\ ret' \in Results /\ faults' \in 0 .. MaxFaults
  BY <1>1, <1>2, <1>3, <1>5, FileCopyStarts
<1> QED BY <1>1, <1>4, <1>5, <1>6 DEF Stepped, Framing

LEMMA DeleteFolderStep ==
  ASSUME Shape, NEW p \in DOMAIN tree, DeleteFolder(p)
  PROVE  Stepped
<1>1. Call("delete", p, p, "menu") /\ EnterDelete(p, <<>>)
  BY DEF DeleteFolder
<1>2. p \in Seq(Names) /\ Counting
  BY PathDef DEF Shape, IsTree
<1>3. /\ CallMade /\ calls' \in 0 .. MaxCalls /\ frames = <<>>
      /\ call'.op = "delete" /\ call'.src = p /\ call'.dst = p
  BY <1>1, <1>2, MadeFacts
<1>4. /\ ret' \in Results /\ faults' \in 0 .. MaxFaults /\ tree' = tree
      /\ \/ frames' = <<>>
         \/ IsDir(p) /\ frames' = Append(<<>>, Frame("delete", p, p, Listing(p)))
  BY <1>1, <1>2, EnterDeleteOutcome
<1>5. Framing
  BY <1>3, <1>4 DEF Framing, LoopOf
<1>6. clip' = clip \/ clip' = NoClip
  BY DEF DeleteFolder, Settle
<1> QED BY <1>3, <1>4, <1>5, <1>6 DEF Stepped, Effect

LEMMA UnlinkOneStep ==
  ASSUME Shape, NEW p \in DOMAIN tree, UnlinkOne(p)
  PROVE  Stepped
<1>1. Call("unlink", p, p, "menu") /\ Unlink(p) /\ frames' = frames /\ clip' = clip
  BY DEF UnlinkOne
<1>2. p \in Seq(Names) /\ Counting
  BY PathDef DEF Shape, IsTree
<1>3. /\ CallMade /\ calls' \in 0 .. MaxCalls
      /\ call'.op = "unlink" /\ call'.src = p
  BY <1>1, <1>2, MadeFacts
<1>4. /\ ret' \in Results /\ faults' \in 0 .. MaxFaults
      /\ tree' = tree \/ (CanUnlink(p) /\ tree' = Without(p))
  BY <1>1, <1>2, UnlinkOutcome
<1>5. IsPrefix(p, p)
  BY <1>2, PrefixFacts
<1> QED BY <1>1, <1>3, <1>4, <1>5 DEF Stepped, Framing, Effect, DeleteEffect

LEMMA NextStep ==
  ASSUME Shape, Next
  PROVE  Stepped
<1>1. CASE Step
  BY <1>1, CopyFileStep, CopySubStep, CopyDoneStep, DeleteFileStep, DeleteSubStep,
     DeleteDoneStep DEF Step
<1>2. CASE \E p \in DOMAIN tree : \E mode \in Modes \ {"none"} : Pick(mode, p)
  BY <1>2, PickStep
<1>3. CASE \E p \in DOMAIN tree : Paste(p) \/ DeleteFolder(p) \/ UnlinkOne(p)
  BY <1>3, PasteStep, DeleteFolderStep, UnlinkOneStep
<1>4. CASE \E p, q \in DOMAIN tree : ScriptCopyDir(p, q)
  BY <1>4, ScriptCopyDirStep
<1>5. CASE \E p, q \in DOMAIN tree, n \in Names : ScriptCopyFile(p, Append(q, n))
  BY <1>5, ScriptCopyFileStep
<1> QED BY <1>1, <1>2, <1>3, <1>4, <1>5 DEF Next

-----------------------------------------------------------------------------
(* The volume stays a tree, and the types.                                 *)
LEMMA CreateFacts ==
  ASSUME IsTree(tree), NEW w \in Seq(Names), CanCreate(w)
  PROVE  w \in Path /\ w # <<>> /\ IsDir(Front(w)) /\ ~IsDir(w)
<1>1. CASE CanMake(w)
  <2>1. w \in Path
    BY <1>1, PathDef, BoundsAssumption DEF CanMake
  <2>2. w # <<>>
    BY <1>1, EmptySeq, BoundsAssumption DEF CanMake
  <2> QED BY <1>1, <2>1, <2>2 DEF CanMake, IsDir
<1>2. CASE IsFile(w)
  <2>1. w \in DOMAIN tree /\ ~tree[w].dir
    BY <1>2 DEF IsFile, Exists
  <2> QED BY <2>1 DEF IsTree, IsDir, Exists
<1> QED BY <1>1, <1>2 DEF CanCreate

LEMMA ChildBelow ==
  ASSUME IsTree(tree), NEW p, NEW q \in DOMAIN tree \ {<<>>}, Front(q) = p
  PROVE  IsDir(p) /\ q \in Below(p)
<1>1. q \in Seq(Names)
  BY PathDef DEF IsTree
<1>2. p \in Seq(Names) /\ Last(q) \in Names /\ q = Append(p, Last(q)) /\ Len(p) = Len(q) - 1
      /\ Len(q) \in Nat
  BY <1>1, FrontLast
<1>3. IsPrefix(p, q) /\ p # q
  <2>1. IsPrefix(p, Append(p, Last(q)))
    BY <1>2, AppendFacts
  <2>2. Len(p) # Len(q)
    BY <1>2
  <2> QED BY <1>2, <2>1, <2>2
<1> QED BY <1>3 DEF IsDir, Exists, IsTree, Below, IsStrictPrefix

LEMMA EffectTree ==
  ASSUME IsTree(tree), Effect, call'.src \in Seq(Names), call'.dst \in Seq(Names)
  PROVE  IsTree(tree')
<1>1. CASE tree' = tree
  BY <1>1
<1>2. CASE CopyEffect
  <2>1. PICK s \in DOMAIN tree :
          /\ IsPrefix(call'.src, s) /\ CanCreate(Carried(s, call'.src, call'.dst))
          /\ \/ \E e \in Entry : tree' = With(Carried(s, call'.src, call'.dst), e)
             \/ tree' = Without(Carried(s, call'.src, call'.dst))
    BY <1>2 DEF CopyEffect
  <2> DEFINE w == Carried(s, call'.src, call'.dst)
  <2>2. s \in Seq(Names)
    BY PathDef DEF IsTree
  <2>3. w \in Seq(Names)
    BY <2>1, <2>2, CarriedFacts
  <2>4. CanCreate(w) /\ ((\E e \in Entry : tree' = With(w, e)) \/ tree' = Without(w))
    BY <2>1
  <2> HIDE DEF w
  <2>5. w \in Path /\ w # <<>> /\ IsDir(Front(w)) /\ ~IsDir(w)
    BY <2>3, <2>4, CreateFacts
  <2>6. \A q \in DOMAIN tree \ {<<>>} : Front(q) # w
    BY <2>5, ChildBelow
  <2> QED BY <2>4, <2>5, <2>6, PutTree, DropTree
<1>3. CASE DeleteEffect
  <2>1. PICK w \in DOMAIN tree : CanUnlink(w) /\ tree' = Without(w)
    BY <1>3 DEF DeleteEffect
  <2>2. w # <<>> /\ Below(w) = {}
    BY <2>1 DEF CanUnlink
  <2>3. \A q \in DOMAIN tree \ {<<>>} : Front(q) # w
    BY <2>2, ChildBelow
  <2> QED BY <2>1, <2>2, <2>3, DropTree
<1>4. CASE MoveEffect
  BY <1>4, RenamedTree DEF MoveEffect
<1> QED BY <1>1, <1>2, <1>3, <1>4 DEF Effect

LEMMA FramingLinks ==
  ASSUME Shape, Framing, CallKept \/ CallMade
  PROVE  /\ frames' \in Seq(FrameSet) /\ Links(frames', call')
         /\ frames' # <<>> => call'.op \in {"copyfolder", "delete"}
<1>1. /\ call \in CallSet /\ frames \in Seq(FrameSet) /\ Links(frames, call)
      /\ frames # <<>> => call.op \in {"copyfolder", "delete"}
      /\ IsTree(tree)
  BY DEF Shape
<1>2. call' \in CallSet /\ (frames # <<>> => call' = call)
  BY <1>1 DEF CallKept, CallMade
<1>3. CASE frames' = frames
  <2>1. CASE frames = <<>>
    <3>1. frames' = <<>> /\ Len(frames') = 0
      BY <1>3, <2>1, EmptySeq
    <3>2. 1 .. Len(frames') = {} /\ 1 .. Len(frames') - 1 = {}
      BY <3>1
    <3>3. Links(frames', call')
      BY <3>2 DEF Links
    <3> QED BY <1>1, <1>3, <3>1, <3>3
  <2>2. CASE frames # <<>>
    BY <1>1, <1>2, <1>3, <2>2
  <2> QED BY <2>1, <2>2
<1>4. CASE frames # <<>> /\ frames' = Front(frames)
  BY <1>1, <1>2, <1>4, LinksPop
<1>5. ASSUME frames # <<>>, NEW e \in Top.todo, frames' = Rest(e)
      PROVE  frames' \in Seq(FrameSet) /\ Links(frames', call')
  BY <1>1, <1>2, <1>5, LinksRest DEF Rest, Taken, Top
<1>6. ASSUME frames # <<>>, NEW e \in Top.todo, frames' = Descent(e)
      PROVE  frames' \in Seq(FrameSet) /\ Links(frames', call')
  <2> DEFINE gs == Rest(e)
             s  == Append(Top.src, e.name)
             l  == Listing(s)
             f  == Frame(Top.op, s, Append(Top.dst, e.name), l)
  <2>1. /\ gs \in Seq(FrameSet) /\ Links(gs, call) /\ Len(gs) = Len(frames)
        /\ Len(frames) \in Nat \ {0}
        /\ gs[Len(frames)] = [frames[Len(frames)] EXCEPT !.todo = @ \ {e}]
    BY <1>1, <1>6, LinksRest DEF Rest, Taken, Top
  <2>2. /\ Top \in FrameSet /\ Top = frames[Len(frames)] /\ e.name \in Names
    BY <1>6, TopFacts DEF Items
  <2> HIDE DEF gs
  <2>3. /\ gs[Len(gs)].op = Top.op /\ gs[Len(gs)].src = Top.src /\ gs[Len(gs)].dst = Top.dst
    <3>1. gs[Len(gs)] = [Top EXCEPT !.todo = @ \ {e}]
      BY <2>1, <2>2
    <3> QED BY <2>2, <3>1 DEF FrameSet
  <2>4. gs # <<>>
    BY <2>1, EmptySeq
  <2>5. s \in Seq(Names)
    BY <1>6, ItemFacts
  <2>6. l \in SUBSET Items
    BY <1>1, <2>5, ListingItems
  <2> HIDE DEF l
  <2>7. Append(gs, f) \in Seq(FrameSet) /\ Links(Append(gs, f), call)
    BY <1>1, <2>1, <2>2, <2>3, <2>4, <2>6, LinksPush
  <2>8. frames' = Append(gs, f)
    BY <1>6 DEF Descent, gs, l
  <2> QED BY <1>2, <1>6, <2>7, <2>8
<1>7. CASE /\ CallMade /\ call'.op \in {"copyfolder", "delete"}
           /\ frames' = Append(<<>>, Frame(LoopOf(call'.op), call'.src, call'.dst,
                                           Listing(call'.src)))
  <2>1. call'.src \in Seq(Names)
    BY <1>2 DEF CallSet
  <2>2. Listing(call'.src) \in SUBSET Items
    BY <1>1, <2>1, ListingItems
  <2> QED BY <1>2, <1>7, <2>2, LinksStart
<1> QED BY <1>1, <1>2, <1>3, <1>4, <1>5, <1>6, <1>7 DEF Framing

LEMMA SteppedShape ==
  ASSUME Shape, Stepped
  PROVE  Shape'
<1>1. /\ IsTree(tree) /\ clip \in [mode : Modes, src : Path]
      /\ clip.mode # "none" => clip.src # <<>>
      /\ call \in CallSet /\ (call.op \in {"delete", "unlink"} => call.dst = call.src)
  BY DEF Shape
<1>2. call'.op \in {"delete", "unlink"} => call'.dst = call'.src
  BY <1>1 DEF Stepped, CallKept, CallMade
<1>3. call' \in CallSet
  BY <1>1 DEF Stepped, CallKept, CallMade
<1>4. IsTree(tree') /\ IsTree(before')
  <2>1. IsTree(tree')
    BY <1>1, <1>3, EffectTree DEF Stepped, CallSet
  <2>2. IsTree(before')
    BY DEF Stepped, CallKept, CallMade, Shape
  <2> QED BY <2>1, <2>2
<1>5. /\ frames' \in Seq(FrameSet) /\ Links(frames', call')
      /\ frames' # <<>> => call'.op \in {"copyfolder", "delete"}
  BY FramingLinks DEF Stepped
<1>6. clip' \in [mode : Modes, src : Path] /\ (clip'.mode # "none" => clip'.src # <<>>)
  <2>1. CASE clip' = clip
    BY <1>1, <2>1
  <2>2. CASE clip' = NoClip
    <3>1. <<>> \in Path
      BY <1>1 DEF IsTree
    <3> QED BY <2>2, <3>1 DEF NoClip, Modes
  <2>3. CASE \E p \in DOMAIN tree \ {<<>>}, mode \in Modes : clip' = [mode |-> mode, src |-> p]
    BY <1>1, <2>3 DEF IsTree
  <2> QED BY <2>1, <2>2, <2>3 DEF Stepped
<1> QED BY <1>2, <1>3, <1>4, <1>5, <1>6 DEF Shape, Stepped, Counting

LEMMA ShapeInit ==
  ASSUME Init
  PROVE  Shape
<1>1. IsTree(tree) /\ IsTree(before)
  BY TreesAssumption DEF Init
<1>2. <<>> \in Path /\ <<>> \in Seq(Names) /\ frames = <<>> /\ Len(frames) = 0
  BY <1>1, EmptySeq DEF Init, IsTree
<1>3. frames \in Seq(FrameSet)
  BY <1>2, EmptySeq
<1>4. 1 .. Len(frames) = {} /\ 1 .. Len(frames) - 1 = {}
  BY <1>2
<1>5. Links(frames, call)
  BY <1>4 DEF Links
<1>6. faults \in 0 .. MaxFaults /\ calls \in 0 .. MaxCalls
  BY BoundsAssumption DEF Init
<1>7. call \in CallSet /\ call.op = "none"
  BY <1>2 DEF Init, NoCall, CallSet
<1>8. clip \in [mode : Modes, src : Path] /\ clip.mode = "none" /\ ret \in Results
  BY <1>2 DEF Init, NoClip, Modes, Results
<1> QED BY <1>1, <1>2, <1>3, <1>5, <1>6, <1>7, <1>8 DEF Shape, Counting

LEMMA ShapeNext ==
  ASSUME Shape, [Next]_vars
  PROVE  Shape'
<1>1. CASE Next
  BY <1>1, NextStep, SteppedShape
<1>2. CASE UNCHANGED vars
  BY <1>2 DEF vars, Shape, Counting
<1> QED BY <1>1, <1>2

LEMMA Shaped == Spec => []Shape
<1>1. Init => Shape
  BY ShapeInit
<1>2. Shape /\ [Next]_vars => Shape'
  BY ShapeNext
<1> QED BY <1>1, <1>2, PTL DEF Spec

LEMMA ShapeTypes ==
  ASSUME Shape
  PROVE  TypeOK
<1>1. /\ call.src \in Seq(Names) /\ call.dst \in Seq(Names) /\ Len(call.src) \in Nat
      /\ frames \in Seq(FrameSet) /\ Links(frames, call)
  BY LenProperties DEF Shape, CallSet
<1>2. Len(frames) \in Nat /\ frames \in [1 .. Len(frames) -> FrameSet]
  BY <1>1, LenProperties
<1>3. ASSUME NEW i \in 1 .. Len(frames)
      PROVE  /\ frames[i].src \in Seq(Names) /\ IsPrefix(call.src, frames[i].src)
             /\ Len(frames[i].src) = Len(call.src) + (i - 1)
             /\ frames[i].dst = Carried(frames[i].src, call.src, call.dst)
  <2>1. frames[i] \in FrameSet
    BY <1>2
  <2> QED BY <1>1, <2>1 DEF Links, FrameSet
<1>4. ASSUME NEW i \in 1 .. Len(frames), i = 1
      PROVE  frames[i].src = call.src /\ frames[i].dst = call.dst
  <2>1. Len(frames[i].src) = Len(call.src)
    BY <1>1, <1>3, <1>4
  <2>2. frames[i].src = call.src
    BY <1>1, <1>3, <2>1, PrefixFacts
  <2> QED BY <1>1, <1>3, <2>2, CarriedFacts
<1>5. ASSUME NEW i \in 1 .. Len(frames), i # 1
      PROVE  \E n \in Names : /\ frames[i].src = Append(frames[i - 1].src, n)
                              /\ frames[i].dst = Append(frames[i - 1].dst, n)
  <2> DEFINE j == i - 1
  <2>1. j \in 1 .. Len(frames) /\ j \in 1 .. Len(frames) - 1 /\ j + 1 = i
    BY <1>2, <1>5
  <2> HIDE DEF j
  <2>2. PICK n \in Names : frames[j + 1].src = Append(frames[j].src, n)
    BY <1>1, <2>1 DEF Links
  <2>3. frames[i].src = Append(frames[j].src, n)
    BY <2>1, <2>2
  <2>4. Carried(Append(frames[j].src, n), call.src, call.dst)
          = Append(Carried(frames[j].src, call.src, call.dst), n)
    BY <1>1, <1>3, <2>1, CarriedAppend
  <2>5. frames[i].dst = Append(frames[j].dst, n)
    BY <1>3, <2>1, <2>3, <2>4
  <2> QED BY <2>3, <2>5 DEF j
<1> QED BY <1>4, <1>5 DEF TypeOK, Shape, Counting

(* The volume stays a tree, whatever is copied onto, moved below or        *)
(* removed from under what, wherever an access fails: and the recursion    *)
(* goes down the source and the destination side by side (fscopy.c).       *)
THEOREM TreeStaysATree == Spec => []TypeOK
BY Shaped, ShapeTypes, PTL

-----------------------------------------------------------------------------
(* After an error a call changes nothing any more and hands the error to   *)
(* its caller (the conditions on ret.err in fscopy.c).                     *)
THEOREM TheFirstErrorStops == Spec => StopsAtFirstError
<1>1. ASSUME Next, frames # <<>>, ret # "ok"
      PROVE  tree' = tree /\ ret' = ret
  <2>1. CASE CopyDone
    BY <1>1, <2>1 DEF CopyDone, Stays
  <2>2. CASE DeleteDone
    BY <1>1, <2>2 DEF DeleteDone, Stays
  <2>3. ~CopyFile /\ ~CopySub /\ ~DeleteFile /\ ~DeleteSub
    BY <1>1 DEF CopyFile, CopySub, DeleteFile, DeleteSub, Turn
  <2>4. \A mode, p : ~Pick(mode, p)
    BY <1>1 DEF Pick
  <2>5. \A p, q : /\ ~Paste(p) /\ ~DeleteFolder(p) /\ ~UnlinkOne(p)
                  /\ ~ScriptCopyDir(p, q) /\ ~ScriptCopyFile(p, q)
    BY <1>1 DEF Paste, DeleteFolder, UnlinkOne, ScriptCopyDir, ScriptCopyFile, Call
  <2> QED BY <1>1, <2>1, <2>2, <2>3, <2>4, <2>5 DEF Next, Step
<1>2. [Next]_vars => [frames # <<>> /\ ret # "ok" => UNCHANGED tree /\ ret' = ret]_vars
  BY <1>1
<1> QED BY <1>2, PTL DEF Spec, StopsAtFirstError

-----------------------------------------------------------------------------
(* What a call may change of a volume b.                                   *)
Permitted(p, c, b) ==
  \/ c.op \in MoveModes /\ IsPrefix(c.src, p)
  \/ /\ IsPrefix(c.dst, p)
     /\ c.op \in {"copy", "copyfolder"} /\ Apart(c.src, c.dst)
          => Carried(p, c.dst, c.src) \in DOMAIN b

Change(t, u, c, b) ==
  \A p \in DOMAIN t \cup DOMAIN u :
    \/ p \in DOMAIN u /\ p \in DOMAIN t /\ u[p] = t[p]
    \/ Permitted(p, c, b)

LEMMA ChangeTwice ==
  ASSUME NEW t, NEW u, NEW v, NEW c, NEW b, Change(t, u, c, b), Change(u, v, c, b)
  PROVE  Change(t, v, c, b)
BY DEF Change

(* A copy that is apart from its source leaves the source as it is.        *)
LEMMA SourceStays ==
  ASSUME NEW t, NEW b, NEW c \in CallSet, Change(b, t, c, b),
         c.op \in {"copy", "copyfolder"}, Apart(c.src, c.dst),
         NEW s \in Seq(Names), IsPrefix(c.src, s)
  PROVE  (s \in DOMAIN t <=> s \in DOMAIN b) /\ (s \in DOMAIN t => t[s] = b[s])
<1>1. c.src \in Seq(Names) /\ c.dst \in Seq(Names) /\ Len(c.src) \in Nat /\ Len(c.dst) \in Nat
  BY LenProperties DEF CallSet
<1>2. ~IsPrefix(c.dst, s)
  BY <1>1, PrefixFacts DEF Apart
<1>3. ~Permitted(s, c, b)
  BY <1>2 DEF Permitted, MoveModes
<1> QED BY <1>3 DEF Change

LEMMA EffectChange ==
  ASSUME IsTree(tree), Effect, call' \in CallSet,
         call'.op \in {"delete", "unlink"} => call'.dst = call'.src,
         Change(before', tree, call', before')
  PROVE  Change(tree, tree', call', before')
<1>1. call'.src \in Seq(Names) /\ call'.dst \in Seq(Names)
  BY DEF CallSet
<1>2. CASE tree' = tree
  BY <1>2 DEF Change
<1>3. CASE CopyEffect
  <2>1. PICK s \in DOMAIN tree :
          /\ IsPrefix(call'.src, s)
          /\ \/ \E e \in Entry : tree' = With(Carried(s, call'.src, call'.dst), e)
             \/ tree' = Without(Carried(s, call'.src, call'.dst))
    BY <1>3 DEF CopyEffect
  <2> DEFINE w == Carried(s, call'.src, call'.dst)
  <2>2. s \in Seq(Names)
    BY PathDef DEF IsTree
  <2>3. w \in Seq(Names) /\ IsPrefix(call'.dst, w) /\ Carried(w, call'.dst, call'.src) = s
    BY <1>1, <2>1, <2>2, CarriedFacts
  <2>4. Apart(call'.src, call'.dst) => s \in DOMAIN before'
    BY <1>3, <2>1, <2>2, SourceStays DEF CopyEffect
  <2>5. Permitted(w, call', before')
    BY <2>3, <2>4 DEF Permitted
  <2>6. (\E e \in Entry : tree' = With(w, e)) \/ tree' = Without(w)
    BY <2>1
  <2> HIDE DEF w
  <2>7. ASSUME NEW p \in DOMAIN tree \cup DOMAIN tree', p # w
        PROVE  p \in DOMAIN tree' /\ p \in DOMAIN tree /\ tree'[p] = tree[p]
    BY <2>6, <2>7 DEF With, Without
  <2> QED BY <2>5, <2>7 DEF Change
<1>4. CASE DeleteEffect
  <2>1. PICK w \in DOMAIN tree : IsPrefix(call'.src, w) /\ tree' = Without(w)
    BY <1>4 DEF DeleteEffect
  <2>2. Permitted(w, call', before')
    BY <1>4, <2>1 DEF Permitted, DeleteEffect
  <2>3. ASSUME NEW p \in DOMAIN tree \cup DOMAIN tree', p # w
        PROVE  p \in DOMAIN tree' /\ p \in DOMAIN tree /\ tree'[p] = tree[p]
    BY <2>1, <2>3 DEF Without
  <2> QED BY <2>2, <2>3 DEF Change
<1>5. CASE MoveEffect
  <2> DEFINE src == call'.src
             dst == call'.dst
  <2>1. /\ \A q \in DOMAIN tree : ~IsPrefix(src, q) => q \in DOMAIN tree' /\ tree'[q] = tree[q]
        /\ \A q \in DOMAIN tree' :
             \/ q \in DOMAIN tree /\ ~IsPrefix(src, q)
             \/ \E p \in DOMAIN tree : IsPrefix(src, p) /\ q = Carried(p, src, dst)
    BY <1>1, <1>5, RenamedFacts DEF MoveEffect
  <2>2. call'.op \in MoveModes /\ call'.op \notin {"copy", "copyfolder"}
    BY <1>5 DEF MoveEffect, MoveModes
  <2>3. ASSUME NEW p \in DOMAIN tree, IsPrefix(src, p)
        PROVE  Permitted(Carried(p, src, dst), call', before')
    <3>1. p \in Seq(Names)
      BY PathDef DEF IsTree
    <3>2. IsPrefix(dst, Carried(p, src, dst))
      BY <1>1, <2>3, <3>1, CarriedFacts
    <3> QED BY <2>2, <3>2 DEF Permitted
  <2>4. ASSUME NEW p \in DOMAIN tree \cup DOMAIN tree'
        PROVE  \/ p \in DOMAIN tree' /\ p \in DOMAIN tree /\ tree'[p] = tree[p]
               \/ Permitted(p, call', before')
    <3>1. CASE p \in DOMAIN tree /\ ~IsPrefix(src, p)
      BY <2>1, <3>1
    <3>2. CASE p \in DOMAIN tree /\ IsPrefix(src, p)
      BY <2>2, <3>2 DEF Permitted
    <3>3. CASE p \notin DOMAIN tree
      BY <2>1, <2>3, <3>3
    <3> QED BY <3>1, <3>2, <3>3
  <2> QED BY <2>4 DEF Change
<1> QED BY <1>2, <1>3, <1>4, <1>5 DEF Effect

Kept == Change(before, tree, call, before)

LEMMA KeptNext ==
  ASSUME Shape, Kept, [Next]_vars
  PROVE  Kept'
<1>1. CASE UNCHANGED vars
  BY <1>1 DEF vars, Kept, Change, Permitted, Apart
<1>2. CASE Next
  <2>1. Stepped
    BY <1>2, NextStep
  <2>2. /\ call' \in CallSet /\ IsTree(tree)
        /\ call'.op \in {"delete", "unlink"} => call'.dst = call'.src
    BY <1>2, ShapeNext DEF Shape
  <2>3. Change(before', tree, call', before')
    <3>1. CASE CallKept
      BY <3>1 DEF CallKept, Kept
    <3>2. CASE CallMade
      BY <3>2 DEF CallMade, Change
    <3> QED BY <2>1, <3>1, <3>2 DEF Stepped
  <2>4. Change(tree, tree', call', before')
    BY <2>1, <2>2, <2>3, EffectChange DEF Stepped
  <2>5. Change(before', tree', call', before')
    BY <2>3, <2>4, ChangeTwice
  <2> QED BY <2>5 DEF Kept
<1> QED BY <1>1, <1>2

LEMMA Keeping == Spec => []Kept
<1>1. Init => Kept
  BY DEF Init, Kept, Change
<1>2. Shape /\ Kept /\ [Next]_vars => Kept'
  BY KeptNext
<1> QED BY <1>1, <1>2, Shaped, PTL DEF Spec

(* Whatever a call changes is at the place it was given, and a copy that   *)
(* is apart from its source changes there only what the source has too, at *)
(* every depth and wherever it ends (fsutils.c 9-18, fscopy.c 104-128).    *)
THEOREM OnlyTheTargetChanges == Spec => []OnlyTargetChanges
<1>1. Kept => OnlyTargetChanges
  BY DEF Kept, Change, Permitted, OnlyTargetChanges, Exists
<1> QED BY <1>1, Keeping, PTL

-----------------------------------------------------------------------------
(* A deletion takes only what is not read-only, and the folder last.       *)
Remains ==
  call.op = "delete" =>
    /\ \A p \in DOMAIN tree : p \in DOMAIN before /\ tree[p] = before[p]
    /\ \A p \in DOMAIN before : before[p].ro => p \in DOMAIN tree

Removed ==
  call.op = "delete" /\ frames = <<>> /\ ret = "ok" =>
    ~\E p \in DOMAIN tree : IsPrefix(call.src, p)

LEMMA RemainsNext ==
  ASSUME Shape, Remains, [Next]_vars
  PROVE  Remains'
<1>1. CASE UNCHANGED vars
  BY <1>1 DEF vars, Remains
<1>2. CASE Next
  <2> SUFFICES ASSUME call'.op = "delete"
               PROVE  /\ \A p \in DOMAIN tree' : p \in DOMAIN before' /\ tree'[p] = before'[p]
                      /\ \A p \in DOMAIN before' : before'[p].ro => p \in DOMAIN tree'
    BY DEF Remains
  <2>1. Stepped
    BY <1>2, NextStep
  <2>2. /\ \A p \in DOMAIN tree : p \in DOMAIN before' /\ tree[p] = before'[p]
        /\ \A p \in DOMAIN before' : before'[p].ro => p \in DOMAIN tree
    BY <2>1 DEF Stepped, CallKept, CallMade, Remains
  <2>3. tree' = tree \/ DeleteEffect
    BY <2>1 DEF Stepped, Effect, CopyEffect, MoveEffect, MoveModes
  <2>4. CASE tree' = tree
    BY <2>2, <2>4
  <2>5. CASE DeleteEffect
    <3>1. PICK w \in DOMAIN tree : ~tree[w].ro /\ tree' = Without(w)
      BY <2>5 DEF DeleteEffect, CanUnlink
    <3> QED BY <2>2, <3>1 DEF Without
  <2> QED BY <2>3, <2>4, <2>5
<1> QED BY <1>1, <1>2

LEMMA RestGoesOn ==
  ASSUME Shape, frames # <<>>, NEW e, NEW f
  PROVE  Rest(e) # <<>> /\ Append(Rest(e), f) # <<>>
<1> DEFINE gs == Rest(e)
<1>1. call \in CallSet /\ frames \in Seq(FrameSet) /\ Links(frames, call)
  BY DEF Shape
<1>2. gs \in Seq(FrameSet) /\ Len(gs) = Len(frames) /\ Len(frames) \in Nat \ {0}
  BY <1>1, LinksRest DEF Rest, Taken, Top
<1> HIDE DEF gs
<1>3. gs # <<>>
  BY <1>2, EmptySeq
<1>4. Append(gs, f) # <<>>
  <2>1. gs \in Seq(FrameSet \cup {f}) /\ f \in FrameSet \cup {f}
    BY <1>2
  <2> QED BY <2>1, AppendProperties
<1> QED BY <1>3, <1>4 DEF gs

LEMMA RemovedNext ==
  ASSUME Shape, Removed, [Next]_vars
  PROVE  Removed'
<1>1. CASE UNCHANGED vars
  BY <1>1 DEF vars, Removed
<1>2. ASSUME Next, call'.op = "delete", frames' = <<>>, ret' = "ok"
      PROVE  ~\E p \in DOMAIN tree' : IsPrefix(call'.src, p)
  <2>1. frames # <<>> => call.op \in {"copyfolder", "delete"} /\ Top.op = LoopOf(call.op)
    BY TopFacts DEF Shape
  <2>2. CASE CopyFile \/ CopySub \/ CopyDone
    BY <1>2, <2>1, <2>2 DEF CopyFile, CopySub, CopyDone, Turn, InLoop, Same, LoopOf
  <2>3. CASE DeleteFile
    BY <1>2, <2>3, RestGoesOn DEF DeleteFile, Turn, InLoop
  <2>4. CASE DeleteSub
    <3>1. PICK e \in Top.todo : EnterDelete(Append(Top.src, e.name), Rest(e))
      BY <2>4 DEF DeleteSub
    <3> QED BY <1>2, <2>4, <3>1, RestGoesOn DEF EnterDelete, DeleteSub, Turn, InLoop
  <2>5. CASE DeleteDone
    <3>1. frames # <<>> /\ frames' = Front(frames) /\ call' = call
      BY <2>5 DEF DeleteDone, InLoop, Same
    <3>2. frames \in Seq(FrameSet) /\ Links(frames, call) /\ call \in CallSet
      BY DEF Shape
    <3>3. Len(frames) = 1
      BY <1>2, <3>1, <3>2, LinksPop
    <3>4. /\ Top.src \in Seq(Names) /\ call.src \in Seq(Names) /\ Len(call.src) \in Nat
          /\ IsPrefix(call.src, Top.src) /\ Len(Top.src) = Len(call.src) + (Len(frames) - 1)
      BY <3>1, <3>2, TopFacts, LenProperties DEF CallSet
    <3>5. Len(Top.src) = Len(call.src)
      BY <3>3, <3>4
    <3>6. Top.src = call.src
      BY <3>4, <3>5, PrefixFacts
    <3>7. CanUnlink(Top.src) /\ tree' = Without(Top.src)
      <4>1. Unlink(Top.src)
        BY <1>2, <2>5 DEF DeleteDone, Stays
      <4> QED BY <1>2, <4>1, UnlinkOutcome DEF Shape
    <3> QED BY <3>1, <3>6, <3>7 DEF CanUnlink, Without, Below, IsStrictPrefix
  <2>6. CASE \E p \in DOMAIN tree : \E mode \in Modes \ {"none"} : Pick(mode, p)
    BY <1>2, <2>6 DEF Pick, Same, Removed
  <2>7. ASSUME NEW p \in DOMAIN tree, Paste(p) PROVE FALSE
    BY <1>2, <2>7 DEF Paste, Call, Shape, Modes
  <2>8. ASSUME NEW p \in DOMAIN tree, DeleteFolder(p) PROVE FALSE
    <3>1. EnterDelete(p, <<>>)
      BY <2>8 DEF DeleteFolder
    <3>2. \A f : Append(<<>>, f) # <<>>
      <4> TAKE f
      <4>1. <<>> \in Seq({f}) /\ f \in {f}
        BY EmptySeq
      <4> QED BY <4>1, AppendProperties
    <3> QED BY <1>2, <3>1, <3>2 DEF EnterDelete, Stays
  <2>9. ASSUME NEW p \in DOMAIN tree, UnlinkOne(p) PROVE FALSE
    BY <1>2, <2>9 DEF UnlinkOne, Call
  <2>10. ASSUME NEW p, NEW q, ScriptCopyDir(p, q) PROVE FALSE
    BY <1>2, <2>10 DEF ScriptCopyDir, Call
  <2>11. ASSUME NEW p, NEW q, ScriptCopyFile(p, q) PROVE FALSE
    BY <1>2, <2>11 DEF ScriptCopyFile, Call
  <2> QED
    BY <1>2, <2>2, <2>3, <2>4, <2>5, <2>6, <2>7, <2>8, <2>9, <2>10, <2>11 DEF Next, Step
<1> QED BY <1>1, <1>2 DEF Removed

(* FolderDelete that returns 0 has removed everything, and nothing that is *)
(* read-only ever goes (fscopy.c 152-190).                                 *)
THEOREM ADeletionIsWhole == Spec => []DeleteIsWhole
<1>1. Init => Remains /\ Removed
  BY DEF Init, NoCall, Remains, Removed
<1>2. Shape /\ (Remains /\ Removed) /\ [Next]_vars => (Remains /\ Removed)'
  BY RemainsNext, RemovedNext
<1>3. Remains /\ Removed => DeleteIsWhole
  BY DEF Remains, Removed, DeleteIsWhole, Over, Exists
<1> QED BY <1>1, <1>2, <1>3, Shaped, PTL DEF Spec

-----------------------------------------------------------------------------
(* The recursion is bounded by the folder it was called for.               *)
Aside(c) == c.src = c.dst \/ ~IsPrefix(c.src, c.dst)

(* Under the source there was something n names deep.                      *)
Deep(n, c, b) == \E p \in DOMAIN b : IsPrefix(c.src, p) /\ n <= Len(p)

Bounded ==
  frames # <<>> =>
    /\ Aside(call)
    /\ \A q \in DOMAIN tree : IsPrefix(call.src, q) => Deep(Len(q), call, before)
    /\ Deep(Len(call.src) + (Len(frames) - 1), call, before)

LEMMA PrefixStarts ==
  ASSUME NEW p \in Seq(Names), NEW q \in Seq(Names), IsPrefix(p, q)
  PROVE  StartsWith(q, p)
<1>1. /\ Len(p) \in Nat /\ p \in [1 .. Len(p) -> Names] /\ Len(p) <= Len(q)
      /\ \A i \in 1 .. Len(p) : p[i] = q[i]
  BY LenProperties, PrefixDef
<1>2. \A i \in 1 .. Len(p) : <<p[i], q[i]>> \in NameStarts
  BY <1>1, NamesAssumption
<1> QED BY <1>1, <1>2 DEF StartsWith

(* Only three calls have frames, and none goes from a folder into itself.  *)
LEMMA StartsAside ==
  ASSUME Shape, Next, frames = <<>>, frames' # <<>>, ~ScriptsOverlap
  PROVE  Aside(call')
<1>1. ASSUME NEW at \in DOMAIN tree, Paste(at) PROVE Aside(call')
  <2> DEFINE src == clip.src
             dst == Append(at, Last(src))
  <2>1. call'.src = src /\ call'.dst = dst /\ clip.mode # "none"
    BY <1>1 DEF Paste, Call
  <2>2. clip.mode = "copyfolder" /\ ~Refuses(src, dst)
    BY <1>1 DEF Paste
  <2>3. src \in Seq(Names) /\ src # <<>> /\ at \in Seq(Names)
    BY <2>1, PathDef DEF Shape, IsTree
  <2>4. dst \in Seq(Names)
    BY <2>3, FrontLast, AppendFacts
  <2> HIDE DEF dst
  <2>5. ~StartsWith(dst, src)
    BY <2>2 DEF Refuses, FolderModes
  <2> QED BY <2>1, <2>3, <2>4, <2>5, PrefixStarts DEF Aside
<1>2. ASSUME NEW p \in DOMAIN tree, DeleteFolder(p) PROVE Aside(call')
  BY <1>2 DEF DeleteFolder, Call, Aside
<1>3. ASSUME NEW p \in DOMAIN tree, UnlinkOne(p) PROVE FALSE
  BY <1>3 DEF UnlinkOne
<1>4. ASSUME NEW src \in DOMAIN tree, NEW at \in DOMAIN tree, ScriptCopyDir(src, at)
      PROVE  Aside(call')
  <2> DEFINE dst == Append(at, Last(src))
  <2>1. call'.src = src /\ call'.dst = dst /\ ~IsPrefix(src, at) /\ src # <<>>
    BY <1>4 DEF ScriptCopyDir, Call
  <2>2. src \in Seq(Names) /\ at \in Seq(Names)
    BY PathDef DEF Shape, IsTree
  <2>3. Last(src) \in Names
    BY <2>1, <2>2, FrontLast
  <2>4. IsPrefix(src, dst) => src = dst
    BY <2>1, <2>2, <2>3, PrefixOfAppend
  <2> QED BY <2>1, <2>4 DEF Aside
<1>5. ASSUME NEW p, NEW q, ScriptCopyFile(p, q) PROVE FALSE
  BY <1>5 DEF ScriptCopyFile
<1>6. ASSUME NEW mode, NEW p, Pick(mode, p) PROVE FALSE
  BY <1>6 DEF Pick
<1>7. ~Step
  BY DEF Step, CopyFile, CopySub, CopyDone, DeleteFile, DeleteSub, DeleteDone, Turn, InLoop
<1> QED BY <1>1, <1>2, <1>3, <1>4, <1>5, <1>6, <1>7 DEF Next

(* What a copy aside of its source writes under its source is no deeper    *)
(* than what it is written from.                                           *)
LEMMA CarriedShallow ==
  ASSUME NEW src \in Seq(Names), NEW dst \in Seq(Names), src = dst \/ ~IsPrefix(src, dst),
         NEW s \in Seq(Names), IsPrefix(src, s), IsPrefix(src, Carried(s, src, dst))
  PROVE  Len(Carried(s, src, dst)) <= Len(s)
<1> DEFINE w == Carried(s, src, dst)
<1>1. Len(src) \in Nat /\ Len(dst) \in Nat /\ Len(s) \in Nat
  BY LenProperties
<1>2. /\ w \in Seq(Names) /\ IsPrefix(dst, w) /\ IsPrefix(src, w)
      /\ Len(w) = Len(dst) + (Len(s) - Len(src))
  BY CarriedFacts
<1> HIDE DEF w
<1>3. CASE src = dst
  BY <1>1, <1>2, <1>3 DEF w
<1>4. CASE ~IsPrefix(src, dst)
  <2>1. ~(Len(src) <= Len(dst))
    BY <1>1, <1>2, <1>4, PrefixFacts
  <2>2. Len(w) <= Len(s)
    BY <1>1, <1>2, <2>1
  <2> QED BY <2>2 DEF w
<1> QED BY <1>3, <1>4

LEMMA EffectDeep ==
  ASSUME IsTree(tree), Effect, call' \in CallSet, call'.op \in {"copyfolder", "delete"},
         Aside(call'), IsTree(before'),
         \A q \in DOMAIN tree : IsPrefix(call'.src, q) => Deep(Len(q), call', before')
  PROVE  \A q \in DOMAIN tree' : IsPrefix(call'.src, q) => Deep(Len(q), call', before')
<1>1. CASE tree' = tree
  BY <1>1
<1>2. CASE CopyEffect
  <2>1. PICK s \in DOMAIN tree :
          /\ IsPrefix(call'.src, s)
          /\ \/ \E e \in Entry : tree' = With(Carried(s, call'.src, call'.dst), e)
             \/ tree' = Without(Carried(s, call'.src, call'.dst))
    BY <1>2 DEF CopyEffect
  <2> DEFINE w == Carried(s, call'.src, call'.dst)
  <2>2. s \in Seq(Names) /\ call'.src \in Seq(Names) /\ call'.dst \in Seq(Names)
    BY PathDef DEF IsTree, CallSet
  <2>3. w \in Seq(Names)
    BY <2>1, <2>2, CarriedFacts
  <2>4. IsPrefix(call'.src, w) => Len(w) <= Len(s)
    BY <2>1, <2>2, CarriedShallow DEF Aside
  <2>5. DOMAIN tree' \subseteq DOMAIN tree \cup {w}
    <3>1. (\E e \in Entry : tree' = With(w, e)) \/ tree' = Without(w)
      BY <2>1
    <3> HIDE DEF w
    <3> QED BY <3>1 DEF With, Without
  <2> HIDE DEF w
  <2>6. Deep(Len(s), call', before')
    BY <2>1
  <2>7. IsPrefix(call'.src, w) => Deep(Len(w), call', before')
    <3> SUFFICES ASSUME IsPrefix(call'.src, w) PROVE Deep(Len(w), call', before')
      OBVIOUS
    <3>1. PICK p \in DOMAIN before' : IsPrefix(call'.src, p) /\ Len(s) <= Len(p)
      BY <2>6 DEF Deep
    <3>2. Len(p) \in Nat /\ Len(s) \in Nat /\ Len(w) \in Nat
      BY <2>2, <2>3, PathDef, LenProperties DEF IsTree
    <3>3. Len(w) <= Len(p)
      BY <2>4, <3>1, <3>2
    <3> QED BY <3>1, <3>3 DEF Deep
  <2> QED BY <2>5, <2>7
<1>3. CASE DeleteEffect
  BY <1>3 DEF DeleteEffect, Without
<1>4. ~MoveEffect
  BY DEF MoveEffect, MoveModes
<1> QED BY <1>1, <1>2, <1>3, <1>4 DEF Effect

LEMMA BoundedNext ==
  ASSUME Shape, Bounded, [Next]_vars, ~ScriptsOverlap
  PROVE  Bounded'
<1>1. CASE UNCHANGED vars
  BY <1>1 DEF vars, Bounded, Aside, Deep
<1>2. CASE Next
  <2> SUFFICES ASSUME frames' # <<>>
               PROVE  /\ Aside(call')
                      /\ \A q \in DOMAIN tree' :
                           IsPrefix(call'.src, q) => Deep(Len(q), call', before')
                      /\ Deep(Len(call'.src) + (Len(frames') - 1), call', before')
    BY DEF Bounded
  <2>1. Stepped
    BY <1>2, NextStep
  <2>2. Shape'
    BY ShapeNext
  <2>3. /\ call' \in CallSet /\ call'.op \in {"copyfolder", "delete"}
        /\ IsTree(tree) /\ IsTree(before')
    BY <2>2 DEF Shape
  <2>4. \A q \in DOMAIN tree : q \in Seq(Names) /\ Len(q) \in Nat
    BY <2>3, PathDef, LenProperties DEF IsTree
  <2>5. call'.src \in Seq(Names) /\ Len(call'.src) \in Nat
    BY <2>3, LenProperties DEF CallSet
  <2>6. CASE frames = <<>>
    <3>1. /\ CallMade /\ IsDir(call'.src)
          /\ frames' = Append(<<>>, Frame(LoopOf(call'.op), call'.src, call'.dst,
                                          Listing(call'.src)))
      BY <2>1, <2>6 DEF Stepped, Framing
    <3>2. Aside(call')
      BY <1>2, <2>6, StartsAside
    <3>3. \A q \in DOMAIN tree : IsPrefix(call'.src, q) => Deep(Len(q), call', before')
      BY <2>4, <3>1 DEF CallMade, Deep
    <3>4. Len(frames') = 1
      <4> DEFINE f == Frame(LoopOf(call'.op), call'.src, call'.dst, Listing(call'.src))
      <4>1. <<>> \in Seq({f}) /\ f \in {f} /\ Len(<<>>) = 0
        BY EmptySeq
      <4> HIDE DEF f
      <4>2. Len(Append(<<>>, f)) = 1
        BY <4>1, AppendProperties
      <4> QED BY <3>1, <4>2 DEF f
    <3>5. Deep(Len(call'.src) + (Len(frames') - 1), call', before')
      <4>1. call'.src \in DOMAIN before' /\ IsPrefix(call'.src, call'.src)
        BY <2>5, <3>1, PrefixFacts DEF CallMade, IsDir, Exists
      <4>2. Len(call'.src) + (Len(frames') - 1) <= Len(call'.src)
        BY <2>5, <3>4
      <4> QED BY <4>1, <4>2 DEF Deep
    <3> QED BY <2>1, <2>3, <3>2, <3>3, <3>5, EffectDeep DEF Stepped
  <2>7. CASE frames # <<>>
    <3>1. call' = call /\ before' = before
      BY <2>1, <2>7 DEF Stepped, CallKept, CallMade
    <3>2. /\ Aside(call')
          /\ \A q \in DOMAIN tree : IsPrefix(call'.src, q) => Deep(Len(q), call', before')
          /\ Deep(Len(call.src) + (Len(frames) - 1), call', before')
      BY <2>7, <3>1 DEF Bounded
    <3>3. /\ call \in CallSet /\ frames \in Seq(FrameSet) /\ Links(frames, call)
          /\ Len(frames) \in Nat \ {0} /\ Len(frames') \in Nat
      BY <2>2, <2>7, TopFacts, LenProperties DEF Shape
    <3>4. CASE Len(frames') <= Len(frames)
      <4>1. PICK p \in DOMAIN before' : /\ IsPrefix(call'.src, p)
                                        /\ Len(call.src) + (Len(frames) - 1) <= Len(p)
        BY <3>2 DEF Deep
      <4>2. Len(p) \in Nat
        BY <2>3, PathDef, LenProperties DEF IsTree
      <4>3. Len(call'.src) + (Len(frames') - 1) <= Len(p)
        BY <2>5, <3>1, <3>3, <3>4, <4>1, <4>2
      <4>4. Deep(Len(call'.src) + (Len(frames') - 1), call', before')
        BY <4>1, <4>3 DEF Deep
      <4> QED BY <2>1, <2>3, <3>2, <4>4, EffectDeep DEF Stepped
    <3>5. ASSUME NEW e \in Top.todo, IsDir(Append(Top.src, e.name)), frames' = Descent(e)
          PROVE  Deep(Len(call'.src) + (Len(frames') - 1), call', before')
      <4> DEFINE s  == Append(Top.src, e.name)
                 gs == Rest(e)
                 f  == Frame(Top.op, s, Append(Top.dst, e.name), Listing(s))
      <4>1. s \in DOMAIN tree /\ IsPrefix(call'.src, s)
        BY <2>7, <3>1, <3>5, ItemFacts DEF IsDir, Exists
      <4>2. Len(s) = Len(Top.src) + 1 /\ Len(Top.src) = Len(call.src) + (Len(frames) - 1)
        <5>1. /\ Top.src \in Seq(Names) /\ e.name \in Names
              /\ Len(Top.src) = Len(call.src) + (Len(frames) - 1)
          BY <2>7, TopFacts DEF Items
        <5> QED BY <5>1, AppendFacts
      <4>3. gs \in Seq(FrameSet) /\ Len(gs) = Len(frames)
        BY <2>7, <3>3, LinksRest DEF Rest, Taken, Top
      <4>4. frames' = Append(gs, f)
        BY <3>5 DEF Descent
      <4> HIDE DEF gs, f, s
      <4>5. Len(frames') = Len(frames) + 1
        <5>1. gs \in Seq(FrameSet \cup {f}) /\ f \in FrameSet \cup {f}
          BY <4>3
        <5>2. Len(Append(gs, f)) = Len(gs) + 1
          BY <5>1, AppendProperties
        <5> QED BY <4>3, <4>4, <5>2
      <4>6. Len(call'.src) + (Len(frames') - 1) = Len(s)
        BY <2>5, <3>1, <3>3, <4>2, <4>5
      <4> QED BY <3>2, <4>1, <4>6
    <3>6. Len(frames') <= Len(frames)
            \/ \E e \in Top.todo : IsDir(Append(Top.src, e.name)) /\ frames' = Descent(e)
      <4>1. frames' = frames => Len(frames') <= Len(frames)
        BY <3>3
      <4>2. frames' = Front(frames) => Len(frames') <= Len(frames)
        BY <2>7, <3>3, FrontLast
      <4>3. ASSUME NEW e \in Top.todo, frames' = Rest(e) PROVE Len(frames') <= Len(frames)
        <5>1. Len(frames') = Len(frames)
          BY <2>7, <3>3, <4>3, LinksRest DEF Rest, Taken, Top
        <5> QED BY <3>3, <5>1
      <4> QED BY <2>1, <2>7, <4>1, <4>2, <4>3 DEF Stepped, Framing, CallMade
    <3>7. CASE \E e \in Top.todo : IsDir(Append(Top.src, e.name)) /\ frames' = Descent(e)
      BY <2>1, <2>3, <3>2, <3>5, <3>7, EffectDeep DEF Stepped
    <3> QED BY <3>4, <3>6, <3>7
  <2> QED BY <2>6, <2>7
<1> QED BY <1>1, <1>2

(* The recursion goes no deeper than the folder it was called for, if no   *)
(* script copies a folder into itself: what the copy makes is never below  *)
(* its source deeper than what it was made from (fscopy.c 95-98, 110).     *)
THEOREM TheRecursionIsBounded ==
  ASSUME ~ScriptsOverlap
  PROVE  Spec => []RecursionBounded
<1>1. Init => Bounded
  BY DEF Init, Bounded
<1>2. Shape /\ Bounded /\ [Next]_vars => Bounded'
  BY BoundedNext
<1>3. ASSUME Shape, Bounded PROVE RecursionBounded
  <2> SUFFICES ASSUME frames # <<>>
               PROVE  \E p \in DOMAIN before : /\ IsPrefix(call.src, p)
                                               /\ Len(frames) <= Len(p) - Len(call.src) + 1
    BY DEF RecursionBounded
  <2>1. PICK p \in DOMAIN before :
          IsPrefix(call.src, p) /\ Len(call.src) + (Len(frames) - 1) <= Len(p)
    BY <1>3 DEF Bounded, Deep
  <2>2. p \in Seq(Names) /\ call.src \in Seq(Names) /\ frames \in Seq(FrameSet)
    BY <1>3, PathDef DEF Shape, IsTree, CallSet
  <2>3. Len(p) \in Nat /\ Len(call.src) \in Nat /\ Len(frames) \in Nat
    BY <2>2, LenProperties
  <2>4. Len(frames) <= Len(p) - Len(call.src) + 1
    BY <2>1, <2>3
  <2> QED BY <2>1, <2>4
<1> QED BY <1>1, <1>2, <1>3, Shaped, PTL DEF Spec

-----------------------------------------------------------------------------
(* What a copy has brought so far.                                         *)
OneWhole(p, t, b, src, dst) ==
  /\ Carried(p, src, dst) \in DOMAIN t
  /\ ~b[p].dir => /\ ~t[Carried(p, src, dst)].dir
                  /\ t[Carried(p, src, dst)].data = b[p].data

AllWhole(q, t, b, src, dst) ==
  \A p \in DOMAIN b : IsPrefix(q, p) => OneWhole(p, t, b, src, dst)

(* Of every folder that is being copied, each entry is still to do, is     *)
(* being copied, or has been copied with all below it.                     *)
PendingAt(i, fs, t, b, src, dst) ==
  /\ fs[i].src \in DOMAIN b /\ b[fs[i].src].dir
  /\ \A n \in Names : Append(fs[i].src, n) \in DOMAIN b =>
       \/ [name |-> n, dir |-> b[Append(fs[i].src, n)].dir] \in fs[i].todo
       \/ \E j \in 1 .. Len(fs) : j = i + 1 /\ Append(fs[i].src, n) = fs[j].src
       \/ AllWhole(Append(fs[i].src, n), t, b, src, dst)

Pending(fs, t, b, src, dst) == \A i \in 1 .. Len(fs) : PendingAt(i, fs, t, b, src, dst)

(* A copy under way has lost nothing so far.                               *)
Progress ==
  call.op = "copyfolder" /\ Apart(call.src, call.dst) /\ ret = "ok" =>
    Pending(frames, tree, before, call.src, call.dst)

(* A copy or move that is over has brought all there was.                  *)
Arrived ==
  Over /\ ret = "ok" /\ Brings =>
    call.dst \in DOMAIN tree /\ AllWhole(call.src, tree, before, call.src, call.dst)

(* ReadFolder leaves out nothing.                                          *)
LEMMA ListingAll ==
  ASSUME NEW p \in Seq(Names), NEW n \in Names, Append(p, n) \in DOMAIN tree
  PROVE  [name |-> n, dir |-> tree[Append(p, n)].dir] \in Listing(p)
<1> DEFINE q == Append(p, n)
<1>1. /\ q \in Seq(Names) /\ Last(q) = n /\ IsPrefix(p, q)
      /\ Len(q) = Len(p) + 1 /\ Len(p) \in Nat
  BY AppendFacts
<1> HIDE DEF q
<1>2. p # q
  BY <1>1
<1>3. q \in Below(p)
  BY <1>1, <1>2 DEF Below, IsStrictPrefix, q
<1> QED BY <1>1, <1>3 DEF Listing, q

(* What is written at one place changes nothing at the others.             *)
LEMMA WholeKeeps ==
  ASSUME NEW b, IsTree(b), NEW src \in Seq(Names), NEW dst \in Seq(Names), NEW t, NEW u,
         NEW s, NEW q \in Seq(Names), IsPrefix(src, q),
         \A x \in DOMAIN t : x # Carried(s, src, dst) => x \in DOMAIN u /\ u[x] = t[x],
         Carried(Carried(s, src, dst), dst, src) = s, OneWhole(s, u, b, src, dst),
         AllWhole(q, t, b, src, dst)
  PROVE  AllWhole(q, u, b, src, dst)
<1> SUFFICES ASSUME NEW p \in DOMAIN b, IsPrefix(q, p)
             PROVE  OneWhole(p, u, b, src, dst)
  BY DEF AllWhole
<1>1. p \in Seq(Names)
  BY PathDef DEF IsTree
<1>2. IsPrefix(src, p)
  BY <1>1, PrefixFacts
<1>3. Carried(Carried(p, src, dst), dst, src) = p
  BY <1>1, <1>2, CarriedFacts
<1>4. CASE Carried(p, src, dst) = Carried(s, src, dst)
  BY <1>3, <1>4
<1>5. CASE Carried(p, src, dst) # Carried(s, src, dst)
  BY <1>5 DEF AllWhole, OneWhole
<1> QED BY <1>4, <1>5

(* What is written where nothing was changes nothing else.                 *)
LEMMA WholeGrows ==
  ASSUME NEW b, NEW src, NEW dst, NEW t, NEW u, NEW q,
         \A x \in DOMAIN t : x \in DOMAIN u /\ u[x] = t[x],
         AllWhole(q, t, b, src, dst)
  PROVE  AllWhole(q, u, b, src, dst)
BY DEF AllWhole, OneWhole

(* Below a file there is nothing.                                          *)
LEMMA FileWhole ==
  ASSUME NEW b, IsTree(b), NEW q \in DOMAIN b, ~b[q].dir, NEW t, NEW src, NEW dst,
         OneWhole(q, t, b, src, dst)
  PROVE  AllWhole(q, t, b, src, dst)
<1> SUFFICES ASSUME NEW p \in DOMAIN b, IsPrefix(q, p)
             PROVE  p = q
  BY DEF AllWhole
<1>1. q \in Seq(Names)
  BY PathDef DEF IsTree
<1> QED BY <1>1, Ancestors

(* A folder is whole when it is there and its entries are whole.           *)
LEMMA FolderWhole ==
  ASSUME NEW b, IsTree(b), NEW q \in DOMAIN b, b[q].dir, NEW t, NEW src, NEW dst,
         Carried(q, src, dst) \in DOMAIN t,
         \A n \in Names : Append(q, n) \in DOMAIN b => AllWhole(Append(q, n), t, b, src, dst)
  PROVE  AllWhole(q, t, b, src, dst)
<1> SUFFICES ASSUME NEW p \in DOMAIN b, IsPrefix(q, p)
             PROVE  OneWhole(p, t, b, src, dst)
  BY DEF AllWhole
<1>1. q \in Seq(Names) /\ p \in Seq(Names)
  BY PathDef DEF IsTree
<1>2. CASE p = q
  BY <1>2 DEF OneWhole
<1>3. CASE p # q
  <2>1. PICK n \in Names : IsPrefix(Append(q, n), p)
    BY <1>1, <1>3, Child
  <2>2. Append(q, n) \in Seq(Names)
    BY <1>1, AppendFacts
  <2>3. Append(q, n) \in DOMAIN b
    BY <2>1, <2>2, Ancestors
  <2> QED BY <2>1, <2>3 DEF AllWhole
<1> QED BY <1>2, <1>3

(* A file that is written to the end is whole.                             *)
LEMMA OutWhole ==
  ASSUME IsTree(tree), NEW s, NEW src, NEW dst, IsFile(s), NEW b, b[s] = tree[s],
         tree' = Out(s, Carried(s, src, dst), Len(tree[s].data))
  PROVE  /\ OneWhole(s, tree', b, src, dst)
         /\ \A x \in DOMAIN tree :
              x # Carried(s, src, dst) => x \in DOMAIN tree' /\ tree'[x] = tree[x]
<1> DEFINE w == Carried(s, src, dst)
           d == tree[s].data
           e == [dir |-> FALSE, ro |-> FALSE, data |-> SubSeq(d, 1, Len(d))]
<1>1. d \in Seq(Chunks)
  BY DEF IsFile, Exists, IsTree, Entry
<1>2. SubSeq(d, 1, Len(d)) = d
  BY <1>1, SubSeqFull
<1>3. tree' = With(w, e)
  BY DEF Out
<1>4. w \in DOMAIN tree' /\ tree'[w] = e /\ \A x \in DOMAIN tree : x # w => x \in DOMAIN tree' /\ tree'[x] = tree[x]
  <2> HIDE DEF w, e
  <2> QED BY <1>3 DEF With
<1>5. ~e.dir /\ e.data = d
  BY <1>2
<1> HIDE DEF e
<1> QED BY <1>4, <1>5 DEF OneWhole

(* What is still to do of the folders of the frames fs when the top one    *)
(* has taken e and u is the volume.                                        *)
LEMMA PendingTaken ==
  ASSUME NEW c \in CallSet, NEW fs \in Seq(FrameSet), Links(fs, c), Len(fs) \in Nat \ {0},
         NEW gs \in Seq(FrameSet), Len(fs) <= Len(gs), NEW e, NEW t, NEW u, NEW b,
         \A i \in 1 .. Len(fs) : gs[i].src = fs[i].src,
         \A i \in 1 .. Len(fs) : gs[i].todo = IF i = Len(fs) THEN fs[i].todo \ {e} ELSE fs[i].todo,
         \A q \in Seq(Names) : IsPrefix(c.src, q) /\ AllWhole(q, t, b, c.src, c.dst)
                                 => AllWhole(q, u, b, c.src, c.dst),
         NEW s, s = Append(fs[Len(fs)].src, e.name),
         \/ AllWhole(s, u, b, c.src, c.dst)
         \/ \E j \in 1 .. Len(gs) : j = Len(fs) + 1 /\ s = gs[j].src,
         Pending(fs, t, b, c.src, c.dst), NEW i \in 1 .. Len(fs)
  PROVE  PendingAt(i, gs, u, b, c.src, c.dst)
<1>1. gs[i].src = fs[i].src /\ PendingAt(i, fs, t, b, c.src, c.dst)
  BY DEF Pending
<1>2. fs[i].src \in Seq(Names) /\ IsPrefix(c.src, fs[i].src) /\ c.src \in Seq(Names)
      /\ Len(gs) \in Nat
  <2>1. fs[i] \in FrameSet
    BY LenProperties
  <2> QED BY <2>1, LenProperties DEF FrameSet, Links, CallSet
<1>3. gs[i].src \in DOMAIN b /\ b[gs[i].src].dir
  BY <1>1 DEF PendingAt
<1>4. ASSUME NEW n \in Names, Append(gs[i].src, n) \in DOMAIN b
      PROVE  \/ [name |-> n, dir |-> b[Append(gs[i].src, n)].dir] \in gs[i].todo
             \/ \E j \in 1 .. Len(gs) : j = i + 1 /\ Append(gs[i].src, n) = gs[j].src
             \/ AllWhole(Append(gs[i].src, n), u, b, c.src, c.dst)
  <2> DEFINE q    == Append(fs[i].src, n)
             item == [name |-> n, dir |-> b[q].dir]
  <2>1. \/ item \in fs[i].todo
        \/ \E j \in 1 .. Len(fs) : j = i + 1 /\ q = fs[j].src
        \/ AllWhole(q, t, b, c.src, c.dst)
    BY <1>1, <1>4 DEF PendingAt
  <2>2. q \in Seq(Names) /\ IsPrefix(c.src, q)
    BY <1>2, AppendFacts, PrefixOfAppend
  <2>3. item.name = n
    OBVIOUS
  <2> HIDE DEF item
  <2>4. CASE item \in gs[i].todo
    BY <1>1, <2>4 DEF item
  <2>5. CASE item \in fs[i].todo /\ item \notin gs[i].todo
    <3>1. i = Len(fs) /\ item = e
      BY <2>5
    <3>2. q = s
      BY <2>3, <3>1
    <3> QED BY <1>1, <3>1, <3>2
  <2>6. CASE \E j \in 1 .. Len(fs) : j = i + 1 /\ q = fs[j].src
    <3>1. PICK j \in 1 .. Len(fs) : j = i + 1 /\ q = fs[j].src
      BY <2>6
    <3>2. j \in 1 .. Len(gs) /\ gs[j].src = fs[j].src
      BY <1>2, <3>1
    <3> QED BY <1>1, <3>1, <3>2
  <2>7. CASE AllWhole(q, t, b, c.src, c.dst)
    BY <1>1, <2>2, <2>7
  <2> QED BY <2>1, <2>4, <2>5, <2>6, <2>7
<1> QED BY <1>3, <1>4 DEF PendingAt

(* The frames when the top one has taken e.                                *)
LEMMA RestFacts ==
  ASSUME Shape, frames # <<>>, NEW e
  PROVE  /\ Rest(e) \in Seq(FrameSet) /\ Len(Rest(e)) = Len(frames)
         /\ Len(frames) \in Nat \ {0} /\ Links(Rest(e), call)
         /\ \A i \in 1 .. Len(frames) : Rest(e)[i].src = frames[i].src
         /\ \A i \in 1 .. Len(frames) :
              Rest(e)[i].todo = IF i = Len(frames) THEN frames[i].todo \ {e}
                                                  ELSE frames[i].todo
         /\ \A n : Append(Top.src, n) = Append(frames[Len(frames)].src, n)
<1> DEFINE gs == Rest(e)
<1>1. call \in CallSet /\ frames \in Seq(FrameSet) /\ Links(frames, call)
  BY DEF Shape
<1>2. /\ gs \in Seq(FrameSet) /\ Links(gs, call)
      /\ Len(frames) \in Nat \ {0} /\ Len(gs) = Len(frames)
      /\ \A i \in 1 .. Len(frames) - 1 : gs[i] = frames[i]
      /\ gs[Len(frames)] = [frames[Len(frames)] EXCEPT !.todo = @ \ {e}]
  <2>1. gs \in Seq(FrameSet) /\ Links(gs, call)
    BY <1>1, LinksRest DEF Rest, Taken, Top
  <2>2. Len(frames) \in Nat \ {0} /\ Len(gs) = Len(frames)
    BY <1>1, LinksRest DEF Rest, Taken, Top
  <2>3. \A i \in 1 .. Len(frames) - 1 : gs[i] = frames[i]
    <3> DEFINE f  == Taken(e)
               hs == Front(frames)
    <3>1. /\ hs \in Seq(FrameSet \cup {f}) /\ f \in FrameSet \cup {f}
          /\ Len(hs) = Len(frames) - 1
          /\ \A i \in 1 .. Len(frames) - 1 : hs[i] = frames[i]
      BY <1>1, LinksPop
    <3> HIDE DEF f, hs
    <3>2. \A i \in 1 .. Len(hs) : Append(hs, f)[i] = hs[i]
      BY <3>1, AppendProperties
    <3> QED BY <3>1, <3>2 DEF Rest, f, hs
  <2>4. gs[Len(frames)] = [frames[Len(frames)] EXCEPT !.todo = @ \ {e}]
    BY <1>1, LinksRest DEF Rest, Taken, Top
  <2> QED BY <2>1, <2>2, <2>3, <2>4
<1> HIDE DEF gs
<1>3. \A i \in 1 .. Len(frames) : frames[i] \in FrameSet
  BY <1>1, LenProperties
<1>4. ASSUME NEW i \in 1 .. Len(frames)
      PROVE  /\ gs[i].src = frames[i].src
             /\ gs[i].todo = IF i = Len(frames) THEN frames[i].todo \ {e}
                                                ELSE frames[i].todo
  <2>1. CASE i = Len(frames)
    BY <1>2, <1>3, <2>1 DEF FrameSet
  <2>2. CASE i # Len(frames)
    <3>1. i \in 1 .. Len(frames) - 1
      BY <1>2, <2>2
    <3> QED BY <1>2, <2>2, <3>1
  <2> QED BY <2>1, <2>2
<1>5. Top = frames[Len(frames)]
  BY TopFacts
<1> QED BY <1>2, <1>4, <1>5 DEF gs

(* The steps of a copy.                                                    *)
LEMMA CopyFileProgress ==
  ASSUME Shape, Kept, CopyFile, ~ClosesMayFail, ret' = "ok",
         call.op = "copyfolder", Apart(call.src, call.dst),
         Pending(frames, tree, before, call.src, call.dst)
  PROVE  Pending(frames', tree', before, call.src, call.dst)
<1>1. frames # <<>>
  BY DEF CopyFile, Turn, InLoop
<1>2. PICK e \in Top.todo :
        /\ ~e.dir /\ FileCopy(Append(Top.src, e.name), Append(Top.dst, e.name), FALSE)
        /\ frames' = Rest(e)
  BY DEF CopyFile
<1> DEFINE s == Append(Top.src, e.name)
           w == Carried(s, call.src, call.dst)
           gs == Rest(e)
<1>3. /\ IsTree(tree) /\ IsTree(before) /\ Counting /\ call \in CallSet
      /\ call.src \in Seq(Names) /\ call.dst \in Seq(Names)
      /\ frames \in Seq(FrameSet) /\ Links(frames, call)
  BY DEF Shape, CallSet
<1>4. s \in Seq(Names) /\ IsPrefix(call.src, s) /\ Append(Top.dst, e.name) = w
  BY <1>1, ItemFacts
<1> HIDE DEF s, w
<1>5. IsFile(s) /\ tree' = Out(s, w, Len(tree[s].data))
  <2>1. FileCopy(s, w, FALSE)
    BY <1>2, <1>4 DEF s
  <2> QED BY <1>3, <2>1, FileCopyOutcome
<1>6. s \in DOMAIN before /\ before[s] = tree[s]
  <2>1. Change(before, tree, call, before) /\ s \in DOMAIN tree
    BY <1>5 DEF Kept, IsFile, Exists
  <2> QED BY <1>3, <1>4, <2>1, SourceStays
<1>7. Carried(w, call.dst, call.src) = s
  BY <1>3, <1>4, CarriedFacts DEF w
<1>8. /\ OneWhole(s, tree', before, call.src, call.dst)
      /\ \A x \in DOMAIN tree : x # w => x \in DOMAIN tree' /\ tree'[x] = tree[x]
  BY <1>3, <1>5, <1>6, OutWhole DEF w
<1>9. AllWhole(s, tree', before, call.src, call.dst)
  BY <1>3, <1>5, <1>6, <1>8, FileWhole DEF IsFile
<1>10. \A q \in Seq(Names) : IsPrefix(call.src, q) /\ AllWhole(q, tree, before, call.src, call.dst)
                               => AllWhole(q, tree', before, call.src, call.dst)
  BY <1>3, <1>4, <1>7, <1>8, WholeKeeps DEF w
<1>11. /\ gs \in Seq(FrameSet) /\ Len(gs) = Len(frames) /\ Len(frames) \in Nat \ {0}
       /\ \A i \in 1 .. Len(frames) : gs[i].src = frames[i].src
       /\ \A i \in 1 .. Len(frames) :
            gs[i].todo = IF i = Len(frames) THEN frames[i].todo \ {e} ELSE frames[i].todo
       /\ s = Append(frames[Len(frames)].src, e.name)
  BY <1>1, RestFacts DEF s
<1>12. Len(frames) <= Len(gs)
  BY <1>11
<1> HIDE DEF gs
<1>13. \A i \in 1 .. Len(frames) : PendingAt(i, gs, tree', before, call.src, call.dst)
  BY <1>3, <1>9, <1>10, <1>11, <1>12, PendingTaken
<1> QED BY <1>2, <1>11, <1>13 DEF Pending, gs

LEMMA CopySubProgress ==
  ASSUME Shape, Kept, CopySub, ret' = "ok",
         call.op = "copyfolder", Apart(call.src, call.dst),
         Pending(frames, tree, before, call.src, call.dst)
  PROVE  Pending(frames', tree', before, call.src, call.dst)
<1>1. frames # <<>>
  BY DEF CopySub, Turn, InLoop
<1>2. PICK e \in Top.todo : EnterCopy(Append(Top.src, e.name), Top.dst, Rest(e))
  BY DEF CopySub
<1> DEFINE s  == Append(Top.src, e.name)
           w  == Carried(s, call.src, call.dst)
           f  == Frame("copy", s, w, Listing(s))
           hs == Rest(e)
           gs == Append(hs, f)
<1>3. /\ IsTree(tree) /\ IsTree(before) /\ Counting /\ call \in CallSet
      /\ call.src \in Seq(Names) /\ call.dst \in Seq(Names)
      /\ frames \in Seq(FrameSet) /\ Links(frames, call)
  BY DEF Shape, CallSet
<1>4. s \in Seq(Names) /\ IsPrefix(call.src, s) /\ Append(Top.dst, e.name) = w /\ Last(s) = e.name
  BY <1>1, ItemFacts
<1>5. s = Append(frames[Len(frames)].src, e.name)
  BY <1>1, RestFacts
<1> HIDE DEF s, w
<1>6. /\ IsDir(s) /\ frames' = gs
      /\ tree' = tree \/ (CanMake(w) /\ tree' = With(w, Folder))
  <2>1. EnterCopy(s, Top.dst, Rest(e))
    BY <1>2 DEF s
  <2> QED BY <1>3, <1>4, <2>1, EnterCopyOutcome
<1>7. \A x \in DOMAIN tree : x \in DOMAIN tree' /\ tree'[x] = tree[x]
  BY <1>6 DEF CanMake, Exists, With
<1>8. s \in DOMAIN before /\ before[s].dir
  <2>1. Change(before, tree, call, before) /\ s \in DOMAIN tree /\ tree[s].dir
    BY <1>6 DEF Kept, IsDir, Exists
  <2> QED BY <1>3, <1>4, <2>1, SourceStays
<1>9. \A q \in Seq(Names) : IsPrefix(call.src, q) /\ AllWhole(q, tree, before, call.src, call.dst)
                              => AllWhole(q, tree', before, call.src, call.dst)
  BY <1>7, WholeGrows
<1>10. f.src = s /\ f.todo = Listing(s)
  BY DEF Frame
<1>11. f \in FrameSet
  <2>1. w \in Seq(Names)
    BY <1>3, <1>4, CarriedFacts DEF w
  <2>2. Listing(s) \in SUBSET Items
    BY <1>3, <1>4, ListingItems
  <2> QED BY <1>4, <2>1, <2>2 DEF FrameSet, Frame
<1>12. /\ hs \in Seq(FrameSet) /\ Len(hs) = Len(frames) /\ Len(frames) \in Nat \ {0}
       /\ \A i \in 1 .. Len(frames) : hs[i].src = frames[i].src
       /\ \A i \in 1 .. Len(frames) :
            hs[i].todo = IF i = Len(frames) THEN frames[i].todo \ {e} ELSE frames[i].todo
  BY <1>1, RestFacts
<1> HIDE DEF f, hs
<1>13. /\ gs \in Seq(FrameSet) /\ Len(gs) = Len(hs) + 1
       /\ \A i \in 1 .. Len(hs) : gs[i] = hs[i]
       /\ gs[Len(hs) + 1] = f
  BY <1>11, <1>12, AppendProperties
<1> HIDE DEF gs
<1>14. /\ \A i \in 1 .. Len(frames) : gs[i].src = frames[i].src
       /\ \A i \in 1 .. Len(frames) :
            gs[i].todo = IF i = Len(frames) THEN frames[i].todo \ {e} ELSE frames[i].todo
  BY <1>12, <1>13
<1>15. \E j \in 1 .. Len(gs) : j = Len(frames) + 1 /\ s = gs[j].src
  BY <1>10, <1>12, <1>13
<1>16. Len(frames) <= Len(gs)
  BY <1>12, <1>13
<1>17. \A i \in 1 .. Len(frames) : PendingAt(i, gs, tree', before, call.src, call.dst)
  <2>1. /\ call \in CallSet /\ frames \in Seq(FrameSet) /\ Links(frames, call)
        /\ Len(frames) \in Nat \ {0} /\ gs \in Seq(FrameSet)
    BY <1>3, <1>12, <1>13
  <2> QED BY <2>1, <1>5, <1>9, <1>14, <1>15, <1>16, PendingTaken
<1>18. ASSUME NEW i, i = Len(frames) + 1
       PROVE  PendingAt(i, gs, tree', before, call.src, call.dst)
  <2>1. gs[i].src = s /\ gs[i].todo = Listing(s)
    BY <1>10, <1>12, <1>13, <1>18
  <2>2. ASSUME NEW n \in Names, Append(s, n) \in DOMAIN before
        PROVE  [name |-> n, dir |-> before[Append(s, n)].dir] \in Listing(s)
    <3> DEFINE q == Append(s, n)
    <3>1. q \in Seq(Names) /\ IsPrefix(call.src, q)
      BY <1>3, <1>4, AppendFacts, PrefixOfAppend
    <3> HIDE DEF q
    <3>2. q \in DOMAIN tree /\ tree[q] = before[q]
      <4>1. Change(before, tree, call, before) /\ q \in DOMAIN before
        BY <2>2 DEF Kept, q
      <4> QED BY <1>3, <3>1, <4>1, SourceStays
    <3> QED BY <1>4, <3>2, ListingAll DEF q
  <2> QED BY <1>8, <2>1, <2>2 DEF PendingAt
<1>19. \A i \in 1 .. Len(gs) : i \in 1 .. Len(frames) \/ i = Len(frames) + 1
  BY <1>12, <1>13
<1> QED BY <1>6, <1>17, <1>18, <1>19 DEF Pending

(* The end of the loop over a folder: all below the folder is there.       *)
LEMMA CopyDoneWhole ==
  ASSUME Shape, CopyDone, ret' = "ok", call.op = "copyfolder",
         Pending(frames, tree, before, call.src, call.dst)
  PROVE  AllWhole(Top.src, tree, before, call.src, call.dst)
<1>1. frames # <<>> /\ Top.todo = {} /\ Exists(Top.dst)
  BY DEF CopyDone, InLoop, Stays
<1>2. /\ Top = frames[Len(frames)] /\ Len(frames) \in Nat \ {0}
      /\ Top.dst = Carried(Top.src, call.src, call.dst)
  BY <1>1, TopFacts
<1>3. PendingAt(Len(frames), frames, tree, before, call.src, call.dst)
  BY <1>2 DEF Pending
<1>4. /\ Top.src \in DOMAIN before /\ before[Top.src].dir
      /\ \A n \in Names : Append(Top.src, n) \in DOMAIN before =>
           AllWhole(Append(Top.src, n), tree, before, call.src, call.dst)
  <2>1. /\ Top.src \in DOMAIN before /\ before[Top.src].dir
        /\ \A n \in Names : Append(Top.src, n) \in DOMAIN before =>
             \/ [name |-> n, dir |-> before[Append(Top.src, n)].dir] \in Top.todo
             \/ \E j \in 1 .. Len(frames) : j = Len(frames) + 1 /\ Append(Top.src, n) = frames[j].src
             \/ AllWhole(Append(Top.src, n), tree, before, call.src, call.dst)
    BY <1>2, <1>3 DEF PendingAt
  <2>2. ~\E j \in 1 .. Len(frames) : j = Len(frames) + 1
    BY <1>2
  <2> QED BY <1>1, <2>1, <2>2
<1>5. IsTree(before)
  BY DEF Shape
<1> QED BY <1>1, <1>2, <1>4, <1>5, FolderWhole DEF Exists

LEMMA CopyDoneProgress ==
  ASSUME Shape, CopyDone, ret' = "ok", call.op = "copyfolder",
         Pending(frames, tree, before, call.src, call.dst)
  PROVE  Pending(frames', tree', before, call.src, call.dst)
<1>1. frames # <<>> /\ frames' = Front(frames) /\ tree' = tree
  BY DEF CopyDone, InLoop, Stays
<1>2. AllWhole(Top.src, tree, before, call.src, call.dst)
  BY CopyDoneWhole
<1>3. Top = frames[Len(frames)]
  BY <1>1, TopFacts
<1> DEFINE gs == Front(frames)
<1>4. /\ Len(frames) \in Nat \ {0} /\ Len(gs) = Len(frames) - 1
      /\ \A i \in 1 .. Len(frames) - 1 : gs[i] = frames[i]
  BY <1>1, LinksPop DEF Shape
<1> HIDE DEF gs
<1>5. ASSUME NEW i \in 1 .. Len(gs)
      PROVE  PendingAt(i, gs, tree, before, call.src, call.dst)
  <2>1. i \in 1 .. Len(frames) /\ i \in 1 .. Len(frames) - 1
    BY <1>4
  <2>2. PendingAt(i, frames, tree, before, call.src, call.dst) /\ gs[i] = frames[i]
    BY <1>4, <2>1 DEF Pending
  <2>3. ASSUME NEW n \in Names, Append(gs[i].src, n) \in DOMAIN before
        PROVE  \/ [name |-> n, dir |-> before[Append(gs[i].src, n)].dir] \in gs[i].todo
               \/ \E j \in 1 .. Len(gs) : j = i + 1 /\ Append(gs[i].src, n) = gs[j].src
               \/ AllWhole(Append(gs[i].src, n), tree, before, call.src, call.dst)
    <3> DEFINE q == Append(gs[i].src, n)
    <3>1. \/ [name |-> n, dir |-> before[q].dir] \in gs[i].todo
          \/ \E j \in 1 .. Len(frames) : j = i + 1 /\ q = frames[j].src
          \/ AllWhole(q, tree, before, call.src, call.dst)
      BY <2>2, <2>3 DEF PendingAt
    <3> HIDE DEF q
    <3>2. ASSUME NEW j \in 1 .. Len(frames), j = i + 1, q = frames[j].src
          PROVE  \/ \E k \in 1 .. Len(gs) : k = i + 1 /\ q = gs[k].src
                 \/ AllWhole(q, tree, before, call.src, call.dst)
      <4>1. CASE j = Len(frames)
        BY <1>2, <1>3, <3>2, <4>1
      <4>2. CASE j # Len(frames)
        <5>1. j \in 1 .. Len(gs) /\ j \in 1 .. Len(frames) - 1
          BY <1>4, <3>2, <4>2
        <5>2. gs[j] = frames[j]
          BY <1>4, <5>1
        <5> QED BY <3>2, <5>1, <5>2
      <4> QED BY <4>1, <4>2
    <3> QED BY <3>1, <3>2 DEF q
  <2> QED BY <2>2, <2>3 DEF PendingAt
<1> QED BY <1>1, <1>5 DEF Pending, gs

(* A call that has just been made: a folder copy has its first frame, the  *)
(* others are over.                                                        *)
Begun ==
  \/ /\ call'.op = "copyfolder" /\ frames' # <<>>
     /\ Apart(call'.src, call'.dst) => Pending(frames', tree', before', call'.src, call'.dst)
  \/ /\ call'.op # "copyfolder"
     /\ Brings' => /\ call'.dst \in DOMAIN tree'
                   /\ AllWhole(call'.src, tree', before', call'.src, call'.dst)

LEMMA FolderCopyBegins ==
  ASSUME Shape, CallMade, call'.op = "copyfolder", NEW at, ret' = "ok",
         call'.src \in Seq(Names), call'.dst \in Seq(Names),
         call'.dst = Append(at, Last(call'.src)), EnterCopy(call'.src, at, <<>>)
  PROVE  Begun
<1> DEFINE src == call'.src
           f   == Frame("copy", src, call'.dst, Listing(src))
           gs  == Append(<<>>, f)
<1>1. IsTree(tree) /\ Counting /\ before' = tree
  BY DEF Shape, CallMade
<1>2. /\ IsDir(src) /\ frames' = gs
      /\ tree' = tree \/ (CanMake(call'.dst) /\ tree' = With(call'.dst, Folder))
  BY <1>1, EnterCopyOutcome
<1>3. f.src = src /\ f.todo = Listing(src)
  BY DEF Frame
<1> HIDE DEF f
<1>4. gs # <<>> /\ Len(gs) = 1 /\ gs[1] = f
  <2>1. <<>> \in Seq({f}) /\ f \in {f} /\ Len(<<>>) = 0
    BY EmptySeq
  <2>2. /\ gs # <<>> /\ Len(gs) = Len(<<>>) + 1 /\ gs[Len(<<>>) + 1] = f
    BY <2>1, AppendProperties
  <2> QED BY <2>1, <2>2
<1> HIDE DEF gs
<1>5. PendingAt(1, gs, tree', before', src, call'.dst)
  <2>1. gs[1].src = src /\ gs[1].todo = Listing(src)
    BY <1>3, <1>4
  <2>2. \A n \in Names : Append(src, n) \in DOMAIN tree =>
          [name |-> n, dir |-> tree[Append(src, n)].dir] \in Listing(src)
    BY ListingAll
  <2> QED BY <1>1, <1>2, <2>1, <2>2 DEF PendingAt, IsDir, Exists
<1>6. \A i \in 1 .. Len(gs) : i = 1
  BY <1>4
<1> QED BY <1>2, <1>4, <1>5, <1>6 DEF Begun, Pending

LEMMA FileCopyBegins ==
  ASSUME Shape, CallMade, call'.op = "copy", ret' = "ok", ~ClosesMayFail,
         call'.src \in Seq(Names), call'.dst \in Seq(Names),
         NEW mayCancel, FileCopy(call'.src, call'.dst, mayCancel)
  PROVE  Begun
<1>1. IsTree(tree) /\ Counting /\ before' = tree
  BY DEF Shape, CallMade
<1>2. IsFile(call'.src) /\ tree' = Out(call'.src, call'.dst, Len(tree[call'.src].data))
  BY <1>1, FileCopyOutcome
<1>3. Carried(call'.src, call'.src, call'.dst) = call'.dst
  BY PrefixFacts, CarriedFacts
<1>4. OneWhole(call'.src, tree', tree, call'.src, call'.dst)
  BY <1>1, <1>2, <1>3, OutWhole
<1>5. AllWhole(call'.src, tree', tree, call'.src, call'.dst)
  BY <1>1, <1>2, <1>4, FileWhole DEF IsFile, Exists
<1>6. call'.dst \in DOMAIN tree'
  BY <1>3, <1>4 DEF OneWhole
<1> QED BY <1>1, <1>5, <1>6 DEF Begun

LEMMA MoveBegins ==
  ASSUME Shape, CallMade, call'.op \in MoveModes, ret' = "ok",
         call'.src \in Seq(Names), call'.dst \in Seq(Names),
         call'.op = "movefolder" => ~IsPrefix(call'.src, call'.dst),
         Rename(call'.src, call'.dst)
  PROVE  Begun
<1> SUFFICES ASSUME Brings'
             PROVE  /\ call'.dst \in DOMAIN tree'
                    /\ AllWhole(call'.src, tree', before', call'.src, call'.dst)
  BY DEF Begun, MoveModes
<1>1. IsTree(tree) /\ Counting /\ before' = tree
  BY DEF Shape, CallMade
<1>2. CanRename(call'.src, call'.dst) /\ tree' = Renamed(call'.src, call'.dst)
  BY <1>1, RenameOutcome
<1>3. ~IsPrefix(call'.src, call'.dst)
  BY DEF Brings, MoveModes
<1>4. \A p \in DOMAIN tree :
        IsPrefix(call'.src, p) => /\ Carried(p, call'.src, call'.dst) \in DOMAIN tree'
                                  /\ tree'[Carried(p, call'.src, call'.dst)] = tree[p]
  BY <1>1, <1>2, <1>3, RenamedFacts
<1>5. AllWhole(call'.src, tree', before', call'.src, call'.dst)
  BY <1>1, <1>4 DEF AllWhole, OneWhole
<1>6. /\ call'.src \in DOMAIN tree /\ IsPrefix(call'.src, call'.src)
      /\ Carried(call'.src, call'.src, call'.dst) = call'.dst
  BY <1>2, PrefixFacts, CarriedFacts DEF CanRename, Exists
<1> QED BY <1>4, <1>5, <1>6

LEMMA CallBegins ==
  ASSUME Shape, Next, ~Step, \A mode, p : ~Pick(mode, p), ret' = "ok", ~ClosesMayFail
  PROVE  CallMade /\ Begun
<1>1. ASSUME NEW at \in DOMAIN tree, Paste(at) PROVE CallMade /\ Begun
  <2> DEFINE src == clip.src
             dst == Append(at, Last(src))
  <2>1. clip.mode # "none" /\ Call(clip.mode, src, dst, "paste")
    BY <1>1 DEF Paste
  <2>2. src \in Seq(Names) /\ src # <<>> /\ clip.mode \in Modes \ {"none"}
    BY <2>1, PathDef DEF Shape
  <2>3. dst \in Seq(Names)
    <3>1. Last(src) \in Names /\ at \in Seq(Names)
      BY <2>2, FrontLast, PathDef DEF Shape, IsTree
    <3> QED BY <3>1, AppendFacts
  <2> HIDE DEF dst
  <2>4. /\ CallMade /\ call'.op = clip.mode /\ call'.src = src /\ call'.dst = dst
    BY <2>1, <2>2, <2>3, MadeFacts DEF Modes
  <2>5. \/ Stays("refused")
        \/ clip.mode \in MoveModes /\ Rename(src, dst) /\ ~Refuses(src, dst)
        \/ clip.mode = "copy" /\ FileCopy(src, dst, TRUE)
        \/ clip.mode = "copyfolder" /\ EnterCopy(src, at, <<>>)
    BY <1>1 DEF Paste, dst
  <2>6. CASE Stays("refused")
    BY <2>6 DEF Stays
  <2>7. CASE clip.mode \in MoveModes /\ Rename(src, dst) /\ ~Refuses(src, dst)
    <3>1. clip.mode = "movefolder" => ~StartsWith(dst, src)
      BY <2>7 DEF Refuses, FolderModes
    <3>2. clip.mode = "movefolder" => ~IsPrefix(src, dst)
      BY <2>2, <2>3, <3>1, PrefixStarts
    <3> QED BY <2>2, <2>3, <2>4, <2>7, <3>2, MoveBegins
  <2>8. CASE clip.mode = "copy" /\ FileCopy(src, dst, TRUE)
    BY <2>2, <2>3, <2>4, <2>8, FileCopyBegins
  <2>9. CASE clip.mode = "copyfolder" /\ EnterCopy(src, at, <<>>)
    BY <2>2, <2>3, <2>4, <2>9, FolderCopyBegins DEF dst
  <2> QED BY <2>5, <2>6, <2>7, <2>8, <2>9
<1>2. ASSUME NEW src \in DOMAIN tree, NEW at \in DOMAIN tree, ScriptCopyDir(src, at)
      PROVE  CallMade /\ Begun
  <2> DEFINE dst == Append(at, Last(src))
  <2>1. Call("copyfolder", src, dst, "script") /\ EnterCopy(src, at, <<>>) /\ src # <<>>
    BY <1>2 DEF ScriptCopyDir
  <2>2. src \in Seq(Names) /\ at \in Seq(Names)
    BY PathDef DEF Shape, IsTree
  <2>3. dst \in Seq(Names)
    BY <2>1, <2>2, FrontLast, AppendFacts
  <2> HIDE DEF dst
  <2>4. CallMade /\ call'.op = "copyfolder" /\ call'.src = src /\ call'.dst = dst
    BY <2>1, <2>2, <2>3, MadeFacts
  <2> QED BY <2>1, <2>2, <2>3, <2>4, FolderCopyBegins DEF dst
<1>3. ASSUME NEW src \in DOMAIN tree, NEW at \in DOMAIN tree, NEW n \in Names,
             ScriptCopyFile(src, Append(at, n))
      PROVE  CallMade /\ Begun
  <2> DEFINE dst == Append(at, n)
  <2>1. Call("copy", src, dst, "script") /\ FileCopy(src, dst, FALSE)
    BY <1>3 DEF ScriptCopyFile
  <2>2. src \in Seq(Names) /\ at \in Seq(Names)
    BY PathDef DEF Shape, IsTree
  <2>3. dst \in Seq(Names)
    BY <2>2, AppendFacts
  <2> HIDE DEF dst
  <2>4. CallMade /\ call'.op = "copy" /\ call'.src = src /\ call'.dst = dst
    BY <2>1, <2>2, <2>3, MadeFacts
  <2> QED BY <2>1, <2>2, <2>3, <2>4, FileCopyBegins
<1>4. ASSUME NEW p \in DOMAIN tree, DeleteFolder(p) \/ UnlinkOne(p)
      PROVE  CallMade /\ Begun
  <2>1. Call("delete", p, p, "menu") \/ Call("unlink", p, p, "menu")
    BY <1>4 DEF DeleteFolder, UnlinkOne
  <2>2. p \in Seq(Names)
    BY PathDef DEF Shape, IsTree
  <2>3. CallMade /\ call'.op \in {"delete", "unlink"}
    BY <2>1, <2>2, MadeFacts
  <2> QED BY <2>3 DEF Begun, Brings
<1> QED BY <1>1, <1>2, <1>3, <1>4 DEF Next

LEMMA ProgressNext ==
  ASSUME Shape, Kept, Progress, [Next]_vars, ~ClosesMayFail
  PROVE  Progress'
<1> SUFFICES ASSUME call'.op = "copyfolder", Apart(call'.src, call'.dst), ret' = "ok"
             PROVE  Pending(frames', tree', before', call'.src, call'.dst)
  BY DEF Progress, Apart
<1>1. CASE UNCHANGED vars
  BY <1>1 DEF vars, Progress
<1>2. CASE Next /\ Step
  <2>1. call' = call /\ before' = before
    BY <1>2 DEF Step, CopyFile, CopySub, CopyDone, DeleteFile, DeleteSub, DeleteDone, Same
  <2>2. frames # <<>> /\ ret = "ok"
    BY <1>2 DEF Step, CopyFile, CopySub, CopyDone, DeleteFile, DeleteSub, DeleteDone,
                Turn, InLoop, Stays
  <2>3. Pending(frames, tree, before, call.src, call.dst)
    BY <2>1, <2>2 DEF Progress
  <2>4. Top.op = "copy"
    BY <2>1, <2>2, TopFacts DEF LoopOf
  <2>5. CASE CopyFile
    BY <2>1, <2>3, <2>5, CopyFileProgress
  <2>6. CASE CopySub
    BY <2>1, <2>3, <2>6, CopySubProgress
  <2>7. CASE CopyDone
    BY <2>1, <2>3, <2>7, CopyDoneProgress
  <2>8. ~DeleteFile /\ ~DeleteSub /\ ~DeleteDone
    BY <2>4 DEF DeleteFile, DeleteSub, DeleteDone, Turn, InLoop
  <2> QED BY <1>2, <2>1, <2>5, <2>6, <2>7, <2>8 DEF Step
<1>3. CASE Next /\ \E mode, p : Pick(mode, p)
  BY <1>3 DEF Pick, Same, Progress
<1>4. CASE Next /\ ~Step /\ ~\E mode, p : Pick(mode, p)
  BY <1>4, CallBegins DEF Begun
<1> QED BY <1>1, <1>2, <1>3, <1>4

LEMMA ArrivedNext ==
  ASSUME Shape, Kept, Progress, Arrived, [Next]_vars, ~ClosesMayFail
  PROVE  Arrived'
<1> SUFFICES ASSUME Over', ret' = "ok", Brings'
             PROVE  /\ call'.dst \in DOMAIN tree'
                    /\ AllWhole(call'.src, tree', before', call'.src, call'.dst)
  BY DEF Arrived
<1>1. CASE UNCHANGED vars
  BY <1>1 DEF vars, Arrived, Over, Brings, Apart
<1>2. CASE Next /\ Step
  <2>1. call' = call /\ before' = before /\ frames # <<>>
    BY <1>2 DEF Step, CopyFile, CopySub, CopyDone, DeleteFile, DeleteSub, DeleteDone,
                Same, Turn, InLoop
  <2>2. call.op = "copyfolder" /\ Apart(call.src, call.dst)
    BY <2>1 DEF Brings, Shape
  <2>3. Top.op = "copy"
    BY <2>1, <2>2, TopFacts DEF LoopOf
  <2>4. ~DeleteFile /\ ~DeleteSub /\ ~DeleteDone
    BY <2>3 DEF DeleteFile, DeleteSub, DeleteDone, Turn, InLoop
  <2>5. ~CopyFile
    BY <2>1, RestGoesOn DEF CopyFile, Over
  <2>6. ~CopySub
    <3>1. ASSUME NEW e, NEW s, NEW at, EnterCopy(s, at, Rest(e)) PROVE FALSE
      <4>1. frames' = Rest(e) \/ \E f : frames' = Append(Rest(e), f)
        BY <3>1 DEF EnterCopy
      <4> QED BY <2>1, <4>1, RestGoesOn DEF Over
    <3> QED BY <3>1 DEF CopySub
  <2>7. CopyDone
    BY <1>2, <2>4, <2>5, <2>6 DEF Step
  <2>8. ret = "ok" /\ tree' = tree /\ frames' = Front(frames) /\ Exists(Top.dst)
    BY <2>7 DEF CopyDone, Stays
  <2>9. AllWhole(Top.src, tree, before, call.src, call.dst)
    BY <2>2, <2>7, <2>8, CopyDoneWhole DEF Progress
  <2>10. Len(frames) = 1
    BY <2>1, <2>8, LinksPop DEF Shape, Over
  <2>11. Top.src = call.src /\ Top.dst = call.dst
    <3>1. /\ Top.src \in Seq(Names) /\ IsPrefix(call.src, Top.src)
          /\ Len(Top.src) = Len(call.src) + (Len(frames) - 1)
          /\ Top.dst = Carried(Top.src, call.src, call.dst)
          /\ call.src \in Seq(Names) /\ call.dst \in Seq(Names) /\ Len(call.src) \in Nat
      BY <2>1, TopFacts, LenProperties DEF Shape, CallSet
    <3>2. Len(call.src) = Len(Top.src)
      BY <2>10, <3>1
    <3>3. Top.src = call.src
      BY <3>1, <3>2, PrefixFacts
    <3> QED BY <3>1, <3>3, CarriedFacts
  <2> QED BY <2>1, <2>8, <2>9, <2>11 DEF Exists
<1>3. CASE Next /\ \E mode, p : Pick(mode, p)
  BY <1>3 DEF Pick, Same, Arrived, Over, Brings, Apart
<1>4. CASE Next /\ ~Step /\ ~\E mode, p : Pick(mode, p)
  BY <1>4, CallBegins DEF Begun, Over
<1> QED BY <1>1, <1>2, <1>3, <1>4

(* A copy or move that returns 0 and was not cancelled has brought all     *)
(* there was, wherever an access failed, however deep the folder and       *)
(* whatever was at the destination, if f_close does not fail: what f_mkdir *)
(* returns is ignored, but the first entry that cannot be written says so  *)
(* (fscopy.c 33-146).                                                      *)
THEOREM ACopyIsWhole ==
  ASSUME ~ClosesMayFail
  PROVE  Spec => []CopyIsWhole
<1>1. Init => Progress /\ Arrived
  BY DEF Init, NoCall, Progress, Arrived, Over
<1>2. Shape /\ Kept /\ Progress /\ Arrived /\ [Next]_vars => Progress' /\ Arrived'
  BY ProgressNext, ArrivedNext
<1>3. Arrived => CopyIsWhole
  <2> SUFFICES ASSUME Arrived, Over, ret = "ok", Brings
               PROVE  WholeAt(call.src, call.dst)
    BY DEF CopyIsWhole
  <2> QED BY DEF Arrived, WholeAt, AllWhole, OneWhole, Exists, IsFile
<1> QED BY <1>1, <1>2, <1>3, Shaped, Keeping, PTL DEF Spec
=============================================================================
