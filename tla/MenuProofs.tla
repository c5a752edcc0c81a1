----------------------------- MODULE MenuProofs -----------------------------
(***************************************************************************)
(* Proofs about Menu, for lists of any length and pages of any size: the   *)
(* loop never leaves the entries, and the screen, of which most moves      *)
(* redraw two rows only, always shows the page of the choice.              *)
(***************************************************************************)
EXTENDS Menu, FiniteSetTheorems, WellFoundedInduction, TLAPS

USE EmbeddedAssumption

Kind == {"plain", "skip", "hide"}

-----------------------------------------------------------------------------
(* Sets of numbers.                                                        *)
LEMMA MinFacts ==
  ASSUME NEW S \in SUBSET Nat, S # {}
  PROVE  Min(S) \in S /\ \A x \in S : Min(S) <= x
<1>1. PICK i \in S : \A k \in S : <<k, i>> \notin OpToRel(<, Nat)
  BY WFMin, NatLessThanWellFounded, Zenon
<1>2. \A k \in S : ~(k < i)
  BY <1>1 DEF OpToRel
<1>3. i \in S /\ \A k \in S : i <= k
  BY <1>2
<1> QED BY <1>3, Zenon DEF Min

LEMMA MaxFacts ==
  ASSUME NEW S \in SUBSET Nat, S # {}, NEW b \in Nat, \A x \in S : x <= b
  PROVE  Max(S) \in S /\ \A x \in S : Max(S) >= x
<1> DEFINE T == {x \in 0 .. b : b - x \in S}
<1>1. \A x \in S : b - x \in T
  OBVIOUS
<1>2. T # {} /\ T \in SUBSET Nat
  <2>1. PICK x \in S : TRUE
    OBVIOUS
  <2>2. b - x \in T
    BY <1>1, <2>1
  <2>3. \A y \in T : y \in Nat
    OBVIOUS
  <2> QED BY <2>2, <2>3, Zenon
<1>3. PICK m \in T : \A x \in T : m <= x
  BY <1>2, MinFacts
<1>4. b - m \in S /\ \A x \in S : b - m >= x
  BY <1>1, <1>3
<1> QED BY <1>4, Zenon DEF Max

(* The places of the members of a set in its order, counted from 0, are    *)
(* all taken, each by one.                                                 *)
Rank(S, i) == Cardinality({j \in S : j < i})

At(S, r) == CHOOSE i \in S : Rank(S, i) = r

LEMMA RankBelow ==
  ASSUME NEW S \in SUBSET Int, IsFiniteSet(S), NEW i \in S
  PROVE  /\ Rank(S, i) \in 0 .. Cardinality(S) - 1
         /\ \A k \in S : i < k => Rank(S, i) < Rank(S, k)
<1> DEFINE B(k) == {j \in S : j < k}
<1>1. \A k \in S : /\ IsFiniteSet(B(k)) /\ Cardinality(B(k)) \in Nat
  BY FS_Subset, FS_CardinalityType
<1>2. Cardinality(B(i)) < Cardinality(S)
  BY <1>1, FS_Subset, FS_CardinalityType
<1>3. ASSUME NEW k \in S, i < k
      PROVE  Cardinality(B(i)) < Cardinality(B(k))
  <2>1. B(i) \in SUBSET B(k) /\ i \in B(k) /\ i \notin B(i)
    <3>1. i \in Int /\ k \in Int /\ \A j \in S : j \in Int
      OBVIOUS
    <3>2. ASSUME NEW j \in B(i) PROVE j \in B(k)
      BY <1>3, <3>1
    <3>3. B(i) \in SUBSET B(k)
      BY <3>2
    <3> QED BY <1>3, <3>1, <3>3
  <2> QED BY <1>1, <2>1, FS_Subset
<1> QED BY <1>1, <1>2, <1>3, FS_CardinalityType DEF Rank

LEMMA AtFacts ==
  ASSUME NEW S \in SUBSET Int, IsFiniteSet(S)
  PROVE  /\ Cardinality(S) \in Nat
         /\ \A r \in 0 .. Cardinality(S) - 1 : At(S, r) \in S /\ Rank(S, At(S, r)) = r
         /\ \A i \in S : Rank(S, i) \in 0 .. Cardinality(S) - 1 /\ At(S, Rank(S, i)) = i
<1> DEFINE T == 0 .. Cardinality(S) - 1
           f == [i \in S |-> Rank(S, i)]
<1>1. Cardinality(S) \in Nat
  BY FS_CardinalityType
<1>2. IsFiniteSet(T) /\ Cardinality(T) = Cardinality(S)
  BY <1>1, FS_Interval
<1>3. \A i \in S : Rank(S, i) \in T
  BY RankBelow
<1>4. \A i, k \in S : Rank(S, i) = Rank(S, k) => i = k
  <2>1. \A i, k \in S : i < k => Rank(S, i) < Rank(S, k)
    BY RankBelow
  <2> QED BY <1>3, <2>1
<1>5. f \in Injection(S, T)
  <2> HIDE DEF T
  <2>1. f \in [S -> T]
    BY <1>3
  <2> QED BY <1>4, <2>1 DEF Injection, IsInjective
<1>6. f \in Surjection(S, T)
  BY <1>2, <1>5, FS_Injection
<1>7. \A r \in T : \E i \in S : Rank(S, i) = r
  BY <1>6 DEF Surjection
<1>8. \A r \in T : At(S, r) \in S /\ Rank(S, At(S, r)) = r
  BY <1>7, Zenon DEF At
<1>9. \A i \in S : At(S, Rank(S, i)) = i
  BY <1>3, <1>4, <1>8, Zenon
<1> QED BY <1>1, <1>3, <1>8, <1>9

-----------------------------------------------------------------------------
(* Pages of a list.                                                        *)
LEMMA PageOf ==
  ASSUME NEW L \in Nat \ {0}, NEW i \in Nat
  PROVE  /\ i \div L \in Nat /\ i % L \in 0 .. L - 1
         /\ i = (i \div L) * L + (i % L)
<1> DEFINE q == i \div L
           r == i % L
<1>1. q \in Int /\ r \in 0 .. L - 1 /\ i = q * L + r
  OBVIOUS
<1>2. q \in Nat
  BY <1>1
<1> QED BY <1>1, <1>2

LEMMA NextPage ==
  ASSUME NEW L \in Nat, NEW p \in Nat, NEW q \in Nat, p < q
  PROVE  p * L + L <= q * L
<1> DEFINE d == q - p - 1
<1>1. d \in Nat /\ q = p + 1 + d
  OBVIOUS
<1> HIDE DEF d
<1>2. q * L = p * L + L + d * L
  BY <1>1
<1>3. d * L \in Nat /\ p * L \in Nat
  BY <1>1
<1> QED BY <1>2, <1>3

LEMMA SamePage ==
  ASSUME NEW L \in Nat \ {0}, NEW q \in Nat, NEW j \in q * L .. q * L + L - 1
  PROVE  j \div L = q
<1>1. q * L \in Nat
  OBVIOUS
<1>2. j \in Nat
  BY <1>1
<1> DEFINE p == j \div L
           r == j % L
<1>3. p \in Nat /\ r \in 0 .. L - 1 /\ j = p * L + r
  BY <1>2, PageOf
<1> HIDE DEF p, r
<1>4. p * L \in Nat
  BY <1>3
<1>5. ~(p < q)
  BY <1>1, <1>3, <1>4, NextPage
<1>6. ~(q < p)
  BY <1>1, <1>3, <1>4, NextPage
<1> QED BY <1>3, <1>5, <1>6 DEF p

(* The entries printed on the page of s.                                   *)
OnPage(e, L, s) == {i \in DOMAIN e : i \div L = s \div L /\ e[i] # "hide"}

LEMMA PageBounds ==
  ASSUME NEW L \in Nat \ {0}, NEW n \in Nat, NEW e \in [0 .. n - 1 -> Kind], NEW s \in Nat
  PROVE  \A i \in OnPage(e, L, s) : i \in (s \div L) * L .. (s \div L) * L + L - 1
<1> SUFFICES ASSUME NEW i \in OnPage(e, L, s)
             PROVE  i \in (s \div L) * L .. (s \div L) * L + L - 1
  OBVIOUS
<1> DEFINE q == s \div L
           p == i \div L
           r == i % L
<1>1. i \in Nat /\ p = q
  BY DEF OnPage
<1>2. q \in Nat /\ r \in 0 .. L - 1 /\ i = p * L + r
  BY <1>1, PageOf
<1> HIDE DEF q, p, r
<1>3. q * L \in Nat /\ i = q * L + r
  BY <1>1, <1>2
<1>4. i \in q * L .. q * L + L - 1
  BY <1>2, <1>3
<1> QED BY <1>4 DEF q

LEMMA PageSize ==
  ASSUME NEW L \in Nat \ {0}, NEW n \in Nat, NEW e \in [0 .. n - 1 -> Kind], NEW s \in Nat
  PROVE  /\ OnPage(e, L, s) \in SUBSET Int /\ IsFiniteSet(OnPage(e, L, s))
         /\ Cardinality(OnPage(e, L, s)) \in 0 .. L
<1> DEFINE b == (s \div L) * L
           S == OnPage(e, L, s)
<1>1. b \in Nat
  BY PageOf
<1>2. S \subseteq b .. b + L - 1
  BY PageBounds
<1> HIDE DEF b, S
<1>3. IsFiniteSet(b .. b + L - 1) /\ Cardinality(b .. b + L - 1) = L
  BY <1>1, FS_Interval
<1>4. IsFiniteSet(S) /\ Cardinality(S) <= L
  BY <1>2, <1>3, FS_Subset
<1>5. S \in SUBSET Int /\ IsFiniteSet(S) /\ Cardinality(S) \in 0 .. L
  BY <1>1, <1>2, <1>4, FS_CardinalityType
<1> QED BY <1>5 DEF S

(* Where nothing is hidden, an entry is printed in the row that the move   *)
(* of the choice redraws for it.                                           *)
LEMMA RowIsRank ==
  ASSUME NEW L \in Nat \ {0}, NEW n \in Nat, NEW e \in [0 .. n - 1 -> Kind],
         NEW s \in Nat, \A i \in 0 .. n - 1 : e[i] # "hide",
         NEW i \in OnPage(e, L, s)
  PROVE  Rank(OnPage(e, L, s), i) = i % L
<1> DEFINE q == s \div L
           S == OnPage(e, L, s)
<1>1. i \in 0 .. n - 1 /\ i \div L = q
  BY DEF OnPage
<1>2. q \in Nat /\ i % L \in 0 .. L - 1 /\ i = q * L + (i % L)
  <2>1. i \in Nat
    BY <1>1
  <2>2. i \div L \in Nat /\ i % L \in 0 .. L - 1 /\ i = (i \div L) * L + (i % L)
    BY <2>1, PageOf
  <2> QED BY <1>1, <2>2, Zenon
<1>3. q * L \in Nat
  BY <1>2
<1>4. ASSUME NEW j \in q * L .. i - 1
      PROVE  j \in S
  <2>1. j \in 0 .. n - 1
    BY <1>1, <1>4, <1>3
  <2>2. j \div L = q
    <3> HIDE DEF q
    <3>1. j \in q * L .. q * L + L - 1
      BY <1>2, <1>4, <1>3
    <3> QED BY <1>2, <3>1, SamePage
  <2> QED BY <2>1, <2>2 DEF OnPage
<1>5. \A j \in S : j \in q * L .. q * L + L - 1
  BY PageBounds
<1> HIDE DEF S, q
<1>6. {j \in S : j < i} = q * L .. i - 1
  BY <1>1, <1>2, <1>4, <1>5, <1>3
<1>7. Cardinality(q * L .. i - 1) = i - q * L
  <2> DEFINE b == q * L
  <2>1. b \in Int /\ i - 1 \in Int /\ b <= i
    BY <1>1, <1>2, <1>3
  <2> HIDE DEF b
  <2>2. Cardinality(b .. i - 1) = IF b > i - 1 THEN 0 ELSE (i - 1) - b + 1
    BY <2>1, FS_Interval
  <2>3. Cardinality(b .. i - 1) = i - b
    BY <1>1, <2>1, <2>2
  <2> QED BY <2>3 DEF b
<1>8. Rank(S, i) = i - q * L
  BY <1>6, <1>7, Zenon DEF Rank
<1>9. Rank(S, i) = i % L
  BY <1>2, <1>3, <1>8
<1> QED BY <1>9 DEF S

(* The screen with the page of s printed on it and s lit.                  *)
Printed(e, L, s) ==
  [r \in 0 .. L - 1 |->
     IF r < Cardinality(OnPage(e, L, s))
     THEN [entry |-> At(OnPage(e, L, s), r), lit |-> At(OnPage(e, L, s), r) = s]
     ELSE Blank]

LEMMA PrintedShows ==
  ASSUME NEW L \in Nat \ {0}, NEW n \in Nat, NEW e \in [0 .. n - 1 -> Kind],
         NEW s \in 0 .. n - 1, e[s] # "hide"
  PROVE  LET scr == Printed(e, L, s)
         IN  /\ {r \in DOMAIN scr : scr[r].lit} # {}
             /\ \A r \in DOMAIN scr : scr[r].lit <=> scr[r].entry = s
             /\ {scr[r].entry : r \in DOMAIN scr} \ {-1} = OnPage(e, L, s)
<1> DEFINE S   == OnPage(e, L, s)
           scr == Printed(e, L, s)
           c   == Cardinality(S)
<1>1. s \in Nat
  OBVIOUS
<1>2. S \in SUBSET Int /\ IsFiniteSet(S) /\ c \in 0 .. L
  BY <1>1, PageSize
<1>3. /\ \A r \in 0 .. c - 1 : At(S, r) \in S
      /\ \A i \in S : Rank(S, i) \in 0 .. c - 1 /\ At(S, Rank(S, i)) = i
  BY <1>2, AtFacts
<1>4. s \in S /\ \A i \in S : i \in 0 .. n - 1
  BY DEF OnPage
<1>5. /\ DOMAIN scr = 0 .. L - 1
      /\ \A r \in 0 .. c - 1 : scr[r] = [entry |-> At(S, r), lit |-> At(S, r) = s]
      /\ \A r \in c .. L - 1 : scr[r] = Blank
  BY <1>2 DEF Printed
<1> HIDE DEF S, scr, c
<1>6. ASSUME NEW r \in 0 .. c - 1
       PROVE  scr[r].entry = At(S, r) /\ (scr[r].lit <=> At(S, r) = s)
  <2> DEFINE b == At(S, r) = s
  <2>1. b \in BOOLEAN /\ scr[r] = [entry |-> At(S, r), lit |-> b]
    BY <1>5
  <2> HIDE DEF b
  <2>2. scr[r].entry = At(S, r) /\ scr[r].lit = b
    BY <2>1
  <2> QED BY <2>2 DEF b
<1>7. \A r \in 0 .. L - 1 : r \in 0 .. c - 1 \/ r \in c .. L - 1
  BY <1>2
<1>8. \A r \in 0 .. c - 1 : r \in 0 .. L - 1
  BY <1>2
<1>9. {r \in DOMAIN scr : scr[r].lit} # {}
  <2>1. Rank(S, s) \in 0 .. c - 1 /\ At(S, Rank(S, s)) = s
    BY <1>3, <1>4
  <2>2. scr[Rank(S, s)].lit /\ Rank(S, s) \in DOMAIN scr
    BY <1>5, <1>8, <1>6, <2>1
  <2> QED BY <2>2
<1>10. ASSUME NEW r \in DOMAIN scr
      PROVE  /\ scr[r].lit <=> scr[r].entry = s
             /\ scr[r].entry = -1 \/ scr[r].entry \in S
  <2>1. CASE r \in 0 .. c - 1
    BY <1>3, <1>6, <2>1
  <2>2. CASE r \in c .. L - 1
    BY <1>1, <1>5, <2>2 DEF Blank
  <2> QED BY <1>5, <1>7, <1>10, <2>1, <2>2
<1>11. ASSUME NEW i \in S
       PROVE  i # -1 /\ \E r \in DOMAIN scr : scr[r].entry = i
  <2>1. Rank(S, i) \in 0 .. c - 1 /\ At(S, Rank(S, i)) = i
    BY <1>3
  <2>2. scr[Rank(S, i)].entry = i /\ Rank(S, i) \in DOMAIN scr
    BY <1>5, <1>8, <1>6, <2>1
  <2> QED BY <1>4, <2>2
<1>12. {scr[r].entry : r \in DOMAIN scr} \ {-1} = S
  BY <1>10, <1>11
<1> QED BY <1>9, <1>10, <1>12 DEF S, scr

Moved(scr, L, l, s) == [scr EXCEPT ![l % L] = [entry |-> l, lit |-> FALSE],
                                   ![s % L] = [entry |-> s, lit |-> TRUE]]

(* Redrawing the row left and the row reached is redrawing the page.       *)
LEMMA MovePrinted ==
  ASSUME NEW L \in Nat \ {0}, NEW n \in Nat, NEW e \in [0 .. n - 1 -> Kind],
         \A i \in 0 .. n - 1 : e[i] # "hide",
         NEW s \in 0 .. n - 1, NEW l \in 0 .. n - 1, s # l, s \div L = l \div L
  PROVE  Moved(Printed(e, L, l), L, l, s) = Printed(e, L, s)
<1> DEFINE S   == OnPage(e, L, s)
           old == Printed(e, L, l)
           new == Printed(e, L, s)
           c   == Cardinality(S)
           moved == Moved(old, L, l, s)
<1>1. s \in Nat /\ l \in Nat
  OBVIOUS
<1>2. S = OnPage(e, L, l) /\ s \in S /\ l \in S
  BY DEF OnPage
<1>3. S \in SUBSET Int /\ IsFiniteSet(S) /\ c \in 0 .. L
  BY <1>1, PageSize
<1>4. /\ \A r \in 0 .. c - 1 : At(S, r) \in S /\ Rank(S, At(S, r)) = r
      /\ \A i \in S : Rank(S, i) \in 0 .. c - 1 /\ At(S, Rank(S, i)) = i
  BY <1>3, AtFacts
<1>5. Rank(S, s) = s % L /\ Rank(S, l) = l % L
  BY <1>1, <1>2, RowIsRank
<1>6. /\ DOMAIN old = 0 .. L - 1 /\ DOMAIN new = 0 .. L - 1
      /\ \A r \in 0 .. c - 1 : /\ old[r] = [entry |-> At(S, r), lit |-> At(S, r) = l]
                               /\ new[r] = [entry |-> At(S, r), lit |-> At(S, r) = s]
      /\ \A r \in c .. L - 1 : old[r] = Blank /\ new[r] = Blank
  BY <1>2, <1>3 DEF Printed
<1>7. old = [r \in 0 .. L - 1 |-> old[r]] /\ new = [r \in 0 .. L - 1 |-> new[r]]
  BY DEF Printed
<1>8. moved = [r \in 0 .. L - 1 |-> IF r = s % L THEN [entry |-> s, lit |-> TRUE]
                                    ELSE IF r = l % L THEN [entry |-> l, lit |-> FALSE]
                                    ELSE old[r]]
  <2> HIDE DEF old
  <2> QED BY <1>6, <1>7 DEF Moved
<1> HIDE DEF S, old, new, c
<1>9. ASSUME NEW r \in 0 .. L - 1
      PROVE  new[r] = IF r = s % L THEN [entry |-> s, lit |-> TRUE]
                      ELSE IF r = l % L THEN [entry |-> l, lit |-> FALSE]
                      ELSE old[r]
  <2>1. CASE r \in c .. L - 1
    <3>1. r # s % L /\ r # l % L
      BY <1>2, <1>3, <1>4, <1>5, <2>1
    <3> QED BY <1>6, <2>1, <3>1
  <2>2. CASE r \in 0 .. c - 1
    <3>1. r = s % L <=> At(S, r) = s
      BY <1>2, <1>4, <1>5, <2>2
    <3>2. r = l % L <=> At(S, r) = l
      BY <1>2, <1>4, <1>5, <2>2
    <3>3. CASE r = s % L
      BY <1>6, <2>2, <3>1, <3>3
    <3>4. CASE r = l % L
      BY <1>6, <2>2, <3>1, <3>2, <3>4
    <3>5. CASE r # s % L /\ r # l % L
      <4>1. (At(S, r) = s) = FALSE /\ (At(S, r) = l) = FALSE
        BY <3>1, <3>2, <3>5
      <4>2. old[r] = new[r]
        BY <1>6, <2>2, <4>1, Zenon
      <4> QED BY <3>5, <4>2
    <3> QED BY <3>3, <3>4, <3>5
  <2> QED BY <1>3, <2>1, <2>2
<1> HIDE DEF moved
<1>10. moved = new
  BY <1>7, <1>8, <1>9
<1> QED BY <1>10 DEF moved, old, new

-----------------------------------------------------------------------------
(* The state of the loop.                                                  *)
Shape ==
  /\ caller \in Caller /\ pc \in {"gather", "draw", "input", "astray"} /\ res \in Nat
  /\ \E n \in Nat \ {0} : entries \in [0 .. n - 1 -> Kind]
  /\ caller = "explorer" => \A i \in DOMAIN entries : entries[i] # "hide"
  /\ redrawScreen \in BOOLEAN
  /\ DOMAIN screen = 0 .. screenLenY - 1

(* The choice, and the one before it, can be chosen.                       *)
Chosen ==
  pc \in {"draw", "input"} => /\ {selected, lastIndex} \subseteq DOMAIN entries
                              /\ Plain(selected) /\ Plain(lastIndex)

(* Where newMenu has gone astray.                                          *)
Astray ==
  pc = "astray" => caller = "main" /\ DOMAIN entries = 0 .. 3 + Embedded

(* What is on the screen before and after it is drawn.                     *)
OnScreen ==
  /\ pc = "input" => /\ lastIndex = selected
                     /\ screen = Printed(entries, screenLenY, selected)
  /\ pc = "draw" /\ ~redrawScreen =>
       /\ Page(lastIndex) = Page(selected)
       /\ screen = Printed(entries, screenLenY, lastIndex)

Inv == Shape /\ Chosen /\ Astray /\ OnScreen

LEMMA RowsOfCaller == Shape => screenLenY \in Nat \ {0}
  BY RowsAssumption DEF Shape, screenLenY

LEMMA Counted ==
  ASSUME NEW n \in Nat \ {0}, entries \in [0 .. n - 1 -> Kind]
  PROVE  count = n /\ DOMAIN entries = 0 .. n - 1
<1>1. DOMAIN entries = 0 .. n - 1
  OBVIOUS
<1> QED BY <1>1, FS_Interval DEF count

LEMMA FirstFromFacts ==
  ASSUME NEW n \in Nat \ {0}, NEW e \in [0 .. n - 1 -> Kind], NEW i \in 0 .. n - 1,
         NEW p \in 0 .. n - 1, e[p] = "plain"
  PROVE  FirstFrom(e, i) \in 0 .. n - 1 /\ e[FirstFrom(e, i)] = "plain"
<1> DEFINE S == {j \in 0 .. n - 1 : e[(i + j) % n] = "plain"}
<1>1. Cardinality(DOMAIN e) = n
  BY FS_Interval
<1>2. PICK j \in 0 .. n - 1 : (i + j) % n = p
  <2>1. CASE i <= p
    <3>1. p - i \in 0 .. n - 1 /\ (i + (p - i)) % n = p
      BY <2>1
    <3> QED BY <3>1
  <2>2. CASE i > p
    <3>1. n + p - i \in 0 .. n - 1 /\ i + (n + p - i) = n + p
      BY <2>2
    <3>2. (n + p) % n = p
      OBVIOUS
    <3> QED BY <3>1, <3>2
  <2> QED BY <2>1, <2>2
<1>3. j \in S
  BY <1>2
<1>4. S \in SUBSET Nat /\ S # {}
  <2>1. \A x \in S : x \in Nat
    OBVIOUS
  <2> HIDE DEF S
  <2> QED BY <1>3, <2>1
<1>5. Min(S) \in S
  BY <1>4, MinFacts
<1>6. FirstFrom(e, i) = (i + Min(S)) % n
  BY <1>1, Zenon DEF FirstFrom
<1>7. (i + Min(S)) % n \in 0 .. n - 1 /\ e[(i + Min(S)) % n] = "plain"
  <2> DEFINE m == Min(S)
  <2>1. m \in 0 .. n - 1 /\ e[(i + m) % n] = "plain"
    BY <1>5
  <2> HIDE DEF m
  <2>2. (i + m) % n \in 0 .. n - 1
    BY <2>1
  <2> QED BY <2>1, <2>2 DEF m
<1> QED BY <1>6, <1>7

-----------------------------------------------------------------------------
(* Every caller opens its menu at an entry, but the main menu when it      *)
(* lists no script of the card; and each list has one that can be chosen.  *)
LEMMA GatherOpens ==
  ASSUME Shape, Gather
  PROVE  \E n \in Nat \ {0} : \E e \in [0 .. n - 1 -> Kind], i \in Nat :
           /\ Open(e, i)
           /\ i \in 0 .. n - 1 \/ (caller = "main" /\ n = 4 + Embedded)
           /\ \E p \in 0 .. n - 1 : e[p] = "plain"
           /\ caller = "explorer" => \A j \in 0 .. n - 1 : e[j] # "hide"
<1>1. res \in Nat /\ caller \in Caller
  BY DEF Shape
<1>2. CASE GatherExplorer
  <2>1. PICK files \in 0 .. MaxFiles : \E e \in Entries(files + 4) :
          /\ Begins(e, ExplorerTop)
          /\ \A i \in 4 .. files + 3 : e[i] = "plain"
          /\ Open(e, Choice(files + 4))
    BY <1>2 DEF GatherExplorer
  <2>2. PICK e \in Entries(files + 4) :
          /\ Begins(e, ExplorerTop)
          /\ \A i \in 4 .. files + 3 : e[i] = "plain"
          /\ Open(e, Choice(files + 4))
    BY <2>1
  <2> DEFINE n == files + 4
  <2>3. n \in Nat \ {0} /\ 1 \in 0 .. n - 1 /\ e \in [0 .. n - 1 -> Kind]
    BY DEF Entries, Kind
  <2>4. e[0] = "skip" /\ e[1] = "plain" /\ e[2] # "hide" /\ e[3] = "plain"
    <3>1. DOMAIN ExplorerTop = 1 .. 4
      BY DEF ExplorerTop
    <3>2. /\ e[1 - 1] \in ExplorerTop[1] /\ e[2 - 1] \in ExplorerTop[2]
          /\ e[3 - 1] \in ExplorerTop[3] /\ e[4 - 1] \in ExplorerTop[4]
      BY <2>2, <3>1 DEF Begins
    <3> QED BY <3>2 DEF ExplorerTop
  <2>5. \A j \in 0 .. n - 1 : e[j] # "hide"
    <3>1. \A j \in 0 .. n - 1 : j \in {0, 1, 2, 3} \/ j \in 4 .. files + 3
      OBVIOUS
    <3> QED BY <2>2, <2>4, <3>1
  <2>6. Choice(files + 4) \in 0 .. n - 1 /\ Choice(files + 4) \in Nat
    BY <1>1 DEF Choice
  <2> QED BY <2>2, <2>3, <2>4, <2>5, <2>6
<1>3. CASE GatherMain
  <2>1. caller = "main"
    BY <1>3 DEF GatherMain
  <2>2. PICK there \in BOOLEAN, err \in 0 .. 3, scripts \in 0 .. MaxScripts :
          \E e \in Entries(4 + Embedded + scripts) :
            /\ scripts > 0 => there /\ err = 0
            /\ Begins(e, MainTop)
            /\ Open(e, IF there THEN err ELSE res)
    BY <1>3 DEF GatherMain
  <2>3. PICK e \in Entries(4 + Embedded + scripts) :
          /\ scripts > 0 => there /\ err = 0
          /\ Begins(e, MainTop)
          /\ Open(e, IF there THEN err ELSE res)
    BY <2>2
  <2> DEFINE n == 4 + Embedded + scripts
             i == IF there THEN err ELSE res
  <2>4. n \in Nat \ {0} /\ 2 \in 0 .. n - 1 /\ e \in [0 .. n - 1 -> Kind]
    BY DEF Entries, Kind
  <2>5. e[2] = "plain"
    <3>1. DOMAIN MainTop = 1 .. 4
      BY DEF MainTop
    <3>2. e[3 - 1] \in MainTop[3]
      BY <2>3, <3>1 DEF Begins
    <3> QED BY <3>2 DEF MainTop
  <2>6. i \in Nat
    BY <1>1
  <2>7. i \in 0 .. n - 1 \/ n = 4 + Embedded
    <3>1. CASE there
      BY <3>1
    <3>2. CASE ~there
      BY <2>3, <3>2
    <3> QED BY <3>1, <3>2
  <2>8. Open(e, i)
    BY <2>3
  <2> HIDE DEF n, i
  <2>9. \E p \in 0 .. n - 1 : e[p] = "plain"
    BY <2>4, <2>5
  <2> QED BY <2>1, <2>4, <2>6, <2>7, <2>8, <2>9
<1>4. CASE GatherFile
  <2>1. caller # "explorer"
    BY <1>4 DEF GatherFile
  <2>2. PICK e \in Entries(6) : Begins(e, FileTop) /\ Open(e, 0)
    BY <1>4 DEF GatherFile
  <2>3. 0 \in 0 .. 6 - 1 /\ 2 \in 0 .. 6 - 1 /\ e \in [0 .. 6 - 1 -> Kind]
    BY DEF Entries, Kind
  <2>4. e[2] = "plain"
    <3>1. DOMAIN FileTop = 1 .. 6
      BY DEF FileTop
    <3>2. e[3 - 1] \in FileTop[3]
      BY <2>2, <3>1 DEF Begins
    <3> QED BY <3>2 DEF FileTop
  <2>5. \E p \in 0 .. 6 - 1 : e[p] = "plain"
    BY <2>3, <2>4, Zenon
  <2>6. 6 \in Nat \ {0} /\ 0 \in Nat
    OBVIOUS
  <2> QED BY <2>1, <2>2, <2>3, <2>5, <2>6, Zenon
<1> QED BY <1>2, <1>3, <1>4 DEF Gather

LEMMA GatherInv ==
  ASSUME Inv, Gather
  PROVE  Inv'
<1>1. Shape
  BY DEF Inv
<1>2. PICK n \in Nat \ {0} : \E e \in [0 .. n - 1 -> Kind], i \in Nat :
        /\ Open(e, i)
        /\ i \in 0 .. n - 1 \/ (caller = "main" /\ n = 4 + Embedded)
        /\ \E p \in 0 .. n - 1 : e[p] = "plain"
        /\ caller = "explorer" => \A j \in 0 .. n - 1 : e[j] # "hide"
  BY <1>1, GatherOpens
<1>3. PICK e \in [0 .. n - 1 -> Kind], i \in Nat :
        /\ Open(e, i)
        /\ i \in 0 .. n - 1 \/ (caller = "main" /\ n = 4 + Embedded)
        /\ \E p \in 0 .. n - 1 : e[p] = "plain"
        /\ caller = "explorer" => \A j \in 0 .. n - 1 : e[j] # "hide"
  BY <1>2
<1> DEFINE from == IF i \in DOMAIN e THEN i ELSE 0
<1>4. from \in 0 .. n - 1 /\ DOMAIN e = 0 .. n - 1
  OBVIOUS
<1>5. /\ entries' = e /\ res' = i /\ redrawScreen' = TRUE /\ lastIndex' = selected'
      /\ screen' = [r \in DOMAIN screen |-> Blank] /\ UNCHANGED caller
      /\ \/ pc' = "draw" /\ selected' = FirstFrom(e, from)
         \/ pc' = "astray" /\ i \notin DOMAIN e
  BY <1>3 DEF Open
<1> HIDE DEF from
<1>6. FirstFrom(e, from) \in 0 .. n - 1 /\ e[FirstFrom(e, from)] = "plain"
  BY <1>3, <1>4, FirstFromFacts
<1>7. Shape'
  BY <1>1, <1>3, <1>5 DEF Shape, screenLenY
<1>8. Chosen'
  BY <1>4, <1>5, <1>6 DEF Chosen, Plain
<1>9. Astray'
  <2>1. SUFFICES ASSUME pc' = "astray"
                 PROVE  caller = "main" /\ DOMAIN e = 0 .. 3 + Embedded
    BY <1>5 DEF Astray
  <2>2. caller = "main" /\ n = 4 + Embedded
    BY <1>3, <1>4, <1>5, <2>1
  <2> QED BY <1>4, <2>2
<1>10. OnScreen'
  BY <1>5 DEF OnScreen
<1> QED BY <1>7, <1>8, <1>9, <1>10 DEF Inv

-----------------------------------------------------------------------------
(* Whichever way Draw takes, the page of the choice is on the screen.      *)
LEMMA DrawInv ==
  ASSUME Inv, Draw
  PROVE  Inv'
<1> DEFINE L == screenLenY
<1>1. Shape /\ Chosen /\ OnScreen
  BY DEF Inv
<1>2. L \in Nat \ {0}
  BY <1>1, RowsOfCaller
<1>3. PICK n \in Nat \ {0} : entries \in [0 .. n - 1 -> Kind]
  BY <1>1 DEF Shape
<1>4. /\ pc = "draw" /\ pc' = "input" /\ lastIndex' = selected
      /\ UNCHANGED <<caller, res, entries, selected, redrawScreen>>
      /\ screen' = IF redrawScreen \/ always THEN PageDrawn(screen)
                   ELSE IF lastIndex # selected THEN MoveDrawn(screen)
                   ELSE screen
  BY DEF Draw
<1>5. selected \in 0 .. n - 1 /\ lastIndex \in 0 .. n - 1
  BY <1>1, <1>3, <1>4 DEF Chosen
<1>6. DOMAIN screen = 0 .. L - 1
  BY <1>1 DEF Shape
<1>7. Shown = OnPage(entries, L, selected)
  BY DEF Shown, OnPage, Page
<1>8. \A r \in 0 .. L - 1 : EntryAt(r) = At(OnPage(entries, L, selected), r)
  BY <1>7 DEF EntryAt, At, Rank
<1>9. screen' = Printed(entries, L, selected)
  <2>1. CASE redrawScreen
    <3>1. screen' = PageDrawn(screen)
      BY <1>4, <2>1
    <3>2. PageDrawn(screen) = Printed(entries, L, selected)
      BY <1>6, <1>7, <1>8, <2>1 DEF PageDrawn, Printed
    <3> QED BY <3>1, <3>2
  <2>2. CASE ~redrawScreen
    <3>1. Page(lastIndex) = Page(selected) /\ screen = Printed(entries, L, lastIndex)
      BY <1>1, <1>4, <2>2 DEF OnScreen
    <3>2. OnPage(entries, L, lastIndex) = OnPage(entries, L, selected)
      BY <3>1 DEF OnPage, Page
    <3>3. CASE always
      <4>1. screen' = PageDrawn(screen)
        BY <1>4, <3>3
      <4>2. \A r \in 0 .. L - 1 :
              ~(r < Cardinality(OnPage(entries, L, selected))) => screen[r] = Blank
        BY <3>1, <3>2 DEF Printed
      <4>3. PageDrawn(screen) = Printed(entries, L, selected)
        BY <1>6, <1>7, <1>8, <2>2, <4>2 DEF PageDrawn, Printed
      <4> QED BY <4>1, <4>3
    <3>4. CASE ~always /\ lastIndex # selected
      <4>1. screen' = MoveDrawn(screen)
        BY <1>4, <2>2, <3>4
      <4>2. \A i \in 0 .. n - 1 : entries[i] # "hide"
        BY <1>1, <1>3, <3>4 DEF Shape, always
      <4>3. selected \div L = lastIndex \div L
        BY <3>1 DEF Page
      <4>4. Moved(Printed(entries, L, lastIndex), L, lastIndex, selected)
              = Printed(entries, L, selected)
        <5> HIDE DEF L
        <5> QED BY <1>2, <1>3, <1>5, <3>4, <4>2, <4>3, MovePrinted
      <4> QED BY <3>1, <4>1, <4>4 DEF MoveDrawn, Moved, Row
    <3>5. CASE ~always /\ lastIndex = selected
      BY <1>4, <2>2, <3>1, <3>5
    <3> QED BY <3>3, <3>4, <3>5
  <2> QED BY <1>1, <2>1, <2>2 DEF Shape
<1>10. DOMAIN screen' = 0 .. L - 1
  BY <1>9 DEF Printed
<1>11. Shape' /\ Chosen' /\ Astray'
  BY <1>1, <1>4, <1>10 DEF Shape, Chosen, Astray, screenLenY, Plain
<1>12. OnScreen'
  BY <1>4, <1>9 DEF OnScreen, screenLenY
<1> QED BY <1>11, <1>12 DEF Inv

-----------------------------------------------------------------------------
(* A move that began on an entry lands on one that can be chosen.          *)
LEMMA LandingFacts ==
  ASSUME Shape, Chosen, pc = "input", NEW s \in 0 .. count - 1
  PROVE  Landing(s) \in DOMAIN entries /\ Plain(Landing(s))
<1>1. PICK n \in Nat \ {0} : entries \in [0 .. n - 1 -> Kind]
  BY DEF Shape
<1>2. count = n /\ DOMAIN entries = 0 .. n - 1
  BY <1>1, Counted
<1>3. lastIndex \in 0 .. n - 1 /\ Plain(lastIndex)
  BY <1>2 DEF Chosen
<1> DEFINE stop == {t \in 0 .. count - 1 : t = 0 \/ t >= count - 1 \/ Plain(t)}
           above == {t \in stop : t >= s}
           below == {t \in stop : t <= s}
<1>4. Skipping(s) = IF s > lastIndex THEN Min(above) ELSE Max(below)
  BY DEF Skipping
<1>5. stop \subseteq 0 .. n - 1 /\ 0 \in stop /\ n - 1 \in stop
  BY <1>2
<1> HIDE DEF stop
<1>6. s \in 0 .. n - 1
  BY <1>2
<1>7. Min(above) \in 0 .. n - 1
  <2>1. n - 1 \in above /\ above \in SUBSET Nat /\ above \subseteq 0 .. n - 1
    <3>1. \A t \in stop : t \in 0 .. n - 1
      BY <1>5
    <3>2. n - 1 \in above
      BY <1>5, <1>6
    <3>3. \A t \in above : t \in 0 .. n - 1 /\ t \in Nat
      BY <3>1
    <3> QED BY <3>2, <3>3
  <2> HIDE DEF above
  <2> QED BY <2>1, MinFacts
<1>8. Max(below) \in 0 .. n - 1
  <2>1. 0 \in below /\ below \in SUBSET Nat /\ below \subseteq 0 .. n - 1
    <3>1. \A t \in stop : t \in 0 .. n - 1
      BY <1>5
    <3>2. 0 \in below
      BY <1>5, <1>6
    <3>3. \A t \in below : t \in 0 .. n - 1 /\ t \in Nat
      BY <3>1
    <3> QED BY <3>2, <3>3
  <2>2. n - 1 \in Nat /\ \A x \in below : x <= n - 1
    BY <2>1
  <2> HIDE DEF below
  <2>3. Max(below) \in below
    BY <2>1, <2>2, MaxFacts
  <2> QED BY <2>1, <2>3
<1>9. Skipping(s) \in 0 .. n - 1
  BY <1>4, <1>7, <1>8
<1> QED BY <1>2, <1>3, <1>9 DEF Landing

LEMMA MoveInv ==
  ASSUME Inv, pc = "input", NEW s \in 0 .. count - 1, MoveTo(s)
  PROVE  Inv'
<1>1. Shape /\ Chosen /\ OnScreen
  BY DEF Inv
<1>2. Landing(s) \in DOMAIN entries /\ Plain(Landing(s))
  BY <1>1, LandingFacts
<1>3. /\ selected' = Landing(s) /\ pc' = "draw"
      /\ redrawScreen' = (Page(Landing(s)) # Page(lastIndex))
      /\ UNCHANGED <<caller, res, entries, lastIndex, screen, user>>
  BY DEF MoveTo, Turns
<1>4. lastIndex = selected /\ screen = Printed(entries, screenLenY, selected)
  BY <1>1 DEF OnScreen
<1>5. redrawScreen' \in BOOLEAN
  BY <1>3
<1>6. Shape'
  BY <1>1, <1>3, <1>5 DEF Shape, screenLenY
<1>7. Chosen'
  BY <1>1, <1>2, <1>3 DEF Chosen, Plain
<1>8. OnScreen'
  <2>1. SUFFICES ASSUME ~redrawScreen'
                 PROVE  /\ Page(lastIndex)' = Page(selected)'
                        /\ screen' = Printed(entries, screenLenY, lastIndex)'
    BY <1>3 DEF OnScreen
  <2>2. Page(Landing(s)) = Page(lastIndex)
    BY <1>3, <2>1
  <2> QED BY <1>3, <1>4, <2>2 DEF Page, screenLenY
<1>9. Astray'
  BY <1>3 DEF Astray
<1> QED BY <1>6, <1>7, <1>8, <1>9 DEF Inv

LEMMA PressInv ==
  ASSUME Inv, Press \/ Left
  PROVE  Inv'
<1>1. Shape /\ Chosen /\ OnScreen
  BY DEF Inv
<1>2. pc = "input"
  BY DEF Press, Down, Up, Right, Left, Input
<1>3. PICK n \in Nat \ {0} : entries \in [0 .. n - 1 -> Kind]
  BY <1>1 DEF Shape
<1>4. count = n /\ DOMAIN entries = 0 .. n - 1
  BY <1>3, Counted
<1>5. selected \in 0 .. n - 1 /\ screenLenY \in Nat \ {0}
  BY <1>1, <1>2, <1>4, RowsOfCaller DEF Chosen
<1>6. \E s \in 0 .. n - 1 : MoveTo(s)
  <2>1. CASE Down
    BY <1>4, <1>5, <2>1 DEF Down
  <2>2. CASE Up
    BY <1>4, <1>5, <2>2 DEF Up
  <2>3. CASE Right
    BY <1>4, <1>5, <2>3 DEF Right
  <2>4. CASE Left
    BY <1>4, <1>5, <2>4 DEF Left
  <2> QED BY <2>1, <2>2, <2>3, <2>4 DEF Press
<1> QED BY <1>2, <1>4, <1>6, MoveInv

LEMMA ReturnInv ==
  ASSUME Inv, PressA \/ PressB
  PROVE  Inv' /\ pc = "input" /\ (res' = 0 \/ Plain(res)')
<1>1. Shape /\ Chosen /\ OnScreen
  BY DEF Inv
<1>2. PICK n \in Nat \ {0} : entries \in [0 .. n - 1 -> Kind]
  BY <1>1 DEF Shape
<1>3. /\ pc = "input" /\ pc' = "gather" /\ (res' = selected \/ res' = 0)
      /\ UNCHANGED <<caller, entries, selected, lastIndex, redrawScreen, screen, user>>
  BY DEF PressA, PressB, Return, Input
<1>4. selected \in 0 .. n - 1 /\ Plain(selected)
  BY <1>1, <1>2, <1>3 DEF Chosen
<1>5. res' \in Nat /\ (res' = 0 \/ Plain(res)')
  BY <1>3, <1>4 DEF Plain
<1>6. Shape' /\ Chosen' /\ Astray' /\ OnScreen'
  BY <1>1, <1>3, <1>5 DEF Shape, Chosen, Astray, OnScreen, screenLenY
<1> QED BY <1>3, <1>5, <1>6 DEF Inv

-----------------------------------------------------------------------------
LEMMA InitInv == Init => Inv
<1> SUFFICES ASSUME Init PROVE Inv
  OBVIOUS
<1>1. entries \in [0 .. 1 - 1 -> Kind] /\ 1 \in Nat \ {0} /\ entries[0] = "plain"
  BY DEF Init, Kind
<1> QED BY <1>1 DEF Init, Inv, Shape, Chosen, Astray, OnScreen, screenLenY

LEMMA NextInv ==
  ASSUME Inv, [Next]_vars
  PROVE  Inv'
<1>1. CASE Next
  BY <1>1, GatherInv, DrawInv, PressInv, ReturnInv DEF Next
<1>2. CASE UNCHANGED vars
  BY <1>2 DEF vars, Inv, Shape, Chosen, Astray, OnScreen, Plain, Page, screenLenY
<1> QED BY <1>1, <1>2

LEMMA Invariance == Spec => []Inv
<1>1. Inv /\ [Next]_vars => Inv'
  BY NextInv
<1> QED BY <1>1, InitInv, PTL DEF Spec

(* The loop of newMenu never leaves the entries, whichever index its       *)
(* caller has kept (menu.c 48-52, explorer.c 73), but in the main menu     *)
(* when the scripts of the card have gone (mainmenu.c 212).                *)
THEOREM NeverLeavesTheEntries == Spec => []StartsOnAnEntry
<1>1. Inv => StartsOnAnEntry
  BY DEF Inv, Chosen, Astray, StartsOnAnEntry
<1> QED BY <1>1, Invariance, PTL

(* The two rows newMenu redraws, or the page it draws anew, leave on the   *)
(* screen what drawing everything would (menu.c 70-105).                   *)
THEOREM TheChoiceIsShown == Spec => []ShowsTheChoice
<1>1. Inv => ShowsTheChoice
  <2> SUFFICES ASSUME Inv, pc = "input" PROVE ShowsTheChoice
    BY DEF ShowsTheChoice
  <2> DEFINE L == screenLenY
  <2>1. Shape /\ Chosen /\ screen = Printed(entries, L, selected)
    BY DEF Inv, OnScreen
  <2>2. L \in Nat \ {0}
    BY <2>1, RowsOfCaller
  <2>3. PICK n \in Nat \ {0} : entries \in [0 .. n - 1 -> Kind]
    BY <2>1 DEF Shape
  <2>4. selected \in 0 .. n - 1 /\ entries[selected] # "hide"
    BY <2>1, <2>3 DEF Chosen, Plain
  <2>5. Shown = OnPage(entries, L, selected)
    BY DEF Shown, OnPage, Page
  <2> HIDE DEF L
  <2>6. /\ {r \in DOMAIN screen : screen[r].lit} # {}
        /\ \A r \in DOMAIN screen : screen[r].lit <=> screen[r].entry = selected
        /\ {screen[r].entry : r \in DOMAIN screen} \ {-1} = OnPage(entries, L, selected)
    BY <2>1, <2>2, <2>3, <2>4, PrintedShows
  <2> QED BY <2>5, <2>6 DEF ShowsTheChoice
<1> QED BY <1>1, Invariance, PTL

(* A button returns an entry that can be chosen, or 0 (menu.c 127-131,     *)
(* 157-164).                                                               *)
THEOREM AChoiceIsReturned == Spec => ReturnsAChoice
<1>1. Inv /\ [Next]_vars
        => [pc = "input" /\ pc' = "gather" => res' = 0 \/ Plain(res')]_vars
  <2> SUFFICES ASSUME Inv, Next, pc = "input", pc' = "gather"
               PROVE  res' = 0 \/ Plain(res')
    OBVIOUS
  <2>1. PressA \/ PressB
    BY DEF Next, Gather, GatherExplorer, GatherMain, GatherFile, Open, Draw, Press,
           Down, Up, Right, Left, MoveTo
  <2>2. (res' = 0 \/ Plain(res)') /\ entries' = entries
    BY <2>1, ReturnInv DEF PressA, PressB, Return
  <2> QED BY <2>2 DEF Plain
<1> QED BY <1>1, Invariance, PTL DEF Spec, ReturnsAChoice
=============================================================================
