--------------------------- MODULE VerifOpsProofs ---------------------------
(***************************************************************************)
(* Theorems about VerifOps, for tensors, vectors and chunks of any size    *)
(* and any number of threads: reducing lanes, chunks and then the chunks'  *)
(* results, in any order, is reducing the elements one by one.             *)
(***************************************************************************)
EXTENDS VerifOps, NaturalsInduction, WellFoundedInduction, TLAPS

ReduceOps == {"Max", "Sum", "LogicalOr"}

\* Induction over the naturals, for a set that may be defined on the spot.
LEMMA SetInduction ==
    ASSUME NEW S, 0 \in S, \A n \in Nat : n \in S => n + 1 \in S
    PROVE  \A n \in Nat : n \in S
  <1> DEFINE R == OpToRel(<, Nat)
             T == Nat \ S
  <1>1. R = {ss \in Nat \X Nat : ss[1] < ss[2]}
    BY DEF OpToRel
  <1>2. SUFFICES ASSUME T # {} PROVE FALSE
    OBVIOUS
  <1> HIDE DEF R
  <1>3. PICK x \in T : \A y \in T : <<y, x>> \notin R
    BY <1>2, WFMin, NatLessThanWellFounded DEF R
  <1>4. x \in Nat /\ x \notin S /\ x # 0
    OBVIOUS
  <1>5. x - 1 \in Nat /\ x - 1 \notin S
    BY <1>4
  <1>6. <<x - 1, x>> \in R
    BY <1>1, <1>4, <1>5
  <1> QED
    BY <1>3, <1>5, <1>6

-----------------------------------------------------------------------------
\* The recursive function of ReduceInto, up to n.
ReducedUpTo(op, x, f, n, result) ==
    result = [k \in 0..n |-> IF k = 0 THEN x ELSE Reduce(op, result[k - 1], f[k])]

\* The function ReduceInto chooses exists: it is built one entry after the other.
LEMMA ReduceIntoDefined ==
    ASSUME NEW op, NEW x, NEW f, NEW n \in Nat
    PROVE  \E result : ReducedUpTo(op, x, f, n, result) /\ ReduceInto(op, x, f, n) = result[n]
  <1> DEFINE Good == {k \in Nat : \E result : ReducedUpTo(op, x, f, k, result)}
  <1>1. 0 \in Good
    <2> DEFINE result == [i \in 0..0 |-> x]
    <2>1. ReducedUpTo(op, x, f, 0, result)
      BY DEF ReducedUpTo
    <2> QED
      BY <2>1
  <1>2. ASSUME NEW k \in Nat, k \in Good PROVE k + 1 \in Good
    <2>1. PICK result : ReducedUpTo(op, x, f, k, result)
      BY <1>2
    <2> DEFINE more == [i \in 0..(k + 1) |->
                           IF i = k + 1 THEN Reduce(op, result[k], f[k + 1]) ELSE result[i]]
    <2>2. ReducedUpTo(op, x, f, k + 1, more)
      <3>1. \A i \in 0..k : more[i] = result[i]
        OBVIOUS
      <3>2. \A i \in 0..k : result[i] = IF i = 0 THEN x ELSE Reduce(op, result[i - 1], f[i])
        BY <2>1 DEF ReducedUpTo
      <3>3. ASSUME NEW i \in 0..(k + 1)
            PROVE  more[i] = IF i = 0 THEN x ELSE Reduce(op, more[i - 1], f[i])
        <4>1. CASE i = k + 1
          BY <4>1, <3>1
        <4>2. CASE i \in 1..k
          <5>1. i - 1 \in 0..k
            BY <4>2
          <5> QED
            BY <4>2, <5>1, <3>1, <3>2
        <4>3. CASE i = 0
          BY <4>3, <3>1, <3>2
        <4> QED
          BY <4>1, <4>2, <4>3
      <3> HIDE DEF more
      <3> QED
        BY <3>3 DEF ReducedUpTo, more
    <2> QED
      BY <2>2
  <1>3. n \in Good
    <2> HIDE DEF Good
    <2> QED
      BY <1>1, <1>2, SetInduction
  <1>4. PICK result : ReducedUpTo(op, x, f, n, result)
    BY <1>3
  <1> DEFINE chosen == CHOOSE g : ReducedUpTo(op, x, f, n, g)
  <1>5. ReducedUpTo(op, x, f, n, chosen)
    BY <1>4
  <1>6. ReduceInto(op, x, f, n) = chosen[n]
    BY DEF ReduceInto, ReducedUpTo
  <1> QED
    BY <1>5, <1>6

\* A loop over nothing.
LEMMA ReduceIntoNothing ==
    ASSUME NEW op, NEW x, NEW f
    PROVE  ReduceInto(op, x, f, 0) = x
  <1>1. PICK r : ReducedUpTo(op, x, f, 0, r) /\ ReduceInto(op, x, f, 0) = r[0]
    BY ReduceIntoDefined
  <1> QED
    BY <1>1 DEF ReducedUpTo

\* One more element is reduced into what the others were.
LEMMA ReduceIntoMore ==
    ASSUME NEW op, NEW x, NEW f, NEW n \in Nat
    PROVE  ReduceInto(op, x, f, n + 1) = Reduce(op, ReduceInto(op, x, f, n), f[n + 1])
  <1>1. PICK r : ReducedUpTo(op, x, f, n, r) /\ ReduceInto(op, x, f, n) = r[n]
    BY ReduceIntoDefined
  <1>2. PICK q : ReducedUpTo(op, x, f, n + 1, q) /\ ReduceInto(op, x, f, n + 1) = q[n + 1]
    BY ReduceIntoDefined
  <1>3. \A i \in 0..n : r[i] = IF i = 0 THEN x ELSE Reduce(op, r[i - 1], f[i])
    BY <1>1 DEF ReducedUpTo
  <1>4. \A i \in 0..(n + 1) : q[i] = IF i = 0 THEN x ELSE Reduce(op, q[i - 1], f[i])
    BY <1>2 DEF ReducedUpTo
  <1> DEFINE Same == {k \in Nat : k <= n => q[k] = r[k]}
  <1>5. 0 \in Same
    BY <1>3, <1>4
  <1>6. ASSUME NEW k \in Nat, k \in Same PROVE k + 1 \in Same
    BY <1>6, <1>3, <1>4
  <1>7. n \in Same
    <2> HIDE DEF Same
    <2> QED
      BY <1>5, <1>6, SetInduction
  <1>8. q[n + 1] = Reduce(op, q[n], f[n + 1])
    BY <1>4
  <1> QED
    BY <1>1, <1>2, <1>7, <1>8

-----------------------------------------------------------------------------
\* Every operation is associative and commutative on its values, and has a unit.
LEMMA ReduceIs ==
    ASSUME NEW op \in ReduceOps
    PROVE  /\ InitValue(op) \in Values(op)
           /\ \A x, y \in Values(op) : Reduce(op, x, y) \in Values(op)
           /\ \A x, y \in Values(op) : Reduce(op, x, y) = Reduce(op, y, x)
           /\ \A x, y, z \in Values(op) :
                 Reduce(op, Reduce(op, x, y), z) = Reduce(op, x, Reduce(op, y, z))
           /\ \A x \in Values(op) : Reduce(op, InitValue(op), x) = x /\ Reduce(op, x, InitValue(op)) = x
  <1>1. CASE op = "Max"
    <2>1. /\ InitValue(op) = Lowest /\ Values(op) = {x \in Int : x >= Lowest} /\ Lowest \in Int
          /\ \A x, y : Reduce(op, x, y) = IF x >= y THEN x ELSE y
      BY <1>1, VerifAssumption DEF InitValue, Values, Reduce, Larger
    <2> QED
      BY <2>1
  <1>2. CASE op = "Sum"
    <2>1. /\ InitValue(op) = 0 /\ Values(op) = Int
          /\ \A x, y : Reduce(op, x, y) = x + y
      BY <1>2 DEF InitValue, Values, Reduce
    <2> QED
      BY <2>1
  <1>3. CASE op = "LogicalOr"
    <2>1. /\ InitValue(op) = FALSE /\ Values(op) = BOOLEAN
          /\ \A x, y : Reduce(op, x, y) = (x \/ y)
      BY <1>3, Zenon DEF InitValue, Values, Reduce
    <2>2. \A x, y \in BOOLEAN : (x \/ y) \in BOOLEAN /\ (x \/ y) = (y \/ x)
      BY Zenon
    <2>3. \A x, y, z \in BOOLEAN : ((x \/ y) \/ z) = (x \/ (y \/ z))
      OBVIOUS
    <2>4. \A x \in BOOLEAN : (FALSE \/ x) = x /\ (x \/ FALSE) = x
      OBVIOUS
    <2>5. FALSE \in BOOLEAN
      OBVIOUS
    <2> QED
      BY <2>1, <2>2, <2>3, <2>4, <2>5, Zenon
  <1> QED
    BY <1>1, <1>2, <1>3 DEF ReduceOps

-----------------------------------------------------------------------------
\* What f[1], ..., f[n] reduce to, and that they are elements of the operation.
Fold(op, f, n) == ReduceInto(op, InitValue(op), f, n)
AreValues(op, f, n) == \A i \in 1..n : f[i] \in Values(op)

\* One more operand.
LEMMA FoldMore ==
    ASSUME NEW op, NEW f, NEW n \in Nat
    PROVE  Fold(op, f, n + 1) = Reduce(op, Fold(op, f, n), f[n + 1])
  BY ReduceIntoMore, Zenon DEF Fold

\* A loop stays among the values, and what it starts from is one more operand.
LEMMA ReduceIntoIsFold ==
    ASSUME NEW op \in ReduceOps, NEW x \in Values(op), NEW f, NEW n \in Nat, AreValues(op, f, n)
    PROVE  /\ Fold(op, f, n) \in Values(op)
           /\ ReduceInto(op, x, f, n) = Reduce(op, x, Fold(op, f, n))
  <1> DEFINE Good == {k \in Nat : k <= n =>
                         /\ Fold(op, f, k) \in Values(op)
                         /\ ReduceInto(op, x, f, k) = Reduce(op, x, Fold(op, f, k))}
  <1>1. 0 \in Good
    BY ReduceIntoNothing, ReduceIs DEF Fold
  <1>2. ASSUME NEW k \in Nat, k \in Good PROVE k + 1 \in Good
    <2>1. SUFFICES ASSUME k + 1 <= n
                   PROVE  /\ Fold(op, f, k + 1) \in Values(op)
                          /\ ReduceInto(op, x, f, k + 1) = Reduce(op, x, Fold(op, f, k + 1))
      OBVIOUS
    <2>2. /\ Fold(op, f, k) \in Values(op)
          /\ ReduceInto(op, x, f, k) = Reduce(op, x, Fold(op, f, k))
      BY <1>2, <2>1
    <2>3. Fold(op, f, k + 1) = Reduce(op, Fold(op, f, k), f[k + 1])
      BY FoldMore, Zenon
    <2>4. ReduceInto(op, x, f, k + 1) = Reduce(op, ReduceInto(op, x, f, k), f[k + 1])
      BY ReduceIntoMore, Zenon
    <2>5. f[k + 1] \in Values(op)
      BY <2>1 DEF AreValues
    <2> DEFINE a == Fold(op, f, k)
               b == f[k + 1]
    <2>6. Reduce(op, a, b) \in Values(op) /\ Reduce(op, Reduce(op, x, a), b) = Reduce(op, x, Reduce(op, a, b))
      <3>1. a \in Values(op) /\ b \in Values(op)
        BY <2>2, <2>5
      <3> HIDE DEF a, b
      <3> QED
        BY <3>1, ReduceIs
    <2> QED
      BY <2>2, <2>3, <2>4, <2>6
  <1>3. n \in Good
    <2> HIDE DEF Good
    <2> QED
      BY <1>1, <1>2, SetInduction
  <1> QED
    BY <1>3

\* A loop reads f[1], ..., f[n] and nothing else.
LEMMA ReduceIntoSame ==
    ASSUME NEW op, NEW x, NEW f, NEW h, NEW n \in Nat, \A i \in 1..n : f[i] = h[i]
    PROVE  ReduceInto(op, x, f, n) = ReduceInto(op, x, h, n)
  <1> DEFINE Good == {k \in Nat : k <= n => ReduceInto(op, x, f, k) = ReduceInto(op, x, h, k)}
  <1>1. 0 \in Good
    BY ReduceIntoNothing
  <1>2. ASSUME NEW k \in Nat, k \in Good PROVE k + 1 \in Good
    <2>1. /\ ReduceInto(op, x, f, k + 1) = Reduce(op, ReduceInto(op, x, f, k), f[k + 1])
          /\ ReduceInto(op, x, h, k + 1) = Reduce(op, ReduceInto(op, x, h, k), h[k + 1])
      BY ReduceIntoMore, Zenon
    <2> QED
      BY <1>2, <2>1
  <1>3. n \in Good
    <2> HIDE DEF Good
    <2> QED
      BY <1>1, <1>2, SetInduction
  <1> QED
    BY <1>3

\* h goes on where f is after m elements.
Continues(h, f, m, n) == \A i \in 1..n : h[i] = f[m + i]

\* A loop can be interrupted and go on with what it has.
LEMMA ReduceIntoJoined ==
    ASSUME NEW op, NEW x, NEW f, NEW m \in Nat, NEW h, NEW n \in Nat, Continues(h, f, m, n)
    PROVE  ReduceInto(op, x, f, m + n) = ReduceInto(op, ReduceInto(op, x, f, m), h, n)
  <1> DEFINE y == ReduceInto(op, x, f, m)
             Good == {k \in Nat : k <= n =>
                         ReduceInto(op, x, f, m + k) = ReduceInto(op, y, h, k)}
  <1>1. 0 \in Good
    BY ReduceIntoNothing
  <1>2. ASSUME NEW k \in Nat, k \in Good PROVE k + 1 \in Good
    <2>1. SUFFICES ASSUME k + 1 <= n
                   PROVE  ReduceInto(op, x, f, m + (k + 1)) = ReduceInto(op, y, h, k + 1)
      OBVIOUS
    <2>2. ReduceInto(op, x, f, m + k) = ReduceInto(op, y, h, k)
      BY <1>2, <2>1
    <2>3. ReduceInto(op, y, h, k + 1) = Reduce(op, ReduceInto(op, y, h, k), h[k + 1])
      <3> HIDE DEF y
      <3> QED
        BY ReduceIntoMore, Zenon
    <2>4. m + k \in Nat /\ m + (k + 1) = (m + k) + 1 /\ h[k + 1] = f[(m + k) + 1]
      BY <2>1 DEF Continues
    <2>5. ReduceInto(op, x, f, (m + k) + 1) = Reduce(op, ReduceInto(op, x, f, m + k), f[(m + k) + 1])
      BY <2>4, ReduceIntoMore, Zenon
    <2> QED
      BY <2>2, <2>3, <2>4, <2>5
  <1>3. n \in Good
    <2> HIDE DEF Good
    <2> QED
      BY <1>1, <1>2, SetInduction
  <1> QED
    BY <1>3

\* Two folds reduced are the fold of the two reduced place by place.
LEMMA FoldOfPairs ==
    ASSUME NEW op \in ReduceOps, NEW f, NEW h, NEW g, NEW n \in Nat,
           AreValues(op, f, n), AreValues(op, h, n),
           \A i \in 1..n : g[i] = Reduce(op, f[i], h[i])
    PROVE  Fold(op, g, n) = Reduce(op, Fold(op, f, n), Fold(op, h, n))
  <1> DEFINE Good == {k \in Nat : k <= n =>
                         Fold(op, g, k) = Reduce(op, Fold(op, f, k), Fold(op, h, k))}
  <1>1. 0 \in Good
    BY ReduceIntoNothing, ReduceIs DEF Fold
  <1>2. ASSUME NEW k \in Nat, k \in Good PROVE k + 1 \in Good
    <2>1. SUFFICES ASSUME k + 1 <= n
                   PROVE  Fold(op, g, k + 1) = Reduce(op, Fold(op, f, k + 1), Fold(op, h, k + 1))
      OBVIOUS
    <2> DEFINE a == Fold(op, f, k)
               b == Fold(op, h, k)
               c == f[k + 1]
               d == h[k + 1]
    <2>2. Fold(op, g, k) = Reduce(op, a, b) /\ g[k + 1] = Reduce(op, c, d)
      BY <1>2, <2>1
    <2>3. /\ Fold(op, g, k + 1) = Reduce(op, Fold(op, g, k), g[k + 1])
          /\ Fold(op, f, k + 1) = Reduce(op, a, c)
          /\ Fold(op, h, k + 1) = Reduce(op, b, d)
      BY FoldMore, Zenon
    <2>4. c \in Values(op) /\ d \in Values(op) /\ AreValues(op, f, k) /\ AreValues(op, h, k)
      BY <2>1 DEF AreValues
    <2>5. a \in Values(op) /\ b \in Values(op)
      BY <2>4, ReduceIntoIsFold, ReduceIs
    <2> HIDE DEF a, b, c, d
    <2>6. Reduce(op, Reduce(op, a, b), Reduce(op, c, d)) = Reduce(op, a, Reduce(op, b, Reduce(op, c, d)))
      BY <2>4, <2>5, ReduceIs
    <2>7. Reduce(op, b, Reduce(op, c, d)) = Reduce(op, Reduce(op, b, c), d)
      BY <2>4, <2>5, ReduceIs
    <2>8. Reduce(op, Reduce(op, b, c), d) = Reduce(op, Reduce(op, c, b), d)
      BY <2>4, <2>5, ReduceIs
    <2>9. Reduce(op, Reduce(op, c, b), d) = Reduce(op, c, Reduce(op, b, d))
      BY <2>4, <2>5, ReduceIs
    <2>10. Reduce(op, a, Reduce(op, c, Reduce(op, b, d))) = Reduce(op, Reduce(op, a, c), Reduce(op, b, d))
      BY <2>4, <2>5, ReduceIs
    <2> QED
      BY <2>2, <2>3, <2>6, <2>7, <2>8, <2>9, <2>10
  <1>3. n \in Good
    <2> HIDE DEF Good
    <2> QED
      BY <1>1, <1>2, SetInduction
  <1> QED
    BY <1>3

\* Nothing but units, and one operand among units.
LEMMA FoldOfOne ==
    ASSUME NEW op \in ReduceOps, NEW n \in Nat, NEW f, NEW t \in Nat, NEW x \in Values(op),
           \A i \in 1..n : f[i] = IF i = t THEN x ELSE InitValue(op)
    PROVE  Fold(op, f, n) = IF t \in 1..n THEN x ELSE InitValue(op)
  <1> DEFINE Good == {k \in Nat : k <= n =>
                         Fold(op, f, k) = IF t \in 1..k THEN x ELSE InitValue(op)}
  <1>1. 0 \in Good
    BY ReduceIntoNothing DEF Fold
  <1>2. ASSUME NEW k \in Nat, k \in Good PROVE k + 1 \in Good
    <2>1. SUFFICES ASSUME k + 1 <= n
                   PROVE  Fold(op, f, k + 1) = IF t \in 1..(k + 1) THEN x ELSE InitValue(op)
      OBVIOUS
    <2>2. Fold(op, f, k) = IF t \in 1..k THEN x ELSE InitValue(op)
      BY <1>2, <2>1
    <2>3. Fold(op, f, k + 1) = Reduce(op, Fold(op, f, k), f[k + 1])
      BY FoldMore, Zenon
    <2>4. f[k + 1] = IF k + 1 = t THEN x ELSE InitValue(op)
      BY <2>1
    <2>5. CASE k + 1 = t
      BY <2>2, <2>3, <2>4, <2>5, ReduceIs
    <2>6. CASE k + 1 # t
      BY <2>2, <2>3, <2>4, <2>6, ReduceIs
    <2> QED
      BY <2>5, <2>6
  <1>3. n \in Good
    <2> HIDE DEF Good
    <2> QED
      BY <1>1, <1>2, SetInduction
  <1> QED
    BY <1>3

\* An operand in the place of a unit is reduced into the rest.
LEMMA FoldWithOneMore ==
    ASSUME NEW op \in ReduceOps, NEW n \in Nat, NEW f, NEW g, NEW t \in 1..n, NEW x \in Values(op),
           AreValues(op, f, n), f[t] = InitValue(op), g[t] = x, \A i \in 1..n : i # t => g[i] = f[i]
    PROVE  Fold(op, g, n) = Reduce(op, Fold(op, f, n), x)
  <1> DEFINE h == [i \in 1..n |-> IF i = t THEN x ELSE InitValue(op)]
  <1>1. \A i \in 1..n : h[i] = IF i = t THEN x ELSE InitValue(op)
    OBVIOUS
  <1> HIDE DEF h
  <1>2. AreValues(op, h, n)
    BY <1>1, ReduceIs DEF AreValues
  <1>3. \A i \in 1..n : g[i] = Reduce(op, f[i], h[i])
    BY <1>1, ReduceIs DEF AreValues
  <1>4. Fold(op, h, n) = x
    BY <1>1, FoldOfOne
  <1> QED
    BY <1>2, <1>3, <1>4, FoldOfPairs

-----------------------------------------------------------------------------
\* The product grows with a factor.
LEMMA ProductGrows ==
    ASSUME NEW a \in Nat, NEW b \in Nat, NEW c \in Nat, a <= b
    PROVE  a * c \in Nat /\ b * c \in Nat /\ a * c <= b * c
  <1>1. PICK d \in Nat : b = a + d
    <2>1. b - a \in Nat /\ b = a + (b - a)
      OBVIOUS
    <2> QED
      BY <2>1
  <1>2. a * c \in Nat /\ d * c \in Nat /\ b * c = a * c + d * c
    BY <1>1
  <1> QED
    BY <1>2

\* Whole numbers of vectors, and of chunks.
LEMMA Divided ==
    ASSUME NEW n \in Nat, NEW c \in Nat \ {0}
    PROVE  /\ n \div c \in Nat /\ (n \div c) * c <= n
           /\ DivUp(n, c) \in Nat /\ n <= DivUp(n, c) * c
           /\ n > 0 => DivUp(n, c) > 0 /\ (DivUp(n, c) - 1) * c < n
           /\ n = 0 => DivUp(n, c) = 0
           /\ \A q \in Nat : n <= q * c => DivUp(n, c) <= q
  <1>1. \A x \in Nat : x \div c \in Nat /\ (x \div c) * c <= x /\ x < (x \div c) * c + c
    OBVIOUS
  <1> QED
    BY <1>1 DEF DivUp

-----------------------------------------------------------------------------
\* Element j of vector s is element (s - 1) * lanes + j of f.
IsGrid(g, f, steps, lanes) ==
    \A j \in 1..lanes : \A s \in 1..steps : g[j][s] = f[(s - 1) * lanes + j]

\* By vectors: each lane reduced, and then the lanes, is all of it reduced (verif_ops.cpp:220-230).
LEMMA LanesReduced ==
    ASSUME NEW op \in ReduceOps, NEW f, NEW steps \in Nat, NEW lanes \in Nat \ {0},
           AreValues(op, f, steps * lanes), NEW g, IsGrid(g, f, steps, lanes), NEW lane,
           \A j \in 1..lanes : lane[j] = Fold(op, g[j], steps)
    PROVE  Fold(op, lane, lanes) = Fold(op, f, steps * lanes)
  <1> DEFINE Lanes(k) == [j \in 1..lanes |-> Fold(op, g[j], k)]
             Good == {k \in Nat : k <= steps =>
                         Fold(op, Lanes(k), lanes) = Fold(op, f, k * lanes)}
  <1>1. ASSUME NEW k \in Nat, k <= steps, NEW j \in 1..lanes PROVE AreValues(op, g[j], k)
    <2>1. SUFFICES ASSUME NEW s \in 1..k PROVE g[j][s] \in Values(op)
      BY DEF AreValues
    <2>2. s \in Nat /\ s - 1 \in Nat /\ s <= steps /\ j \in Nat /\ lanes \in Nat
      BY <1>1
    <2>3. s * lanes <= steps * lanes /\ (s - 1) * lanes \in Nat /\ (s - 1) * lanes + lanes = s * lanes
      BY <2>2, ProductGrows
    <2>4. (s - 1) * lanes + j \in 1..(steps * lanes)
      BY <2>2, <2>3
    <2>5. s \in 1..steps
      BY <2>2
    <2> QED
      BY <2>4, <2>5 DEF AreValues, IsGrid
  <1>2. 0 \in Good
    <2>1. ASSUME NEW j \in 1..lanes PROVE Lanes(0)[j] = IF j = 0 THEN InitValue(op) ELSE InitValue(op)
      BY ReduceIntoNothing DEF Fold
    <2>2. Fold(op, Lanes(0), lanes) = InitValue(op)
      <3> HIDE DEF Lanes
      <3> QED
        BY <2>1, FoldOfOne, ReduceIs
    <2>3. Fold(op, f, 0) = InitValue(op)
      BY ReduceIntoNothing DEF Fold
    <2> QED
      BY <2>2, <2>3
  <1>3. ASSUME NEW k \in Nat, k \in Good PROVE k + 1 \in Good
    <2>1. SUFFICES ASSUME k + 1 <= steps
                   PROVE  Fold(op, Lanes(k + 1), lanes) = Fold(op, f, (k + 1) * lanes)
      OBVIOUS
    <2> DEFINE h == [j \in 1..lanes |-> f[k * lanes + j]]
    <2>2. /\ k * lanes \in Nat /\ (k + 1) * lanes = k * lanes + lanes
          /\ (k + 1) * lanes <= steps * lanes /\ steps * lanes \in Nat
      BY <2>1, ProductGrows
    <2>3. AreValues(op, h, lanes)
      <3>1. \A j \in 1..lanes : h[j] = f[k * lanes + j] /\ k * lanes + j \in 1..(steps * lanes)
        BY <2>2
      <3> QED
        BY <3>1 DEF AreValues
    <2>4. ASSUME NEW j \in 1..lanes
          PROVE  /\ Lanes(k)[j] \in Values(op)
                 /\ Lanes(k + 1)[j] = Reduce(op, Lanes(k)[j], h[j])
      <3>1. Fold(op, g[j], k) \in Values(op)
        BY <2>1, <1>1, ReduceIntoIsFold, ReduceIs
      <3> DEFINE p == g[j]
      <3>2. Fold(op, p, k + 1) = Reduce(op, Fold(op, p, k), p[k + 1])
        <4> HIDE DEF p
        <4> QED
          BY FoldMore
      <3>3. g[j][k + 1] = f[k * lanes + j]
        <4>1. k + 1 \in 1..steps /\ (k + 1) - 1 = k
          BY <2>1
        <4> QED
          BY <4>1 DEF IsGrid
      <3> QED
        BY <3>1, <3>2, <3>3
    <2>5. Fold(op, Lanes(k), lanes) = Fold(op, f, k * lanes)
      BY <1>3, <2>1
    <2> HIDE DEF Lanes, h
    <2>6. Fold(op, Lanes(k + 1), lanes) = Reduce(op, Fold(op, Lanes(k), lanes), Fold(op, h, lanes))
      <3>1. AreValues(op, Lanes(k), lanes)
        BY <2>4 DEF AreValues
      <3> QED
        BY <2>3, <2>4, <3>1, FoldOfPairs
    <2>7. Fold(op, f, k * lanes + lanes) = ReduceInto(op, Fold(op, f, k * lanes), h, lanes)
      <3>1. Continues(h, f, k * lanes, lanes)
        BY DEF Continues, h
      <3> QED
        BY <2>2, <3>1, ReduceIntoJoined DEF Fold
    <2>8. Fold(op, f, k * lanes) \in Values(op)
      <3>1. AreValues(op, f, k * lanes)
        BY <2>2 DEF AreValues
      <3> QED
        BY <2>2, <3>1, ReduceIntoIsFold, ReduceIs
    <2>9. ReduceInto(op, Fold(op, f, k * lanes), h, lanes)
              = Reduce(op, Fold(op, f, k * lanes), Fold(op, h, lanes))
      BY <2>3, <2>8, ReduceIntoIsFold
    <2> QED
      BY <2>2, <2>5, <2>6, <2>7, <2>9
  <1>4. steps \in Good
    <2> HIDE DEF Good
    <2> QED
      BY <1>2, <1>3, SetInduction
  <1>5. Fold(op, Lanes(steps), lanes) = Fold(op, lane, lanes)
    <2>1. \A j \in 1..lanes : Lanes(steps)[j] = lane[j]
      OBVIOUS
    <2> HIDE DEF Lanes
    <2> QED
      BY <2>1, ReduceIntoSame DEF Fold
  <1> QED
    BY <1>4, <1>5

\* Chunks: each one reduced, and then their results, is all of it reduced.
LEMMA ChunksReduced ==
    ASSUME NEW op \in ReduceOps, NEW f, NEW n \in Nat, NEW c \in Nat \ {0}, AreValues(op, f, n),
           NEW g, NEW chunk,
           \A t \in 1..DivUp(n, c) :
              /\ chunk[t] = Fold(op, g[t], Smaller(t * c, n) - (t - 1) * c)
              /\ Continues(g[t], f, (t - 1) * c, Smaller(t * c, n) - (t - 1) * c)
    PROVE  Fold(op, chunk, DivUp(n, c)) = Fold(op, f, n)
  <1> DEFINE T == DivUp(n, c)
             Good == {t \in Nat : t <= T => Fold(op, chunk, t) = Fold(op, f, Smaller(t * c, n))}
  <1>1. /\ T \in Nat /\ n <= T * c /\ (n > 0 => T > 0 /\ (T - 1) * c < n) /\ (n = 0 => T = 0)
        /\ c \in Nat
    BY Divided
  <1>2. 0 \in Good
    <2>1. Smaller(0 * c, n) = 0
      BY DEF Smaller
    <2> QED
      BY <2>1, ReduceIntoNothing DEF Fold
  <1>3. ASSUME NEW k \in Nat, k \in Good PROVE k + 1 \in Good
    <2>1. SUFFICES ASSUME k + 1 <= T
                   PROVE  Fold(op, chunk, k + 1) = Fold(op, f, Smaller((k + 1) * c, n))
      OBVIOUS
    <2> DEFINE b == k * c
               e == Smaller((k + 1) * c, n)
               t == k + 1
    <2>2. b \in Nat /\ e \in Nat /\ b <= e /\ e <= n /\ Smaller(k * c, n) = b /\ b <= n
      <3>1. k <= T - 1 /\ T - 1 \in Nat /\ T > 0 /\ n > 0
        BY <2>1, <1>1
      <3>2. k * c \in Nat /\ k * c <= (T - 1) * c /\ (T - 1) * c \in Nat
        BY <3>1, <1>1, ProductGrows
      <3>3. (k + 1) * c = k * c + c
        OBVIOUS
      <3> QED
        BY <3>1, <3>2, <3>3, <1>1 DEF Smaller
    <2>3. Fold(op, chunk, k) = Fold(op, f, b)
      BY <1>1, <1>3, <2>1, <2>2
    <2>4. Fold(op, chunk, k + 1) = Reduce(op, Fold(op, chunk, k), chunk[k + 1])
      BY FoldMore, Zenon
    <2>5. chunk[t] = Fold(op, g[t], e - b) /\ Continues(g[t], f, b, e - b)
      <3>1. t \in 1..T /\ t - 1 = k
        BY <2>1, <1>1
      <3> QED
        BY <3>1
    <2>6. e - b \in Nat /\ b + (e - b) = e
      BY <2>2
    <2>7. AreValues(op, f, b) /\ AreValues(op, g[t], e - b)
      <3>1. AreValues(op, f, b)
        BY <2>2 DEF AreValues
      <3>2. \A i \in 1..(e - b) : g[t][i] = f[b + i] /\ b + i \in 1..n
        BY <2>2, <2>5 DEF Continues
      <3> QED
        BY <3>1, <3>2 DEF AreValues
    <2>8. Fold(op, f, b) \in Values(op)
      BY <2>2, <2>7, ReduceIntoIsFold, ReduceIs
    <2>9. Fold(op, f, b + (e - b)) = ReduceInto(op, Fold(op, f, b), g[t], e - b)
      BY <2>2, <2>5, <2>6, ReduceIntoJoined DEF Fold
    <2>10. ReduceInto(op, Fold(op, f, b), g[t], e - b) = Reduce(op, Fold(op, f, b), Fold(op, g[t], e - b))
      BY <2>6, <2>7, <2>8, ReduceIntoIsFold
    <2> QED
      BY <2>3, <2>4, <2>5, <2>6, <2>9, <2>10
  <1>4. T \in Good
    <2> HIDE DEF Good
    <2> QED
      BY <1>1, <1>2, <1>3, SetInduction
  <1>5. Smaller(T * c, n) = n
    BY <1>1, ProductGrows DEF Smaller
  <1> QED
    BY <1>1, <1>4, <1>5

-----------------------------------------------------------------------------
\* What the operations reduce to: whether there is one that is true,
LEMMA OrReduced ==
    ASSUME NEW f, NEW n \in Nat, AreValues("LogicalOr", f, n)
    PROVE  Fold("LogicalOr", f, n) = \E i \in 1..n : f[i]
  <1> DEFINE op == "LogicalOr"
             Some(k) == \E i \in 1..k : f[i]
             Good == {k \in Nat : k <= n => Fold(op, f, k) = Some(k)}
  <1>1. /\ InitValue(op) = FALSE /\ \A x, y : Reduce(op, x, y) = (x \/ y)
        /\ \A i \in 1..n : f[i] \in BOOLEAN
    BY Zenon DEF InitValue, Reduce, AreValues, Values
  <1>2. 0 \in Good
    <2>1. Fold(op, f, 0) = FALSE
      BY <1>1, ReduceIntoNothing DEF Fold
    <2>2. Some(0) = FALSE
      OBVIOUS
    <2> QED
      BY <2>1, <2>2
  <1>3. ASSUME NEW k \in Nat, k \in Good PROVE k + 1 \in Good
    <2>1. SUFFICES ASSUME k + 1 <= n PROVE Fold(op, f, k + 1) = Some(k + 1)
      <3> HIDE DEF Some
      <3>1. k + 1 \in Nat
        OBVIOUS
      <3> QED
        BY <3>1, Zenon
    <2>2. Fold(op, f, k) = Some(k)
      <3> HIDE DEF Some
      <3>1. k <= n
        BY <2>1
      <3> QED
        BY <1>3, <3>1, Zenon
    <2>3. Fold(op, f, k + 1) = Reduce(op, Fold(op, f, k), f[k + 1])
      BY FoldMore
    <2>4. f[k + 1] \in BOOLEAN
      BY <1>1, <2>1
    <2>5. Fold(op, f, k + 1) = (Some(k) \/ f[k + 1])
      <3> HIDE DEF Some
      <3> QED
        BY <1>1, <2>2, <2>3, Zenon
    <2>6. Some(k + 1) <=> (Some(k) \/ f[k + 1])
      <3>1. \A i : i \in 1..(k + 1) <=> (i \in 1..k \/ i = k + 1)
        OBVIOUS
      <3> QED
        BY <3>1, Zenon
    <2> QED
      BY <2>5, <2>6
  <1>4. n \in Good
    <2> HIDE DEF Good
    <2> QED
      BY <1>2, <1>3, SetInduction
  <1>5. n <= n
    OBVIOUS
  <1> QED
    BY <1>4, <1>5, Zenon

\* the largest,
LEMMA MaxReduced ==
    ASSUME NEW f, NEW n \in Nat, AreValues("Max", f, n)
    PROVE  /\ \A i \in 1..n : f[i] <= Fold("Max", f, n)
           /\ Fold("Max", f, n) = Lowest \/ \E i \in 1..n : f[i] = Fold("Max", f, n)
           /\ Fold("Max", f, n) \in Int
  <1> DEFINE op == "Max"
             Best(k, m) == /\ \A i \in 1..k : f[i] <= m
                           /\ m = Lowest \/ \E i \in 1..k : f[i] = m
                           /\ m \in Int
             Good == {k \in Nat : k <= n => Best(k, Fold(op, f, k))}
  <1>1. /\ InitValue(op) = Lowest /\ Lowest \in Int
        /\ \A x, y : Reduce(op, x, y) = IF x >= y THEN x ELSE y
        /\ \A i \in 1..n : f[i] \in Int
    BY VerifAssumption DEF InitValue, Reduce, Larger, AreValues, Values
  <1>2. 0 \in Good
    <2>1. Fold(op, f, 0) = Lowest
      BY <1>1, ReduceIntoNothing DEF Fold
    <2> QED
      BY <1>1, <2>1
  <1>3. ASSUME NEW k \in Nat, k \in Good PROVE k + 1 \in Good
    <2>1. SUFFICES ASSUME k + 1 <= n PROVE Best(k + 1, Fold(op, f, k + 1))
      OBVIOUS
    <2> DEFINE m == Fold(op, f, k)
               y == f[k + 1]
    <2>2. Best(k, m)
      BY <1>3, <2>1
    <2>3. Fold(op, f, k + 1) = Reduce(op, m, y)
      BY FoldMore
    <2>4. y \in Int
      BY <1>1, <2>1
    <2>5. Fold(op, f, k + 1) = IF m >= y THEN m ELSE y
      BY <1>1, <2>3
    <2>6. \A i \in 1..(k + 1) : i \in 1..k \/ i = k + 1
      OBVIOUS
    <2>7. k + 1 \in 1..(k + 1) /\ 1..k \subseteq 1..(k + 1) /\ 1..k \subseteq 1..n
      BY <2>1
    <2> HIDE DEF m
    <2>8. CASE m >= y
      BY <1>1, <2>2, <2>4, <2>5, <2>6, <2>7, <2>8
    <2>9. CASE ~(m >= y)
      BY <1>1, <2>2, <2>4, <2>5, <2>6, <2>7, <2>9
    <2> QED
      BY <2>8, <2>9
  <1>4. n \in Good
    <2> HIDE DEF Good
    <2> QED
      BY <1>2, <1>3, SetInduction
  <1> QED
    BY <1>4

\* and a sum that is zero only if all of it is, if nothing is negative.
LEMMA SumReduced ==
    ASSUME NEW f, NEW n \in Nat, \A i \in 1..n : f[i] \in Nat
    PROVE  /\ Fold("Sum", f, n) \in Nat
           /\ Fold("Sum", f, n) = 0 <=> \A i \in 1..n : f[i] = 0
  <1> DEFINE op == "Sum"
             Good == {k \in Nat : k <= n =>
                         /\ Fold(op, f, k) \in Nat
                         /\ Fold(op, f, k) = 0 <=> \A i \in 1..k : f[i] = 0}
  <1>1. InitValue(op) = 0 /\ \A x, y : Reduce(op, x, y) = x + y
    BY DEF InitValue, Reduce
  <1>2. 0 \in Good
    <2>1. Fold(op, f, 0) = 0
      BY <1>1, ReduceIntoNothing DEF Fold
    <2> QED
      BY <2>1
  <1>3. ASSUME NEW k \in Nat, k \in Good PROVE k + 1 \in Good
    <2>1. SUFFICES ASSUME k + 1 <= n
                   PROVE  /\ Fold(op, f, k + 1) \in Nat
                          /\ Fold(op, f, k + 1) = 0 <=> \A i \in 1..(k + 1) : f[i] = 0
      OBVIOUS
    <2>2. /\ Fold(op, f, k) \in Nat
          /\ Fold(op, f, k) = 0 <=> \A i \in 1..k : f[i] = 0
      BY <1>3, <2>1
    <2>3. Fold(op, f, k + 1) = Fold(op, f, k) + f[k + 1]
      BY FoldMore, <1>1
    <2>4. f[k + 1] \in Nat
      BY <2>1
    <2>5. \A i : i \in 1..(k + 1) <=> (i \in 1..k \/ i = k + 1)
      OBVIOUS
    <2> QED
      BY <2>2, <2>3, <2>4, <2>5
  <1>4. n \in Good
    <2> HIDE DEF Good
    <2> QED
      BY <1>2, <1>3, SetInduction
  <1> QED
    BY <1>4

\* The sum of what is the same everywhere.
LEMMA SumOfEqual ==
    ASSUME NEW f, NEW n \in Nat, NEW x \in Int, \A i \in 1..n : f[i] = x
    PROVE  Fold("Sum", f, n) = n * x
  <1> DEFINE op == "Sum"
             Good == {k \in Nat : k <= n => Fold(op, f, k) = k * x}
  <1>1. InitValue(op) = 0 /\ \A y, z : Reduce(op, y, z) = y + z
    BY DEF InitValue, Reduce
  <1>2. 0 \in Good
    BY <1>1, ReduceIntoNothing DEF Fold
  <1>3. ASSUME NEW k \in Nat, k \in Good PROVE k + 1 \in Good
    <2>1. SUFFICES ASSUME k + 1 <= n PROVE Fold(op, f, k + 1) = (k + 1) * x
      OBVIOUS
    <2>2. Fold(op, f, k) = k * x /\ f[k + 1] = x
      BY <1>3, <2>1
    <2>3. Fold(op, f, k + 1) = Fold(op, f, k) + f[k + 1]
      BY FoldMore, <1>1
    <2> QED
      BY <2>2, <2>3
  <1>4. n \in Good
    <2> HIDE DEF Good
    <2> QED
      BY <1>2, <1>3, SetInduction
  <1> QED
    BY <1>4

-----------------------------------------------------------------------------
\* The elements a kernel reduces, and when they are ones: a difference is of two numbers.
Elements(c, kernel) ==
    [i \in 1..c.a.length |->
        Element(c, kernel, Dereference(c.a, i - 1), Dereference(c.b, i - 1))]
Predicates == {"special_a", "special_b", "differs"}
Applies(c, kernel) ==
    \/ kernel \in Predicates
    \/ ~HasSpecial(c.a) /\ ~HasSpecial(c.b) /\ (kernel = "excess" => c.of = "all_close")

\* What the assumption says of the views of a comparison.
LEMMA ViewsAre ==
    ASSUME NEW c \in Comparisons
    PROVE  /\ c.a.length \in Nat /\ c.b.length = c.a.length
           /\ c.a.stride \in Nat \ {0} /\ c.b.stride \in Nat \ {0}
           /\ c.floating \in BOOLEAN /\ c.rtol \in Nat /\ c.atol \in Nat /\ c.of \in Functions
           /\ \A i \in 0..(c.a.length - 1) :
                 /\ Dereference(c.a, i) \in Int \cup {Special}
                 /\ Dereference(c.b, i) \in Int \cup {Special}
  <1>1. c \in Comparison /\ Fits(c.a) /\ Fits(c.b) /\ c.a.length = c.b.length
    BY VerifAssumption
  <1>2. c.a \in View /\ c.b \in View
    BY <1>1 DEF Comparison
  <1>3. ASSUME NEW v \in View, Fits(v), NEW i \in 0..(v.length - 1)
        PROVE  Dereference(v, i) \in Int \cup {Special}
    <2>1. v.storage \in Seq(Int \cup {Special}) /\ 1 + i * v.stride \in DOMAIN v.storage
      BY <1>3 DEF View, Fits
    <2> QED
      BY <2>1 DEF Dereference
  <1>4. /\ c.a.length \in Nat /\ c.a.stride \in Nat \ {0} /\ c.b.stride \in Nat \ {0}
    BY <1>2 DEF View
  <1>5. c.floating \in BOOLEAN /\ c.rtol \in Nat /\ c.atol \in Nat /\ c.of \in Functions
    BY <1>1 DEF Comparison
  <1> QED
    BY <1>1, <1>2, <1>3, <1>4, <1>5

\* The elements of a view that has no special one are numbers, and so is their sum.
LEMMA NumbersAre ==
    ASSUME NEW c \in Comparisons, ~HasSpecial(c.a), ~HasSpecial(c.b)
    PROVE  /\ \A i \in 0..(c.a.length - 1) : Dereference(c.a, i) \in Int /\ Dereference(c.b, i) \in Int
           /\ Total(c.a) \in Int /\ Total(c.b) \in Int
           /\ \A x \in Int : Deviation(c.a, x) \in Int /\ Deviation(c.b, x) \in Int
  <1>1. \A i \in 0..(c.a.length - 1) : Dereference(c.a, i) \in Int /\ Dereference(c.b, i) \in Int
    BY ViewsAre DEF HasSpecial
  <1>2. c.a.length \in Nat /\ c.b.length = c.a.length
    BY ViewsAre
  <1>3. ASSUME NEW v, v.length = c.a.length, \A i \in 0..(c.a.length - 1) : Dereference(v, i) \in Int
        PROVE  Total(v) \in Int
    <2> DEFINE f == [i \in 1..v.length |-> Dereference(v, i - 1)]
    <2>1. Values("Sum") = Int /\ InitValue("Sum") = 0
      BY DEF Values, InitValue
    <2>2. AreValues("Sum", f, v.length)
      BY <1>2, <1>3, <2>1 DEF AreValues
    <2>3. Total(v) = Fold("Sum", f, v.length)
      BY <2>1 DEF Total, Fold
    <2> HIDE DEF f
    <2>4. "Sum" \in ReduceOps /\ v.length \in Nat /\ 0 \in Values("Sum")
      BY <1>2, <1>3, <2>1 DEF ReduceOps
    <2> QED
      BY <2>1, <2>2, <2>3, <2>4, ReduceIntoIsFold
  <1>4. Total(c.a) \in Int /\ Total(c.b) \in Int
    BY <1>1, <1>2, <1>3
  <1> QED
    BY <1>1, <1>2, <1>4 DEF Deviation

\* What each kernel computes is a value of its operation.
LEMMA ElementIsValue ==
    ASSUME NEW c \in Comparisons, NEW kernel, Applies(c, kernel),
           kernel \in {"special_a", "special_b", "differs", "abs_diff", "excess",
                       "cov_aa", "cov_ab", "cov_ba", "cov_bb"}
    PROVE  /\ ReduceOp(kernel) \in ReduceOps
           /\ AreValues(ReduceOp(kernel), Elements(c, kernel), c.a.length)
  <1>1. ReduceOp(kernel) \in ReduceOps
    BY DEF ReduceOp, ReduceOps
  <1> DEFINE x(i) == Dereference(c.a, i)
             y(i) == Dereference(c.b, i)
  <1>2. SUFFICES ASSUME NEW i \in 0..(c.a.length - 1)
                 PROVE  Element(c, kernel, x(i), y(i)) \in Values(ReduceOp(kernel))
    <2> HIDE DEF x, y
    <2>1. c.a.length \in Nat
      BY ViewsAre
    <2>2. ASSUME NEW j \in 1..c.a.length
          PROVE  Elements(c, kernel)[j] = Element(c, kernel, x(j - 1), y(j - 1)) /\ j - 1 \in 0..(c.a.length - 1)
      BY <2>1 DEF Elements, x, y
    <2> QED
      BY <1>1, <2>2, <1>2 DEF AreValues
  <1>3. CASE kernel \in Predicates
    <2>1. ReduceOp(kernel) = "LogicalOr"
      BY <1>3 DEF ReduceOp, Predicates
    <2>2. Values("LogicalOr") = BOOLEAN
      BY DEF Values
    <2>3. CASE kernel = "special_a"
      BY <2>1, <2>2, <2>3 DEF Element
    <2>4. CASE kernel = "special_b"
      BY <2>1, <2>2, <2>4 DEF Element
    <2>5. CASE kernel = "differs"
      BY <2>1, <2>2, <2>5 DEF Element
    <2> QED
      BY <1>3, <2>3, <2>4, <2>5 DEF Predicates
  <1>4. CASE kernel \notin Predicates
    <2>1. ~HasSpecial(c.a) /\ ~HasSpecial(c.b) /\ (kernel = "excess" => c.of = "all_close")
      BY <1>4 DEF Applies
    <2>2. x(i) \in Int /\ y(i) \in Int
      BY <2>1, NumbersAre
    <2>3. Deviation(c.a, x(i)) \in Int /\ Deviation(c.b, y(i)) \in Int
      BY <2>1, <2>2, NumbersAre
    <2>4. c.rtol \in Nat /\ c.atol \in Nat
      BY ViewsAre
    <2>5. Lowest \in Int /\ Lowest <= 0
      BY VerifAssumption, LowestAssumption
    <2>6. CASE kernel = "abs_diff"
      <3>1. Element(c, kernel, x(i), y(i)) = Abs(x(i) - y(i)) /\ ReduceOp(kernel) = "Max"
        BY <2>6 DEF Element, ReduceOp
      <3> HIDE DEF x, y
      <3>2. Abs(x(i) - y(i)) \in Nat
        BY <2>2 DEF Abs
      <3> QED
        BY <2>5, <3>1, <3>2 DEF Values
    <2>7. CASE kernel = "excess"
      <3>1. Lowest <= Element(c, kernel, x(i), y(i))
        BY <2>1, <2>7, LowestAssumption
      <3>2. /\ Element(c, kernel, x(i), y(i)) = Abs(x(i) - y(i)) - c.atol - c.rtol * Abs(y(i))
            /\ ReduceOp(kernel) = "Max"
        BY <2>7 DEF Element, ReduceOp
      <3> HIDE DEF x, y
      <3>3. Abs(x(i) - y(i)) \in Nat /\ Abs(y(i)) \in Nat
        BY <2>2 DEF Abs
      <3>4. Abs(x(i) - y(i)) - c.atol - c.rtol * Abs(y(i)) \in Int
        BY <2>4, <3>3
      <3> QED
        BY <2>5, <3>1, <3>2, <3>4 DEF Values
    <2>8. CASE kernel \in {"cov_aa", "cov_ab", "cov_ba", "cov_bb"}
      <3>1. ReduceOp(kernel) = "Sum" /\ Values("Sum") = Int
        BY <2>8 DEF ReduceOp, Values
      <3> DEFINE da == Deviation(c.a, x(i))
                 db == Deviation(c.b, y(i))
      <3>2. Element(c, kernel, x(i), y(i)) \in {da * da, db * db, da * db}
        BY <2>8 DEF Element
      <3> HIDE DEF da, db
      <3>3. da \in Int /\ db \in Int
        BY <2>3 DEF da, db
      <3> QED
        BY <3>1, <3>2, <3>3
    <2> QED
      BY <1>4, <2>6, <2>7, <2>8 DEF Predicates
  <1> QED
    BY <1>3, <1>4

-----------------------------------------------------------------------------
\* The kernels there are.
KernelNames == {"special_a", "special_b", "differs", "abs_diff", "excess",
                "cov_aa", "cov_ab", "cov_ba", "cov_bb"}

\* A chunk's loop, by vectors or not, is the fold of the chunk's elements: a vector is only loaded
\* where consecutive elements are consecutive in the storage of both views (verif_ops.cpp:206-239).
LEMMA ChunkIs ==
    ASSUME comparison \in Comparisons, Kernel \in KernelNames, Applies(comparison, Kernel),
           Vectorized(Kernel) => (IsContiguous(comparison.a) <=> IsContiguous(comparison.b)),
           NEW b \in Nat, NEW e \in Nat, b <= e, e <= Numel,
           NEW f, Continues(f, Elements(comparison, Kernel), b, e - b)
    PROVE  /\ AreValues(Op, f, e - b)
           /\ ChunkResult(b, e) = Fold(Op, f, e - b)
  <1> DEFINE n == e - b
             lanes == VecSize
             steps == IF Vectorized(Kernel) /\ Vectorizable THEN VectorSteps(e - b) ELSE 0
  <1>1. /\ Op \in ReduceOps /\ AreValues(Op, Elements(comparison, Kernel), Numel)
        /\ n \in Nat /\ lanes \in Nat \ {0} /\ Numel \in Nat
    BY ElementIsValue, ViewsAre, VerifAssumption DEF KernelNames, Op, Numel
  <1>2. \A i \in 1..n : f[i] = Elements(comparison, Kernel)[b + i] /\ b + i \in 1..Numel
    BY <1>1 DEF Continues
  <1>3. AreValues(Op, f, n)
    BY <1>1, <1>2 DEF AreValues
  <1>4. \A i \in 1..n : f[i] = ElementAt(b + i - 1)
    <2>1. SUFFICES ASSUME NEW i \in 1..n PROVE f[i] = ElementAt(b + i - 1)
      OBVIOUS
    <2>2. b + i \in 1..comparison.a.length
      BY <1>2 DEF Numel
    <2> QED
      BY <1>2, <2>2 DEF Elements, ElementAt
  <1>5. steps \in Nat /\ steps * lanes <= n /\ steps * lanes \in Nat
    <2>1. n \div lanes \in Nat /\ (n \div lanes) * lanes <= n /\ (n \div lanes) * lanes \in Nat
      <3> HIDE DEF n, lanes
      <3>1. n \div lanes \in Nat /\ (n \div lanes) * lanes <= n
        BY <1>1, Divided
      <3> QED
        BY <1>1, <3>1
    <2>2. steps = n \div lanes \/ steps = 0
      BY DEF VectorSteps
    <2> HIDE DEF steps, lanes, n
    <2>3. 0 * lanes = 0
      BY <1>1
    <2> QED
      BY <1>1, <2>1, <2>2, <2>3
  <1>6. ASSUME steps # 0, NEW i \in 0..(n - 1) PROVE VecElementAt(b, i) = ElementAt(b + i)
    <2>1. IsContiguous(comparison.a) /\ IsContiguous(comparison.b)
      BY <1>6 DEF Vectorizable
    <2>2. b + i \in 0..(comparison.a.length - 1) /\ comparison.a.length \in Nat
          /\ comparison.b.length = comparison.a.length
      BY <1>1, ViewsAre DEF Numel
    <2>3. ASSUME NEW v, IsContiguous(v), v.length = comparison.a.length, v.stride \in Nat
          PROVE  DereferenceVec(v, b, i) = Dereference(v, b + i)
      <3>1. CASE v.stride = 1
        <4>1. 1 + b * v.stride + i = 1 + (b + i) * v.stride
          BY <3>1
        <4> QED
          BY <4>1 DEF DereferenceVec, Dereference
      <3>2. CASE v.length <= 1
        <4>1. b = 0 /\ i = 0
          BY <2>2, <2>3, <3>2
        <4>2. 1 + b * v.stride + i = 1 + (b + i) * v.stride
          BY <4>1, <2>3
        <4> QED
          BY <4>2 DEF DereferenceVec, Dereference
      <3> QED
        BY <2>3, <3>1, <3>2 DEF IsContiguous
    <2>4. comparison.a.stride \in Nat /\ comparison.b.stride \in Nat
      BY ViewsAre
    <2> QED
      BY <2>1, <2>2, <2>3, <2>4 DEF VecElementAt, ElementAt
  <1> DEFINE g == [j \in 1..lanes |-> [s \in 1..steps |-> VecElementAt(b, (s - 1) * lanes + j - 1)]]
             lane == [j \in 1..lanes |-> Lane(b, steps, j)]
             vectors == ReduceInto(Op, InitValue(Op), lane, lanes)
             rest == [i \in 1..(e - (b + steps * lanes)) |-> ElementAt(b + steps * lanes + i - 1)]
  <1>7. IsGrid(g, f, steps, lanes)
    <2>1. SUFFICES ASSUME NEW j \in 1..lanes, NEW s \in 1..steps
                   PROVE  g[j][s] = f[(s - 1) * lanes + j]
      BY DEF IsGrid
    <2>2. g[j][s] = VecElementAt(b, (s - 1) * lanes + j - 1)
      <3> HIDE DEF steps, lanes
      <3> QED
        OBVIOUS
    <2> HIDE DEF steps, lanes, n, g
    <2>3. /\ s \in Nat /\ s - 1 \in Nat /\ s <= steps /\ j \in Nat /\ steps # 0
          /\ lanes \in Nat /\ j <= lanes /\ j >= 1
      BY <1>1, <1>5
    <2>4. s * lanes <= steps * lanes /\ (s - 1) * lanes \in Nat /\ (s - 1) * lanes + lanes = s * lanes
      BY <1>5, <2>3, ProductGrows
    <2>5. (s - 1) * lanes + j \in 1..n
      BY <1>1, <1>5, <2>3, <2>4
    <2>6. ASSUME NEW i \in 1..n PROVE VecElementAt(b, i - 1) = f[i]
      <3>1. i - 1 \in 0..(n - 1) /\ b + (i - 1) = b + i - 1
        BY <1>1
      <3>2. VecElementAt(b, i - 1) = ElementAt(b + (i - 1))
        BY <1>6, <2>3, <3>1
      <3>3. f[i] = ElementAt(b + i - 1)
        BY <1>4
      <3> QED
        BY <3>1, <3>2, <3>3
    <2>7. ASSUME NEW i \in 1..n, (s - 1) * lanes + j = i PROVE g[j][s] = f[i]
      <3>1. (s - 1) * lanes + j - 1 = i - 1
        BY <1>1, <2>3, <2>4, <2>7
      <3> QED
        BY <2>2, <2>6, <3>1
    <2> QED
      BY <2>5, <2>7
  <1>8. \A j \in 1..lanes : lane[j] = Fold(Op, g[j], steps)
    BY DEF Lane, Fold
  <1>9. vectors = Fold(Op, f, steps * lanes)
    <2>1. AreValues(Op, f, steps * lanes)
      <3> HIDE DEF steps, lanes, n
      <3> QED
        BY <1>1, <1>3, <1>5 DEF AreValues
    <2> HIDE DEF steps, lanes, n, g, lane
    <2> QED
      BY <1>1, <1>5, <1>7, <1>8, <2>1, LanesReduced DEF Fold
  <1>10. ChunkResult(b, e) = ReduceInto(Op, vectors, rest, e - (b + steps * lanes))
    BY DEF ChunkResult, ReduceElements
  <1>11. ReduceInto(Op, vectors, rest, e - (b + steps * lanes)) = Fold(Op, f, n)
    <2> DEFINE m == steps * lanes
    <2>1. m \in Nat /\ e - (b + m) = n - m /\ n - m \in Nat /\ m + (n - m) = n
      <3> HIDE DEF steps, lanes
      <3> QED
        BY <1>1, <1>5
    <2>2. Continues(rest, f, m, n - m)
      <3>1. SUFFICES ASSUME NEW i \in 1..(n - m) PROVE rest[i] = f[m + i]
        BY DEF Continues
      <3>2. rest[i] = ElementAt(b + m + i - 1)
        <4> HIDE DEF steps, lanes, n
        <4> QED
          BY <2>1
      <3>3. m + i \in 1..n /\ b + (m + i) - 1 = b + m + i - 1
        <4> HIDE DEF m, n
        <4> QED
          BY <2>1, <1>1
      <3> HIDE DEF m, n, rest
      <3> QED
        BY <1>4, <3>2, <3>3
    <2> HIDE DEF m, n, rest, vectors, steps, lanes
    <2>3. ReduceInto(Op, InitValue(Op), f, m + (n - m))
             = ReduceInto(Op, ReduceInto(Op, InitValue(Op), f, m), rest, n - m)
      BY <2>1, <2>2, ReduceIntoJoined
    <2> QED
      BY <1>9, <2>1, <2>3 DEF Fold, m
  <1> QED
    BY <1>3, <1>10, <1>11

-----------------------------------------------------------------------------
\* One thread's reduction is a fold, of values of the operation.
LEMMA SequentialIs ==
    ASSUME NEW c \in Comparisons, NEW kernel \in KernelNames, Applies(c, kernel)
    PROVE  /\ Sequential(c, kernel) = Fold(ReduceOp(kernel), Elements(c, kernel), c.a.length)
           /\ Sequential(c, kernel) \in Values(ReduceOp(kernel))
  <1>1. Sequential(c, kernel) = Fold(ReduceOp(kernel), Elements(c, kernel), c.a.length)
    BY DEF Sequential, Fold, Elements
  <1>2. /\ ReduceOp(kernel) \in ReduceOps
        /\ AreValues(ReduceOp(kernel), Elements(c, kernel), c.a.length)
    BY ElementIsValue DEF KernelNames
  <1>3. c.a.length \in Nat /\ InitValue(ReduceOp(kernel)) \in Values(ReduceOp(kernel))
    BY <1>2, ViewsAre, ReduceIs
  <1> QED
    BY <1>1, <1>2, <1>3, ReduceIntoIsFold

\* The kernels has_special_values runs find special elements.
LEMMA SpecialFound ==
    ASSUME NEW c \in Comparisons
    PROVE  /\ Sequential(c, "special_a") = HasSpecial(c.a)
           /\ Sequential(c, "special_b") = HasSpecial(c.b)
  <1>1. c.a.length \in Nat /\ c.b.length = c.a.length
    BY ViewsAre
  <1>2. ASSUME NEW kernel \in {"special_a", "special_b"}
        PROVE  Sequential(c, kernel) = \E i \in 1..c.a.length : Elements(c, kernel)[i]
    <2>1. Applies(c, kernel) /\ kernel \in KernelNames /\ ReduceOp(kernel) = "LogicalOr"
      BY DEF Applies, Predicates, KernelNames, ReduceOp
    <2>2. Sequential(c, kernel) = Fold("LogicalOr", Elements(c, kernel), c.a.length)
      BY <2>1, SequentialIs
    <2>3. AreValues("LogicalOr", Elements(c, kernel), c.a.length)
      BY <2>1, ElementIsValue DEF KernelNames
    <2> QED
      BY <1>1, <2>2, <2>3, OrReduced, Zenon
  <1>3. \A i \in 1..c.a.length :
           /\ Elements(c, "special_a")[i] <=> Dereference(c.a, i - 1) = Special
           /\ Elements(c, "special_b")[i] <=> Dereference(c.b, i - 1) = Special
    BY DEF Elements, Element
  <1>4. ASSUME NEW v, v.length = c.a.length
        PROVE  HasSpecial(v) <=> \E i \in 1..c.a.length : Dereference(v, i - 1) = Special
    <2>1. \A i \in 0..(c.a.length - 1) : i + 1 \in 1..c.a.length /\ (i + 1) - 1 = i
      BY <1>1
    <2>2. \A i \in 1..c.a.length : i - 1 \in 0..(c.a.length - 1)
      BY <1>1
    <2> QED
      BY <1>4, <2>1, <2>2 DEF HasSpecial
  <1>5. /\ (\E i \in 1..c.a.length : Elements(c, "special_a")[i]) <=> HasSpecial(c.a)
        /\ (\E i \in 1..c.a.length : Elements(c, "special_b")[i]) <=> HasSpecial(c.b)
    BY <1>1, <1>3, <1>4
  <1>6. HasSpecial(c.a) \in BOOLEAN /\ HasSpecial(c.b) \in BOOLEAN
    BY DEF HasSpecial
  <1> QED
    BY <1>2, <1>5, <1>6, Zenon

\* The kernels of each comparison, by name.
LEMMA KernelsAre ==
    ASSUME NEW c \in Comparisons
    PROVE  /\ Len(Kernels(c)) \in 0..4 /\ \A i \in 1..Len(Kernels(c)) : Kernels(c)[i] \in KernelNames
           /\ \A i \in 1..Len(Kernels(c)) :
                 \/ Kernels(c)[i] \in Predicates
                 \/ c.of \in {"max_abs_diff", "calculate_tensor_pcc"} /\ Kernels(c)[i] # "excess"
                 \/ /\ c.of = "all_close" /\ c.floating /\ i = 3
                    /\ Kernels(c)[1] = "special_a" /\ Kernels(c)[2] = "special_b"
           /\ \A i \in 1..Len(Kernels(c)) : Vectorized(Kernels(c)[i]) =>
                 c.of \in {"max_abs_diff", "all_close"} /\ (c.of = "all_close" => c.floating)
  <1>1. c.of \in Functions /\ c.floating \in BOOLEAN
    BY ViewsAre
  <1>2. CASE c.of = "has_special_values"
    <2>1. Kernels(c) = IF c.floating THEN <<"special_a">> ELSE <<>>
      BY <1>2 DEF Kernels
    <2> QED
      BY <1>1, <1>2, <2>1 DEF KernelNames, Predicates, Vectorized, ReduceOp
  <1>3. CASE c.of = "max_abs_diff"
    <2>1. Kernels(c) = <<"abs_diff">>
      BY <1>3 DEF Kernels
    <2> QED
      BY <1>3, <2>1 DEF KernelNames, Predicates, Vectorized, ReduceOp
  <1>4. CASE c.of = "calculate_tensor_pcc"
    <2>1. Kernels(c) = <<"cov_aa", "cov_ab", "cov_ba", "cov_bb">>
      BY <1>4 DEF Kernels
    <2>2. Len(Kernels(c)) = 4 /\ \A i \in 1..4 : Kernels(c)[i] \in {"cov_aa", "cov_ab", "cov_ba", "cov_bb"}
      BY <2>1
    <2> QED
      BY <1>4, <2>2 DEF KernelNames, Predicates, Vectorized, ReduceOp
  <1>5. CASE c.of = "all_close"
    <2>1. Kernels(c) = IF c.floating THEN <<"special_a", "special_b", "excess">> ELSE <<"differs">>
      BY <1>5 DEF Kernels
    <2>2. CASE c.floating
      <3>1. /\ Len(Kernels(c)) = 3 /\ Kernels(c)[1] = "special_a" /\ Kernels(c)[2] = "special_b"
            /\ Kernels(c)[3] = "excess"
        BY <2>1, <2>2
      <3> QED
        BY <1>5, <2>2, <3>1 DEF KernelNames, Predicates, Vectorized, ReduceOp
    <2>3. CASE ~c.floating
      <3>1. Kernels(c) = <<"differs">>
        BY <2>1, <2>3
      <3> QED
        BY <1>5, <3>1 DEF KernelNames, Predicates, Vectorized, ReduceOp
    <2> QED
      BY <1>1, <2>2, <2>3
  <1> QED
    BY <1>1, <1>2, <1>3, <1>4, <1>5 DEF Functions

-----------------------------------------------------------------------------
\* The inductive invariant.  Results are those of one thread; and while a kernel runs, what the
\* threads that are through have found is in the atomic, and nothing else.
NumThreads == DivUp(Numel, chunk_size)
Part(t) == [i \in 1..(End(t) - Begin(t)) |-> Elements(comparison, Kernel)[Begin(t) + i]]
Merged == [t \in Threads |-> IF at[t] = "done" THEN chunk_result[t] ELSE InitValue(Op)]

ResultsInv ==
    /\ comparison \in Comparisons
    /\ results \in Seq(Int \cup BOOLEAN)
    /\ Len(results) <= Len(Kernels(comparison))
    /\ \A i \in DOMAIN results :
          /\ Applies(comparison, Kernels(comparison)[i])
          /\ results[i] = Sequential(comparison, Kernels(comparison)[i])

KernelInv ==
    /\ ~Ended /\ NumThreads <= MaxThreads
    /\ chunk_result \in [Threads -> Values(Op)] /\ expected \in [Threads -> Values(Op)]
    /\ desired \in [Threads -> Values(Op)] /\ global_result \in Values(Op)
    /\ \A t \in Threads : at[t] # "loop" => chunk_result[t] = Fold(Op, Part(t), End(t) - Begin(t))
    /\ \A t \in Threads : at[t] = "exchange" => desired[t] = Reduce(Op, expected[t], chunk_result[t])
    /\ global_result = Fold(Op, Merged, NumThreads)

VerifInv ==
    /\ ResultsInv
    /\ chunk_size \in Nat
    /\ at \in [Threads -> {"loop", "exchange", "done"}]
    /\ chunk_size > 0 => KernelInv

\* A kernel only starts on elements it applies to: all_close has looked for special ones.
LEMMA NextKernel ==
    ASSUME ResultsInv, ~Ended
    PROVE  /\ Kernel \in KernelNames /\ Applies(comparison, Kernel)
           /\ Len(results) + 1 \in 1..Len(Kernels(comparison)) /\ Kernel = Kernels(comparison)[Len(results) + 1]
           /\ Vectorized(Kernel) => comparison.of \in {"max_abs_diff", "all_close"}
           /\ Op = ReduceOp(Kernel) /\ Op \in ReduceOps
  <1> DEFINE c == comparison
             i == Len(results) + 1
  <1>1. /\ c \in Comparisons /\ Len(results) \in Nat /\ DOMAIN results = 1..Len(results)
        /\ Len(results) <= Len(Kernels(c)) /\ Len(results) # Len(Kernels(c)) /\ ~Refused
    BY DEF ResultsInv, Ended
  <1>2. Len(Kernels(c)) \in 0..4
    BY <1>1, KernelsAre
  <1>3. i \in 1..Len(Kernels(c)) /\ Kernel = Kernels(c)[i]
    BY <1>1, <1>2 DEF Kernel
  <1>4. Kernel \in KernelNames
    BY <1>1, <1>3, KernelsAre
  <1>5. Op = ReduceOp(Kernel) /\ Op \in ReduceOps
    BY DEF Op, ReduceOp, ReduceOps
  <1>6. Vectorized(Kernel) => c.of \in {"max_abs_diff", "all_close"}
    BY <1>1, <1>3, KernelsAre
  <1>7. Applies(c, Kernel)
    <2>1. CASE Kernel \in Predicates
      BY <2>1 DEF Applies
    <2>2. CASE c.of \in {"max_abs_diff", "calculate_tensor_pcc"} /\ Kernel # "excess"
      BY <1>1, <2>2, VerifAssumption DEF Applies
    <2>3. CASE /\ c.of = "all_close" /\ c.floating /\ i = 3
               /\ Kernels(c)[1] = "special_a" /\ Kernels(c)[2] = "special_b"
      <3>1. 1 \in DOMAIN results /\ 2 \in DOMAIN results
        BY <1>1, <2>3
      <3>2. ~results[1] /\ ~results[2]
        BY <1>1, <2>3, <3>1 DEF Refused
      <3>3. results[1] = HasSpecial(c.a) /\ results[2] = HasSpecial(c.b)
        BY <1>1, <2>3, <3>1, SpecialFound DEF ResultsInv
      <3> QED
        BY <2>3, <3>2, <3>3 DEF Applies
    <2> QED
      BY <1>1, <1>3, <2>1, <2>2, <2>3, KernelsAre
  <1> QED
    BY <1>3, <1>4, <1>5, <1>6, <1>7

\* Where the chunks are.
LEMMA ChunksAre ==
    ASSUME comparison \in Comparisons, chunk_size \in Nat, NEW t \in Threads
    PROVE  /\ chunk_size > 0 /\ NumThreads \in Nat /\ Threads = 1..NumThreads /\ t \in Nat
           /\ Begin(t) \in Nat /\ End(t) \in Nat /\ Begin(t) <= End(t) /\ End(t) <= Numel /\ Numel \in Nat
           /\ Continues(Part(t), Elements(comparison, Kernel), Begin(t), End(t) - Begin(t))
  <1> DEFINE c == chunk_size
             n == Numel
  <1>1. c > 0 /\ c \in Nat \ {0} /\ n \in Nat /\ Threads = 1..NumThreads
    BY ViewsAre DEF Threads, NumThreads, Numel
  <1>2. /\ NumThreads \in Nat /\ (n > 0 => NumThreads > 0 /\ (NumThreads - 1) * c < n)
        /\ (n = 0 => NumThreads = 0)
    BY <1>1, Divided DEF NumThreads
  <1>3. t \in Nat /\ t - 1 \in Nat /\ t - 1 <= NumThreads - 1 /\ NumThreads - 1 \in Nat /\ n > 0
    BY <1>1, <1>2
  <1>4. (t - 1) * c \in Nat /\ (t - 1) * c <= (NumThreads - 1) * c /\ (NumThreads - 1) * c \in Nat
    BY <1>1, <1>3, ProductGrows
  <1>5. t * c = (t - 1) * c + c /\ t * c \in Nat
    BY <1>1, <1>3, <1>4
  <1>6. /\ Begin(t) = (t - 1) * c
        /\ End(t) = IF t * c <= n THEN t * c ELSE n
    BY DEF Begin, End, Smaller
  <1>7. Begin(t) \in Nat /\ End(t) \in Nat /\ Begin(t) <= End(t) /\ End(t) <= n
    BY <1>1, <1>2, <1>3, <1>4, <1>5, <1>6
  <1>8. Continues(Part(t), Elements(comparison, Kernel), Begin(t), End(t) - Begin(t))
    BY DEF Continues, Part
  <1> QED
    BY <1>1, <1>2, <1>3, <1>7, <1>8

\* parallel_for makes no more chunks than there are threads.
LEMMA ChunkSizeIs ==
    ASSUME comparison \in Comparisons, NEW threads \in 1..MaxThreads
    PROVE  /\ ChunkSize(threads) \in Nat \ {0}
           /\ DivUp(Numel, ChunkSize(threads)) \in Nat
           /\ DivUp(Numel, ChunkSize(threads)) <= MaxThreads
  <1> DEFINE n == Numel
  <1>1. n \in Nat /\ MaxThreads \in Nat \ {0} /\ GrainSize \in Nat \ {0} /\ threads \in Nat /\ threads > 0
    BY ViewsAre, VerifAssumption DEF Numel
  <1> HIDE DEF n
  <1>2. \E q \in Nat : /\ q <= MaxThreads /\ ChunkSize(threads) \in Nat \ {0}
                      /\ n <= q * ChunkSize(threads)
    <2>1. CASE n <= GrainSize
      <3>1. ChunkSize(threads) = IF 1 >= n THEN 1 ELSE n
        BY <2>1 DEF ChunkSize, Larger, n
      <3>2. ChunkSize(threads) \in Nat \ {0} /\ n <= 1 * ChunkSize(threads) /\ 1 <= MaxThreads
        BY <1>1, <3>1
      <3> QED
        BY <3>2
    <2>2. CASE ~(n <= GrainSize)
      <3> DEFINE m == Smaller(threads, DivUp(n, GrainSize))
      <3>1. n > 0 /\ DivUp(n, GrainSize) \in Nat /\ DivUp(n, GrainSize) > 0
        BY <1>1, <2>2, Divided
      <3>2. m \in Nat \ {0} /\ m <= MaxThreads
        BY <1>1, <3>1 DEF Smaller
      <3> HIDE DEF m
      <3>3. ChunkSize(threads) = DivUp(n, m)
        BY <2>2 DEF ChunkSize, n, m
      <3>4. DivUp(n, m) \in Nat /\ n <= DivUp(n, m) * m /\ DivUp(n, m) > 0
        BY <1>1, <3>1, <3>2, Divided
      <3>5. n <= m * ChunkSize(threads)
        BY <3>2, <3>3, <3>4
      <3> QED
        BY <3>2, <3>3, <3>4, <3>5
    <2> QED
      BY <2>1, <2>2
  <1>3. PICK q \in Nat : /\ q <= MaxThreads /\ ChunkSize(threads) \in Nat \ {0}
                        /\ n <= q * ChunkSize(threads)
    BY <1>2
  <1> DEFINE c == ChunkSize(threads)
  <1> HIDE DEF c
  <1>4. c \in Nat \ {0} /\ n <= q * c
    BY <1>3 DEF c
  <1>5. DivUp(n, c) \in Nat /\ DivUp(n, c) <= q
    BY <1>1, <1>4, Divided
  <1> QED
    BY <1>1, <1>3, <1>4, <1>5 DEF n, c

\* What stays the same until a kernel ends.
LEMMA SameKernel ==
    ASSUME ResultsInv, comparison' = comparison, results' = results, chunk_size' = chunk_size
    PROVE  /\ Kernel' = Kernel /\ Op' = Op /\ Numel' = Numel /\ Ended' = Ended /\ ResultsInv'
           /\ Threads' = Threads /\ NumThreads' = NumThreads /\ Values(Op)' = Values(Op)
           /\ \A u : Part(u)' = Part(u) /\ Begin(u)' = Begin(u) /\ End(u)' = End(u)
  BY DEF Kernel, Op, Numel, Ended, Refused, ResultsInv, Threads, NumThreads, Values, Part, Begin, End

-----------------------------------------------------------------------------
\* The steps of a kernel: it starts with nothing merged,
LEMMA StartKernelKeeps ==
    ASSUME VerifInv, StartKernel
    PROVE  VerifInv'
  <1>1. /\ chunk_size = 0 /\ ~Ended /\ ResultsInv /\ comparison' = comparison /\ results' = results
        /\ global_result' = InitValue(Op)
        /\ at' = [t \in Threads' |-> "loop"]
        /\ chunk_result' = [t \in Threads' |-> InitValue(Op)]
        /\ expected' = chunk_result' /\ desired' = chunk_result'
    BY DEF VerifInv, StartKernel
  <1>2. PICK threads \in 1..MaxThreads : chunk_size' = ChunkSize(threads)
    BY DEF StartKernel
  <1>3. /\ Kernel' = Kernel /\ Op' = Op /\ Numel' = Numel /\ Ended' = Ended /\ ResultsInv'
    BY <1>1 DEF Kernel, Op, Numel, Ended, Refused, ResultsInv
  <1>4. /\ chunk_size' \in Nat \ {0} /\ NumThreads' \in Nat /\ NumThreads' <= MaxThreads
    <2>1. comparison \in Comparisons
      BY <1>1 DEF ResultsInv
    <2> QED
      BY <1>2, <1>3, <2>1, ChunkSizeIs DEF NumThreads
  <1>5. Op \in ReduceOps /\ InitValue(Op) \in Values(Op)
    BY <1>1, NextKernel, ReduceIs
  <1>6. \A t \in Threads' : at'[t] = "loop"
    BY <1>1
  <1>7. global_result' = Fold(Op', Merged', NumThreads')
    <2> DEFINE merged == Merged'
    <2>1. Threads' = 1..NumThreads'
      BY <1>4 DEF Threads, NumThreads
    <2>2. \A t \in 1..NumThreads' : merged[t] = IF t = 0 THEN InitValue(Op) ELSE InitValue(Op)
      BY <1>3, <1>6, <2>1 DEF Merged
    <2> HIDE DEF merged
    <2>3. Fold(Op, merged, NumThreads') = InitValue(Op)
      BY <1>4, <1>5, <2>2, FoldOfOne
    <2> QED
      BY <1>1, <1>3, <2>3 DEF merged
  <1>8. KernelInv'
    <2>1. ~Ended' /\ NumThreads' <= MaxThreads
      BY <1>1, <1>3, <1>4
    <2>2. chunk_result' \in [Threads' -> Values(Op)']
      <3>1. Values(Op)' = Values(Op)
        BY <1>3 DEF Values
      <3> QED
        BY <1>1, <1>5, <3>1
    <2>3. global_result' \in Values(Op)'
      BY <1>1, <1>3, <1>5 DEF Values
    <2>4. \A t \in Threads' : ~(at'[t] # "loop") /\ ~(at'[t] = "exchange")
      BY <1>6
    <2> QED
      BY <1>1, <1>7, <2>1, <2>2, <2>3, <2>4 DEF KernelInv
  <1> QED
    BY <1>1, <1>3, <1>4, <1>8 DEF VerifInv

\* a thread reduces its chunk and reads the atomic,
LEMMA RunChunkKeeps ==
    ASSUME VerifInv, ViewsAlike, NEW t \in Threads, RunChunk(t)
    PROVE  VerifInv'
  <1>1. /\ at[t] = "loop" /\ comparison' = comparison /\ results' = results
        /\ chunk_size' = chunk_size /\ global_result' = global_result
        /\ at' = [at EXCEPT ![t] = "exchange"]
        /\ chunk_result' = [chunk_result EXCEPT ![t] = ChunkResult(Begin(t), End(t))]
        /\ expected' = [expected EXCEPT ![t] = global_result]
        /\ desired' = [desired EXCEPT ![t] = Reduce(Op, global_result, chunk_result'[t])]
    BY DEF RunChunk
  <1>2. /\ ResultsInv /\ chunk_size \in Nat /\ at \in [Threads -> {"loop", "exchange", "done"}]
        /\ comparison \in Comparisons
    BY DEF VerifInv, ResultsInv
  <1>3. /\ chunk_size > 0 /\ NumThreads \in Nat /\ Threads = 1..NumThreads
        /\ Begin(t) \in Nat /\ End(t) \in Nat /\ Begin(t) <= End(t) /\ End(t) <= Numel
        /\ Continues(Part(t), Elements(comparison, Kernel), Begin(t), End(t) - Begin(t))
    BY <1>2, ChunksAre
  <1>4. KernelInv
    BY <1>3 DEF VerifInv
  <1>5. /\ Kernel' = Kernel /\ Op' = Op /\ Numel' = Numel /\ Ended' = Ended /\ ResultsInv'
        /\ Threads' = Threads /\ NumThreads' = NumThreads /\ Values(Op)' = Values(Op)
        /\ \A u : Part(u)' = Part(u) /\ Begin(u)' = Begin(u) /\ End(u)' = End(u)
    BY <1>1, <1>2, SameKernel
  <1>6. /\ Op \in ReduceOps /\ Kernel \in KernelNames /\ Applies(comparison, Kernel)
    BY <1>2, <1>4, NextKernel DEF KernelInv
  <1>7. /\ ChunkResult(Begin(t), End(t)) = Fold(Op, Part(t), End(t) - Begin(t))
        /\ AreValues(Op, Part(t), End(t) - Begin(t))
    <2>1. IsContiguous(comparison.a) <=> IsContiguous(comparison.b)
      BY <1>2 DEF ViewsAlike
    <2> QED
      BY <1>2, <1>3, <1>6, <2>1, ChunkIs
  <1>8. /\ ChunkResult(Begin(t), End(t)) \in Values(Op)
        /\ Reduce(Op, global_result, ChunkResult(Begin(t), End(t))) \in Values(Op)
    <2>1. End(t) - Begin(t) \in Nat /\ global_result \in Values(Op)
      BY <1>3, <1>4 DEF KernelInv
    <2>2. Fold(Op, Part(t), End(t) - Begin(t)) \in Values(Op)
      BY <1>6, <1>7, <2>1, ReduceIntoIsFold
    <2> QED
      BY <1>6, <1>7, <2>1, <2>2, ReduceIs
  <1> DEFINE r == ChunkResult(Begin(t), End(t))
             d == Reduce(Op, global_result, r)
  <1> HIDE DEF r, d
  <1>9. /\ chunk_result \in [Threads -> Values(Op)] /\ expected \in [Threads -> Values(Op)]
        /\ desired \in [Threads -> Values(Op)] /\ global_result \in Values(Op)
        /\ r \in Values(Op) /\ d \in Values(Op)
    BY <1>4, <1>8 DEF KernelInv, r, d
  <1>10. /\ at'[t] = "exchange" /\ chunk_result'[t] = r /\ expected'[t] = global_result /\ desired'[t] = d
         /\ \A u \in Threads : u # t => /\ at'[u] = at[u] /\ chunk_result'[u] = chunk_result[u]
                                       /\ expected'[u] = expected[u] /\ desired'[u] = desired[u]
         /\ at' \in [Threads -> {"loop", "exchange", "done"}]
         /\ chunk_result' \in [Threads -> Values(Op)] /\ expected' \in [Threads -> Values(Op)]
         /\ desired' \in [Threads -> Values(Op)]
    <2>1. chunk_result' = [chunk_result EXCEPT ![t] = r]
      BY <1>1 DEF r
    <2>2. chunk_result'[t] = r
      BY <2>1, <1>9
    <2>3. desired' = [desired EXCEPT ![t] = d]
      BY <1>1, <2>2 DEF d
    <2> QED
      BY <1>1, <1>2, <1>9, <2>1, <2>2, <2>3
  <1>11. \A u \in Threads : at'[u] # "loop" =>
            chunk_result'[u] = Fold(Op, Part(u), End(u) - Begin(u))
    BY <1>4, <1>7, <1>10 DEF KernelInv, r
  <1>12. \A u \in Threads : at'[u] = "exchange" =>
            desired'[u] = Reduce(Op, expected'[u], chunk_result'[u])
    BY <1>4, <1>10 DEF KernelInv, d
  <1>13. Merged' = Merged
    <2>1. \A u \in Threads : (at'[u] = "done" <=> at[u] = "done") /\ (at[u] = "done" => chunk_result'[u] = chunk_result[u])
      BY <1>1, <1>10
    <2> QED
      BY <1>5, <2>1 DEF Merged
  <1>14. KernelInv'
    <2>1. global_result' = Fold(Op', Merged', NumThreads')
      BY <1>1, <1>4, <1>5, <1>13 DEF KernelInv
    <2>2. ~Ended' /\ NumThreads' <= MaxThreads
      BY <1>4, <1>5 DEF KernelInv
    <2>3. global_result' \in Values(Op)'
      BY <1>1, <1>5, <1>9
    <2>4. \A u \in Threads' : at'[u] # "loop" =>
             chunk_result'[u] = Fold(Op', Part(u)', End(u)' - Begin(u)')
      BY <1>5, <1>11
    <2>5. \A u \in Threads' : at'[u] = "exchange" =>
             desired'[u] = Reduce(Op', expected'[u], chunk_result'[u])
      BY <1>5, <1>12
    <2> QED
      BY <1>5, <1>10, <2>1, <2>2, <2>3, <2>4, <2>5 DEF KernelInv
  <1> QED
    BY <1>1, <1>2, <1>5, <1>10, <1>14 DEF VerifInv

\* an exchange adds the chunk to what is merged,
LEMMA ExchangeSucceedsKeeps ==
    ASSUME VerifInv, NEW t \in Threads, ExchangeSucceeds(t)
    PROVE  VerifInv'
  <1>1. /\ at[t] = "exchange" /\ global_result = expected[t] /\ global_result' = desired[t]
        /\ at' = [at EXCEPT ![t] = "done"]
        /\ comparison' = comparison /\ results' = results /\ chunk_size' = chunk_size
        /\ chunk_result' = chunk_result /\ expected' = expected /\ desired' = desired
    BY DEF ExchangeSucceeds, AsExpected
  <1>2. /\ ResultsInv /\ chunk_size \in Nat /\ at \in [Threads -> {"loop", "exchange", "done"}]
        /\ comparison \in Comparisons
    BY DEF VerifInv, ResultsInv
  <1>3. chunk_size > 0 /\ NumThreads \in Nat /\ Threads = 1..NumThreads
    BY <1>2, ChunksAre
  <1>4. KernelInv
    BY <1>3 DEF VerifInv
  <1>5. /\ Kernel' = Kernel /\ Op' = Op /\ Numel' = Numel /\ Ended' = Ended /\ ResultsInv'
        /\ Threads' = Threads /\ NumThreads' = NumThreads /\ Values(Op)' = Values(Op)
        /\ \A u : Part(u)' = Part(u) /\ Begin(u)' = Begin(u) /\ End(u)' = End(u)
    BY <1>1, <1>2, SameKernel
  <1>6. Op \in ReduceOps
    BY <1>2, <1>4, NextKernel DEF KernelInv
  <1>7. /\ at'[t] = "done" /\ \A u \in Threads : u # t => at'[u] = at[u]
        /\ at' \in [Threads -> {"loop", "exchange", "done"}]
    BY <1>1, <1>2
  <1>8. global_result' = Fold(Op, Merged', NumThreads)
    <2> DEFINE before == Merged
               after == Merged'
               x == chunk_result[t]
    <2>1. x \in Values(Op) /\ chunk_result \in [Threads -> Values(Op)]
      BY <1>4 DEF KernelInv
    <2>2. AreValues(Op, before, NumThreads)
      BY <1>3, <1>6, <2>1, ReduceIs DEF AreValues, Merged
    <2>3. before[t] = InitValue(Op)
      BY <1>1 DEF Merged
    <2>4. after = [u \in Threads |-> IF at'[u] = "done" THEN chunk_result[u] ELSE InitValue(Op)]
      BY <1>1, <1>5 DEF Merged
    <2>5. after[t] = x /\ \A u \in Threads : u # t => after[u] = before[u]
      BY <1>7, <2>4 DEF Merged
    <2>6. desired[t] = Reduce(Op, global_result, x) /\ global_result = Fold(Op, before, NumThreads)
      BY <1>1, <1>4 DEF KernelInv
    <2> HIDE DEF before, after, x
    <2>7. Fold(Op, after, NumThreads) = Reduce(Op, Fold(Op, before, NumThreads), x)
      BY <1>3, <1>6, <2>1, <2>2, <2>3, <2>5, FoldWithOneMore
    <2> QED
      BY <1>1, <2>6, <2>7 DEF after
  <1>9. KernelInv'
    <2>1. global_result' = Fold(Op', Merged', NumThreads')
      BY <1>5, <1>8
    <2>2. ~Ended' /\ NumThreads' <= MaxThreads
      BY <1>4, <1>5 DEF KernelInv
    <2>3. global_result' \in Values(Op)'
      BY <1>1, <1>4, <1>5 DEF KernelInv
    <2>4. \A u \in Threads' : at'[u] # "loop" =>
             chunk_result'[u] = Fold(Op', Part(u)', End(u)' - Begin(u)')
      BY <1>1, <1>4, <1>5, <1>7 DEF KernelInv
    <2>5. \A u \in Threads' : at'[u] = "exchange" =>
             desired'[u] = Reduce(Op', expected'[u], chunk_result'[u])
      BY <1>1, <1>4, <1>5, <1>7 DEF KernelInv
    <2>6. /\ chunk_result' \in [Threads' -> Values(Op)'] /\ expected' \in [Threads' -> Values(Op)']
          /\ desired' \in [Threads' -> Values(Op)']
      BY <1>1, <1>4, <1>5 DEF KernelInv
    <2> QED
      BY <2>1, <2>2, <2>3, <2>4, <2>5, <2>6 DEF KernelInv
  <1> QED
    BY <1>1, <1>2, <1>5, <1>7, <1>9 DEF VerifInv

\* and one that fails reads again.
LEMMA ExchangeFailsKeeps ==
    ASSUME VerifInv, NEW t \in Threads, ExchangeFails(t)
    PROVE  VerifInv'
  <1>1. /\ at[t] = "exchange" /\ expected' = [expected EXCEPT ![t] = global_result]
        /\ desired' = [desired EXCEPT ![t] = Reduce(Op, expected'[t], chunk_result[t])]
        /\ comparison' = comparison /\ results' = results /\ chunk_size' = chunk_size
        /\ at' = at /\ chunk_result' = chunk_result /\ global_result' = global_result
    BY DEF ExchangeFails, Reloaded
  <1>2. /\ ResultsInv /\ chunk_size \in Nat /\ at \in [Threads -> {"loop", "exchange", "done"}]
        /\ comparison \in Comparisons
    BY DEF VerifInv, ResultsInv
  <1>3. chunk_size > 0 /\ NumThreads \in Nat /\ Threads = 1..NumThreads
    BY <1>2, ChunksAre
  <1>4. KernelInv
    BY <1>3 DEF VerifInv
  <1>5. /\ Kernel' = Kernel /\ Op' = Op /\ Numel' = Numel /\ Ended' = Ended /\ ResultsInv'
        /\ Threads' = Threads /\ NumThreads' = NumThreads /\ Values(Op)' = Values(Op)
        /\ \A u : Part(u)' = Part(u) /\ Begin(u)' = Begin(u) /\ End(u)' = End(u)
    BY <1>1, <1>2, SameKernel
  <1>6. Op \in ReduceOps
    BY <1>2, <1>4, NextKernel DEF KernelInv
  <1>7. /\ chunk_result \in [Threads -> Values(Op)] /\ expected \in [Threads -> Values(Op)]
        /\ desired \in [Threads -> Values(Op)] /\ global_result \in Values(Op)
    BY <1>4 DEF KernelInv
  <1> DEFINE d == Reduce(Op, global_result, chunk_result[t])
  <1> HIDE DEF d
  <1>8. d \in Values(Op)
    BY <1>6, <1>7, ReduceIs DEF d
  <1>9. /\ expected'[t] = global_result /\ desired'[t] = d
        /\ \A u \in Threads : u # t => expected'[u] = expected[u] /\ desired'[u] = desired[u]
        /\ expected' \in [Threads -> Values(Op)] /\ desired' \in [Threads -> Values(Op)]
    <2>1. expected'[t] = global_result
      BY <1>1, <1>7
    <2>2. desired' = [desired EXCEPT ![t] = d]
      BY <1>1, <2>1 DEF d
    <2> QED
      BY <1>1, <1>7, <1>8, <2>1, <2>2
  <1>10. KernelInv'
    <2>1. Merged' = Merged
      BY <1>1, <1>5 DEF Merged
    <2>2. global_result' = Fold(Op', Merged', NumThreads')
      BY <1>1, <1>4, <1>5, <2>1 DEF KernelInv
    <2>3. ~Ended' /\ NumThreads' <= MaxThreads /\ global_result' \in Values(Op)'
      BY <1>1, <1>4, <1>5 DEF KernelInv
    <2>4. \A u \in Threads' : at'[u] # "loop" =>
             chunk_result'[u] = Fold(Op', Part(u)', End(u)' - Begin(u)')
      BY <1>1, <1>4, <1>5 DEF KernelInv
    <2>5. \A u \in Threads' : at'[u] = "exchange" =>
             desired'[u] = Reduce(Op', expected'[u], chunk_result'[u])
      BY <1>1, <1>4, <1>5, <1>9 DEF KernelInv, d
    <2>6. /\ chunk_result' \in [Threads' -> Values(Op)'] /\ expected' \in [Threads' -> Values(Op)']
          /\ desired' \in [Threads' -> Values(Op)']
      BY <1>1, <1>5, <1>7, <1>9
    <2> QED
      BY <2>2, <2>3, <2>4, <2>5, <2>6 DEF KernelInv
  <1> QED
    BY <1>1, <1>2, <1>5, <1>10 DEF VerifInv

\* When all threads are through, everything is merged: the result is that of one thread.
LEMMA FinishKernelKeeps ==
    ASSUME VerifInv, FinishKernel
    PROVE  VerifInv'
  <1>1. /\ chunk_size > 0 /\ \A t \in Threads : at[t] = "done"
        /\ results' = Append(results, global_result) /\ chunk_size' = 0 /\ at' = <<>>
        /\ comparison' = comparison
    BY DEF FinishKernel
  <1>2. /\ ResultsInv /\ KernelInv /\ chunk_size \in Nat /\ comparison \in Comparisons
        /\ results \in Seq(Int \cup BOOLEAN) /\ ~Ended
    BY <1>1 DEF VerifInv, ResultsInv, KernelInv
  <1>3. /\ Kernel \in KernelNames /\ Applies(comparison, Kernel)
        /\ Len(results) + 1 \in 1..Len(Kernels(comparison)) /\ Kernel = Kernels(comparison)[Len(results) + 1]
        /\ Op = ReduceOp(Kernel) /\ Op \in ReduceOps
    BY <1>2, NextKernel
  <1>4. chunk_size \in Nat \ {0} /\ Numel \in Nat /\ NumThreads \in Nat /\ Threads = 1..NumThreads
        /\ Numel = comparison.a.length
    <2>1. chunk_size \in Nat \ {0} /\ Numel \in Nat /\ Threads = 1..NumThreads /\ Numel = comparison.a.length
      BY <1>1, <1>2, ViewsAre DEF Threads, NumThreads, Numel
    <2> QED
      BY <2>1, Divided DEF NumThreads
  <1>5. AreValues(Op, Elements(comparison, Kernel), Numel)
    BY <1>2, <1>3, <1>4, ElementIsValue DEF KernelNames
  <1>6. Fold(Op, Merged, NumThreads) = Fold(Op, Elements(comparison, Kernel), Numel)
    <2> DEFINE g == [t \in Threads |-> Part(t)]
               chunk == Merged
    <2>1. ASSUME NEW t \in Threads
          PROVE  /\ chunk[t] = Fold(Op, g[t], Smaller(t * chunk_size, Numel) - (t - 1) * chunk_size)
                 /\ Continues(g[t], Elements(comparison, Kernel), (t - 1) * chunk_size,
                              Smaller(t * chunk_size, Numel) - (t - 1) * chunk_size)
      <3>1. g[t] = Part(t) /\ chunk[t] = chunk_result[t]
        BY <1>1 DEF Merged
      <3>2. chunk_result[t] = Fold(Op, Part(t), End(t) - Begin(t))
        BY <1>1, <1>2 DEF KernelInv
      <3>3. Continues(Part(t), Elements(comparison, Kernel), Begin(t), End(t) - Begin(t))
        BY <1>2, ChunksAre
      <3> QED
        BY <3>1, <3>2, <3>3 DEF Begin, End
    <2> DEFINE f == Elements(comparison, Kernel)
               n == Numel
               c == chunk_size
    <2> HIDE DEF g, chunk, f, n, c
    <2>2. \A t \in 1..DivUp(n, c) :
              /\ chunk[t] = Fold(Op, g[t], Smaller(t * c, n) - (t - 1) * c)
              /\ Continues(g[t], f, (t - 1) * c, Smaller(t * c, n) - (t - 1) * c)
      BY <1>4, <2>1 DEF NumThreads, f, n, c
    <2>3. n \in Nat /\ c \in Nat \ {0} /\ AreValues(Op, f, n)
      BY <1>4, <1>5 DEF f, n, c
    <2>4. Fold(Op, chunk, DivUp(n, c)) = Fold(Op, f, n)
      BY <1>3, <2>2, <2>3, ChunksReduced
    <2> QED
      BY <2>4 DEF NumThreads, chunk, f, n, c
  <1>7. global_result = Sequential(comparison, Kernel) /\ global_result \in Int \cup BOOLEAN
    <2>1. global_result = Sequential(comparison, Kernel)
      BY <1>2, <1>3, <1>4, <1>6, SequentialIs DEF KernelInv
    <2>2. Values(Op) \subseteq Int \cup BOOLEAN
      BY DEF Values
    <2>3. global_result \in Values(Op)
      BY <1>2 DEF KernelInv
    <2> QED
      BY <2>1, <2>2, <2>3
  <1>8. ResultsInv'
    <2>1. /\ results' \in Seq(Int \cup BOOLEAN) /\ Len(results') = Len(results) + 1
          /\ DOMAIN results' = 1..(Len(results) + 1) /\ DOMAIN results = 1..Len(results) /\ Len(results) \in Nat
          /\ \A i \in 1..Len(results) : results'[i] = results[i]
          /\ results'[Len(results) + 1] = global_result
      BY <1>1, <1>2, <1>7
    <2>2. ASSUME NEW i \in DOMAIN results'
          PROVE  /\ Applies(comparison, Kernels(comparison)[i])
                 /\ results'[i] = Sequential(comparison, Kernels(comparison)[i])
      <3>1. CASE i \in DOMAIN results
        BY <1>2, <2>1, <3>1 DEF ResultsInv
      <3>2. CASE i = Len(results) + 1
        BY <1>3, <1>7, <2>1, <3>2
      <3> QED
        BY <2>1, <3>1, <3>2
    <2>3. Len(results') <= Len(Kernels(comparison))
      BY <1>3, <2>1
    <2> QED
      BY <1>1, <1>2, <2>1, <2>2, <2>3 DEF ResultsInv
  <1>9. Threads' = {}
    BY <1>1 DEF Threads
  <1>10. at' \in [Threads' -> {"loop", "exchange", "done"}]
    BY <1>1, <1>9
  <1> QED
    BY <1>1, <1>8, <1>10 DEF VerifInv

-----------------------------------------------------------------------------
\* It is an invariant, for views of one kind.
LEMMA VerifInvariant ==
    ASSUME ViewsAlike
    PROVE  VerifSpec => []VerifInv
  <1>1. Init => VerifInv
    <2>1. SUFFICES ASSUME Init PROVE VerifInv
      OBVIOUS
    <2>2. comparison \in Comparisons /\ results = <<>> /\ chunk_size = 0 /\ at = <<>>
      BY <2>1 DEF Init
    <2>3. Len(Kernels(comparison)) \in 0..4
      BY <2>2, KernelsAre
    <2>4. ResultsInv
      BY <2>2, <2>3 DEF ResultsInv
    <2>5. Threads = {}
      BY <2>2 DEF Threads
    <2> QED
      BY <2>2, <2>4, <2>5 DEF VerifInv
  <1>2. VerifInv /\ [Next]_verifVars => VerifInv'
    <2>1. SUFFICES ASSUME VerifInv, [Next]_verifVars PROVE VerifInv'
      OBVIOUS
    <2>2. CASE StartKernel
      BY <2>1, <2>2, StartKernelKeeps
    <2>3. CASE FinishKernel
      BY <2>1, <2>3, FinishKernelKeeps
    <2>4. ASSUME NEW t \in Threads, RunChunk(t) PROVE VerifInv'
      BY <2>1, <2>4, RunChunkKeeps
    <2>5. ASSUME NEW t \in Threads, ExchangeSucceeds(t) PROVE VerifInv'
      BY <2>1, <2>5, ExchangeSucceedsKeeps
    <2>6. ASSUME NEW t \in Threads, ExchangeFails(t) PROVE VerifInv'
      BY <2>1, <2>6, ExchangeFailsKeeps
    <2>7. CASE UNCHANGED verifVars
      <3>1. /\ comparison' = comparison /\ results' = results /\ chunk_size' = chunk_size /\ at' = at
            /\ chunk_result' = chunk_result /\ expected' = expected /\ desired' = desired
            /\ global_result' = global_result
        BY <2>7 DEF verifVars, kernelVars
      <3> QED
        BY <2>1, <3>1 DEF VerifInv, ResultsInv, KernelInv, Ended, Refused, Kernel, Op, Numel, Threads,
           NumThreads, Values, Part, Begin, End, Merged
    <2> QED
      BY <2>1, <2>2, <2>3, <2>4, <2>5, <2>6, <2>7 DEF Next
  <1> QED
    BY <1>1, <1>2, PTL DEF VerifSpec

\* The types hold, and no more threads run than there are.
THEOREM VerifTypeCorrect ==
    ASSUME ViewsAlike
    PROVE  VerifSpec => []TypeOK
  <1>1. VerifInv => TypeOK
    <2>1. SUFFICES ASSUME VerifInv PROVE TypeOK
      OBVIOUS
    <2>2. /\ comparison \in Comparisons /\ Len(results) <= Len(Kernels(comparison))
          /\ chunk_size \in Nat /\ at \in [Threads -> {"loop", "exchange", "done"}]
          /\ results \in Seq(Int \cup BOOLEAN)
      BY <2>1 DEF VerifInv, ResultsInv
    <2>3. ASSUME NEW i \in DOMAIN results
          PROVE  results[i] \in Values(ReduceOp(Kernels(comparison)[i]))
      <3>1. i \in 1..Len(Kernels(comparison))
        BY <2>2, KernelsAre
      <3>2. Kernels(comparison)[i] \in KernelNames
        BY <2>2, <3>1, KernelsAre
      <3> QED
        BY <2>1, <2>2, <3>2, SequentialIs DEF VerifInv, ResultsInv
    <2>4. Threads \subseteq 1..MaxThreads
      <3>1. CASE chunk_size = 0
        BY <3>1 DEF Threads
      <3>2. CASE chunk_size > 0
        <4>1. Threads = 1..NumThreads /\ NumThreads <= MaxThreads
          BY <2>1, <3>2 DEF Threads, NumThreads, VerifInv, KernelInv
        <4>2. NumThreads \in Nat /\ MaxThreads \in Nat
          <5>1. Numel \in Nat
            BY <2>2, ViewsAre DEF Numel
          <5>2. chunk_size \in Nat \ {0}
            BY <2>2, <3>2
          <5> QED
            BY <5>1, <5>2, Divided, VerifAssumption DEF NumThreads
        <4> QED
          BY <4>1, <4>2
      <3> QED
        BY <2>2, <3>1, <3>2
    <2>5. chunk_size > 0 =>
              /\ ~Ended
              /\ global_result \in Values(Op)
              /\ {chunk_result, expected, desired} \subseteq [Threads -> Values(Op)]
      BY <2>1 DEF VerifInv, KernelInv
    <2> QED
      BY <2>2, <2>3, <2>4, <2>5 DEF TypeOK
  <1> QED
    BY <1>1, VerifInvariant, PTL

\* Every result of a kernel is that of one thread that takes the elements one by one.
THEOREM ReductionsAlwaysSequential ==
    ASSUME ViewsAlike
    PROVE  VerifSpec => []ReductionsAreSequential
  <1>1. VerifInv => ReductionsAreSequential
    BY DEF VerifInv, ResultsInv, ReductionsAreSequential
  <1> QED
    BY <1>1, VerifInvariant, PTL

-----------------------------------------------------------------------------
\* The elements of a kernel are those of the pairs.
LEMMA PairsAre ==
    ASSUME comparison \in Comparisons, NEW kernel
    PROVE  /\ \A i \in 1..Numel :
                 /\ <<Dereference(comparison.a, i - 1), Dereference(comparison.b, i - 1)>> \in Pairs
                 /\ Elements(comparison, kernel)[i] =
                       Element(comparison, kernel, Dereference(comparison.a, i - 1), Dereference(comparison.b, i - 1))
           /\ \A p \in Pairs : \E i \in 1..Numel :
                 p = <<Dereference(comparison.a, i - 1), Dereference(comparison.b, i - 1)>>
           /\ Numel \in Nat /\ Numel = comparison.a.length
  <1>1. Numel \in Nat /\ Numel = comparison.a.length
    BY ViewsAre DEF Numel
  <1>2. \A i \in 1..Numel : i - 1 \in 0..(Numel - 1)
    BY <1>1
  <1>3. \A i \in 0..(Numel - 1) : i + 1 \in 1..Numel /\ (i + 1) - 1 = i
    BY <1>1
  <1>4. \A i \in 1..Numel : Elements(comparison, kernel)[i] =
           Element(comparison, kernel, Dereference(comparison.a, i - 1), Dereference(comparison.b, i - 1))
    BY <1>1 DEF Elements
  <1>5. ASSUME NEW p \in Pairs
        PROVE  \E i \in 1..Numel :
                  p = <<Dereference(comparison.a, i - 1), Dereference(comparison.b, i - 1)>>
    <2>1. PICK i \in 0..(Numel - 1) : p = <<Dereference(comparison.a, i), Dereference(comparison.b, i)>>
      BY DEF Pairs
    <2> DEFINE j == i + 1
    <2>2. j \in 1..Numel /\ j - 1 = i
      BY <1>3
    <2> HIDE DEF j
    <2> QED
      BY <2>1, <2>2
  <1> QED
    BY <1>1, <1>2, <1>4, <1>5 DEF Pairs

\* A comparison that has ended, and was not refused, has the results of all its kernels.
LEMMA EndedIs ==
    ASSUME VerifInv, Ended
    PROVE  /\ comparison \in Comparisons /\ Len(results) <= Len(Kernels(comparison))
           /\ ~Refused => Len(results) = Len(Kernels(comparison))
           /\ \A i \in 1..Len(results) :
                 /\ Kernels(comparison)[i] \in KernelNames
                 /\ Applies(comparison, Kernels(comparison)[i])
                 /\ results[i] = Sequential(comparison, Kernels(comparison)[i])
           /\ Len(results) \in Nat /\ DOMAIN results = 1..Len(results)
  <1>1. /\ comparison \in Comparisons /\ Len(results) <= Len(Kernels(comparison))
        /\ results \in Seq(Int \cup BOOLEAN)
        /\ \A i \in DOMAIN results :
              /\ Applies(comparison, Kernels(comparison)[i])
              /\ results[i] = Sequential(comparison, Kernels(comparison)[i])
    BY DEF VerifInv, ResultsInv
  <1>2. Len(results) \in Nat /\ DOMAIN results = 1..Len(results) /\ Len(Kernels(comparison)) \in Nat
    BY <1>1, KernelsAre
  <1>3. \A i \in 1..Len(results) : Kernels(comparison)[i] \in KernelNames
    BY <1>1, <1>2, KernelsAre
  <1> QED
    BY <1>1, <1>2, <1>3 DEF Ended

\* What the kernels find, of a comparison that has ended: whether an element is special,
LEMMA SpecialAnswer ==
    ASSUME VerifInv, Ended, comparison.of = "has_special_values"
    PROVE  Answer = (comparison.floating /\ HasSpecial(comparison.a))
  <1>1. Answer = (comparison.floating /\ results[1]) /\ comparison.floating \in BOOLEAN
    BY EndedIs, ViewsAre DEF Answer
  <1>2. CASE comparison.floating
    <2>1. Kernels(comparison) = <<"special_a">> /\ ~Refused
      BY <1>2 DEF Kernels, Refused
    <2>2. Len(results) = 1 /\ Kernels(comparison)[1] = "special_a"
      BY <2>1, EndedIs
    <2>3. results[1] = HasSpecial(comparison.a)
      BY <2>2, EndedIs, SpecialFound
    <2> QED
      BY <1>1, <2>3
  <1>3. CASE ~comparison.floating
    BY <1>1, <1>3, Zenon
  <1> QED
    BY <1>1, <1>2, <1>3

\* the largest difference,
LEMMA DifferenceAnswer ==
    ASSUME VerifInv, Ended, comparison.of = "max_abs_diff"
    PROVE  LargestDifference
  <1>1. Kernels(comparison) = <<"abs_diff">> /\ ~Refused /\ Answer = results[1]
    BY DEF Kernels, Refused, Answer
  <1>2. Len(results) = 1 /\ Kernels(comparison)[1] = "abs_diff"
    BY <1>1, EndedIs
  <1>3. comparison \in Comparisons /\ Applies(comparison, "abs_diff") /\ results[1] = Sequential(comparison, "abs_diff")
    BY <1>2, EndedIs
  <1> DEFINE f == Elements(comparison, "abs_diff")
             n == Numel
  <1>4. /\ Answer = Fold("Max", f, n) /\ AreValues("Max", f, n) /\ n \in Nat
    <2>1. ReduceOp("abs_diff") = "Max" /\ "abs_diff" \in KernelNames
      BY DEF ReduceOp, KernelNames
    <2> QED
      BY <1>1, <1>3, <2>1, PairsAre, SequentialIs, ElementIsValue DEF KernelNames
  <1>5. \A i \in 1..n : /\ f[i] = Distance(<<Dereference(comparison.a, i - 1), Dereference(comparison.b, i - 1)>>)
                       /\ f[i] \in Nat
    <2>1. ~HasSpecial(comparison.a) /\ ~HasSpecial(comparison.b)
      BY <1>3 DEF Applies, Predicates
    <2>2. SUFFICES ASSUME NEW i \in 1..n
                   PROVE  /\ f[i] = Distance(<<Dereference(comparison.a, i - 1), Dereference(comparison.b, i - 1)>>)
                          /\ f[i] \in Nat
      OBVIOUS
    <2>3. f[i] = Abs(Dereference(comparison.a, i - 1) - Dereference(comparison.b, i - 1))
      BY <1>3, PairsAre DEF Element
    <2>4. Dereference(comparison.a, i - 1) \in Int /\ Dereference(comparison.b, i - 1) \in Int
      <3>1. i - 1 \in 0..(comparison.a.length - 1)
        BY <1>3, PairsAre
      <3> QED
        BY <1>3, <2>1, <3>1, NumbersAre
    <2> HIDE DEF f
    <2> QED
      BY <2>3, <2>4 DEF Distance, Abs
  <1> HIDE DEF f, n
  <1>6. /\ \A i \in 1..n : f[i] <= Answer
        /\ Answer = Lowest \/ \E i \in 1..n : f[i] = Answer
        /\ Answer \in Int
    BY <1>4, MaxReduced
  <1>7. \A p \in Pairs : \E i \in 1..n : f[i] = Distance(p)
    BY <1>3, <1>5, PairsAre DEF n
  <1>8. \A i \in 1..n : \E p \in Pairs : f[i] = Distance(p)
    BY <1>3, <1>5, PairsAre DEF n
  <1>9. \A p \in Pairs : Distance(p) <= Answer
    BY <1>6, <1>7
  <1>10. Answer = Lowest \/ \E p \in Pairs : Distance(p) = Answer
    BY <1>6, <1>8
  <1>11. ASSUME Pairs # {} PROVE Answer >= 0
    <2>1. PICK p \in Pairs : TRUE
      BY <1>11
    <2>2. PICK i \in 1..n : f[i] = Distance(p)
      BY <1>7
    <2>3. f[i] \in Nat /\ f[i] <= Answer
      BY <1>5, <1>6 DEF f, n
    <2> QED
      BY <1>6, <2>3
  <1> QED
    BY <1>9, <1>10, <1>11 DEF LargestDifference

\* whether all elements are close;
LEMMA CloseAnswer ==
    ASSUME VerifInv, Ended, comparison.of = "all_close"
    PROVE  AllClose
  <1> DEFINE c == comparison
             n == Numel
             x(i) == Dereference(c.a, i - 1)
             y(i) == Dereference(c.b, i - 1)
  <1>1. c \in Comparisons /\ c.floating \in BOOLEAN /\ n \in Nat /\ n = c.a.length
    BY EndedIs, ViewsAre DEF Numel
  <1>2. CASE c.floating
    <2>1. Kernels(c) = <<"special_a", "special_b", "excess">>
      BY <1>2 DEF Kernels
    <2>2. /\ Kernels(c)[1] = "special_a" /\ Kernels(c)[2] = "special_b" /\ Kernels(c)[3] = "excess"
          /\ Len(Kernels(c)) = 3
      BY <2>1
    <2>3. /\ 1 \in DOMAIN results => results[1] = HasSpecial(c.a)
          /\ 2 \in DOMAIN results => results[2] = HasSpecial(c.b)
      BY <1>1, <2>2, EndedIs, SpecialFound
    <2>4. CASE Refused
      <3>1. HasSpecial(c.a) \/ HasSpecial(c.b)
        BY <2>3, <2>4 DEF Refused
      <3>2. Answer = "assertion"
        BY <2>4 DEF Answer
      <3> QED
        BY <1>2, <3>1, <3>2 DEF AllClose
    <2>5. CASE ~Refused
      <3>1. /\ Len(results) = 3 /\ 1 \in DOMAIN results /\ 2 \in DOMAIN results
            /\ Applies(c, "excess") /\ results[3] = Sequential(c, "excess")
        BY <2>2, <2>5, EndedIs
      <3>2. ~HasSpecial(c.a) /\ ~HasSpecial(c.b)
        BY <3>1 DEF Applies, Predicates
      <3>3. Answer = (results[3] <= 0)
        BY <1>2, <2>5 DEF Answer
      <3> DEFINE f == Elements(c, "excess")
                 r == results[3]
      <3>4. r = Fold("Max", f, n) /\ AreValues("Max", f, n)
        <4>1. ReduceOp("excess") = "Max" /\ "excess" \in KernelNames
          BY DEF ReduceOp, KernelNames
        <4> QED
          BY <1>1, <3>1, <4>1, SequentialIs, ElementIsValue DEF KernelNames
      <3>5. ASSUME NEW i \in 1..n
            PROVE  /\ f[i] \in Int
                   /\ f[i] <= 0 <=> Distance(<<x(i), y(i)>>) <= c.atol + c.rtol * Abs(y(i))
        <4>1. f[i] = Abs(x(i) - y(i)) - c.atol - c.rtol * Abs(y(i))
          BY <1>1, PairsAre DEF Element
        <4>2. x(i) \in Int /\ y(i) \in Int
          <5>1. i - 1 \in 0..(c.a.length - 1)
            BY <1>1
          <5> QED
            BY <1>1, <3>2, <5>1, NumbersAre
        <4>3. Distance(<<x(i), y(i)>>) = Abs(x(i) - y(i))
          BY DEF Distance
        <4>4. c.atol \in Nat /\ c.rtol \in Nat
          BY <1>1, ViewsAre
        <4> HIDE DEF x, y, f, c
        <4>5. Abs(x(i) - y(i)) \in Nat /\ Abs(y(i)) \in Nat
          BY <4>2 DEF Abs
        <4> DEFINE u == Abs(x(i) - y(i))
                   w == c.rtol * Abs(y(i))
        <4>6. u \in Nat /\ w \in Nat
          BY <4>4, <4>5
        <4>7. f[i] = u - c.atol - w /\ Distance(<<x(i), y(i)>>) = u
          BY <4>1, <4>3
        <4> HIDE DEF u, w
        <4>8. f[i] \in Int /\ (f[i] <= 0 <=> u <= c.atol + w)
          BY <4>4, <4>6, <4>7
        <4> QED
          BY <4>7, <4>8 DEF w
      <3>6. r <= 0 <=> \A i \in 1..n : f[i] <= 0
        <4> HIDE DEF r, f, n
        <4>1. /\ \A i \in 1..n : f[i] <= r
              /\ r = Lowest \/ \E i \in 1..n : f[i] = r
              /\ r \in Int
          BY <1>1, <3>4, MaxReduced
        <4>2. \A i \in 1..n : f[i] \in Int
          BY <3>5 DEF f, n
        <4>3. Lowest \in Int /\ Lowest <= 0
          BY LowestAssumption, VerifAssumption
        <4> QED
          BY <4>1, <4>2, <4>3
      <3>7. (\A i \in 1..n : f[i] <= 0) <=> \A p \in Pairs : Distance(p) <= c.atol + c.rtol * Abs(p[2])
        <4>1. ASSUME \A i \in 1..n : f[i] <= 0, NEW p \in Pairs
              PROVE  Distance(p) <= c.atol + c.rtol * Abs(p[2])
          <5>1. PICK i \in 1..n : p = <<x(i), y(i)>>
            BY <1>1, PairsAre
          <5>2. p[2] = y(i)
            BY <5>1
          <5> HIDE DEF f, x, y
          <5> QED
            BY <3>5, <4>1, <5>1, <5>2
        <4>2. ASSUME \A p \in Pairs : Distance(p) <= c.atol + c.rtol * Abs(p[2]), NEW i \in 1..n
              PROVE  f[i] <= 0
          <5> DEFINE p == <<x(i), y(i)>>
          <5>1. p \in Pairs /\ p[2] = y(i)
            BY <1>1, PairsAre
          <5> HIDE DEF f, x, y
          <5> QED
            BY <3>5, <4>2, <5>1
        <4> QED
          BY <4>1, <4>2
      <3>8. (r <= 0) \in BOOLEAN
        BY <1>1, <3>4, MaxReduced
      <3>9. Answer = \A p \in Pairs : Distance(p) <= c.atol + c.rtol * Abs(p[2])
        <4> HIDE DEF r, f, n
        <4> QED
          BY <3>3, <3>6, <3>7, <3>8, Zenon DEF r
      <3> QED
        BY <1>2, <3>2, <3>9, Zenon DEF AllClose
    <2> QED
      BY <2>4, <2>5
  <1>3. CASE ~c.floating
    <2>1. Kernels(c) = <<"differs">> /\ ~Refused
      BY <1>3 DEF Kernels, Refused
    <2>2. Len(results) = 1 /\ Kernels(c)[1] = "differs"
      BY <2>1, EndedIs
    <2>3. results[1] = Sequential(c, "differs") /\ Applies(c, "differs")
      BY <2>2, EndedIs
    <2>4. Answer = ~results[1]
      BY <1>3, <2>1 DEF Answer
    <2> DEFINE f == Elements(c, "differs")
    <2>5. results[1] = Fold("LogicalOr", f, n) /\ AreValues("LogicalOr", f, n)
      <3>1. ReduceOp("differs") = "LogicalOr" /\ "differs" \in KernelNames
        BY DEF ReduceOp, KernelNames
      <3> QED
        BY <1>1, <2>3, <3>1, SequentialIs, ElementIsValue DEF KernelNames
    <2>6. results[1] = \E i \in 1..n : f[i]
      <3> HIDE DEF f, n
      <3> QED
        BY <1>1, <2>5, OrReduced, Zenon
    <2>7. \A i \in 1..n : f[i] <=> x(i) # y(i)
      BY <1>1, PairsAre DEF Element
    <2>8. (\E i \in 1..n : f[i]) <=> ~(\A p \in Pairs : p[1] = p[2])
      <3>1. ASSUME NEW i \in 1..n PROVE <<x(i), y(i)>> \in Pairs
        BY <1>1, PairsAre
      <3>2. ASSUME NEW p \in Pairs PROVE \E i \in 1..n : p = <<x(i), y(i)>>
        BY <1>1, PairsAre
      <3>3. ASSUME NEW i \in 1..n, f[i] PROVE ~(\A p \in Pairs : p[1] = p[2])
        <4>1. <<x(i), y(i)>> \in Pairs /\ x(i) # y(i)
          BY <2>7, <3>1, <3>3
        <4>2. <<x(i), y(i)>>[1] = x(i) /\ <<x(i), y(i)>>[2] = y(i)
          OBVIOUS
        <4> HIDE DEF x, y
        <4> QED
          BY <4>1, <4>2
      <3>4. ASSUME NEW p \in Pairs, p[1] # p[2] PROVE \E i \in 1..n : f[i]
        <4>1. PICK i \in 1..n : p = <<x(i), y(i)>>
          BY <3>2
        <4>2. x(i) # y(i)
          <5> HIDE DEF x, y
          <5> QED
            BY <3>4, <4>1
        <4> QED
          BY <2>7, <4>2
      <3> HIDE DEF f, x, y, n
      <3> QED
        BY <3>3, <3>4
    <2>9. Answer = \A p \in Pairs : p[1] = p[2]
      <3> HIDE DEF f, n
      <3> QED
        BY <2>4, <2>6, <2>8, Zenon
    <2> QED
      BY <1>3, <2>9, Zenon DEF AllClose
  <1> QED
    BY <1>1, <1>2, <1>3

\* A sum of squared deviations is zero only if nothing deviates: if the view does not vary.
LEMMA VarianceIs ==
    ASSUME NEW v, NEW n \in Nat, n = v.length, NEW f,
           \A i \in 0..(n - 1) : Dereference(v, i) \in Int,
           \A i \in 1..n : f[i] = Deviation(v, Dereference(v, i - 1)) * Deviation(v, Dereference(v, i - 1))
    PROVE  Fold("Sum", f, n) \in Nat /\ (Fold("Sum", f, n) = 0 <=> IsConstant(v))
  <1> DEFINE x(i) == Dereference(v, i - 1)
             total == Total(v)
             g == [i \in 1..v.length |-> x(i)]
  <1>1. total = Fold("Sum", g, n)
    BY DEF Total, Fold, InitValue
  <1>2. \A i \in 1..n : g[i] = x(i) /\ x(i) \in Int /\ i - 1 \in 0..(n - 1)
    OBVIOUS
  <1>3. \A i \in 0..(n - 1) : i + 1 \in 1..n /\ x(i + 1) = Dereference(v, i)
    OBVIOUS
  <1>4. total \in Int
    <2>1. Values("Sum") = Int /\ InitValue("Sum") = 0 /\ "Sum" \in ReduceOps /\ 0 \in Values("Sum")
      BY DEF Values, InitValue, ReduceOps
    <2>2. AreValues("Sum", g, n)
      BY <1>2, <2>1 DEF AreValues
    <2> HIDE DEF g, total
    <2> QED
      BY <1>1, <2>1, <2>2, ReduceIntoIsFold DEF Fold
  <1>5. \A i \in 1..n : f[i] = (n * x(i) - total) * (n * x(i) - total)
    BY <1>2 DEF Deviation
  <1>6. IsConstant(v) <=> \A i, j \in 1..n : x(i) = x(j)
    <2> HIDE DEF x
    <2>1. IsConstant(v) <=> \A i, j \in 0..(n - 1) : x(i + 1) = x(j + 1)
      BY <1>3 DEF IsConstant
    <2>2. \A i \in 1..n : i - 1 \in 0..(n - 1) /\ (i - 1) + 1 = i
      OBVIOUS
    <2> QED
      BY <1>3, <2>1, <2>2
  <1> HIDE DEF g, total, x
  <1>7. \A i \in 1..n : f[i] \in Nat /\ (f[i] = 0 <=> n * x(i) = total)
    <2>1. SUFFICES ASSUME NEW i \in 1..n PROVE f[i] \in Nat /\ (f[i] = 0 <=> n * x(i) = total)
      OBVIOUS
    <2>2. n * x(i) \in Int
      BY <1>2
    <2> DEFINE d == n * x(i) - total
    <2>3. d \in Int /\ (d = 0 <=> n * x(i) = total)
      BY <1>4, <2>2
    <2>4. f[i] = d * d
      BY <1>5
    <2> HIDE DEF d
    <2> QED
      BY <2>3, <2>4
  <1>8. Fold("Sum", f, n) \in Nat /\ (Fold("Sum", f, n) = 0 <=> \A i \in 1..n : f[i] = 0)
    BY <1>7, SumReduced
  <1>9. ASSUME \A i \in 1..n : f[i] = 0, NEW i \in 1..n, NEW j \in 1..n PROVE x(i) = x(j)
    <2>1. n * x(i) = n * x(j) /\ n # 0
      BY <1>7, <1>9
    <2>2. x(i) \in Int /\ x(j) \in Int
      BY <1>2
    <2> QED
      BY <2>1, <2>2
  <1>10. ASSUME \A i, j \in 1..n : x(i) = x(j), NEW i \in 1..n PROVE f[i] = 0
    <2>1. x(i) \in Int /\ \A j \in 1..n : g[j] = x(i)
      BY <1>2, <1>10
    <2>2. total = n * x(i)
      BY <1>1, <2>1, SumOfEqual
    <2> QED
      BY <1>7, <2>2
  <1> QED
    BY <1>6, <1>8, <1>9, <1>10

\* and how far two tensors vary together.
LEMMA CorrelationAnswer ==
    ASSUME VerifInv, Ended, comparison.of = "calculate_tensor_pcc"
    PROVE  Correlation
  <1> DEFINE c == comparison
             n == Numel
             names == <<"cov_aa", "cov_ab", "cov_ba", "cov_bb">>
             aa == Sequential(c, "cov_aa")
             ab == Sequential(c, "cov_ab")
             ba == Sequential(c, "cov_ba")
             bb == Sequential(c, "cov_bb")
  <1>1. c \in Comparisons /\ n \in Nat /\ n = c.a.length /\ n = c.b.length
    BY EndedIs, ViewsAre DEF Numel
  <1>2. Kernels(c) = names /\ ~Refused /\ Answer = SmallestCorrelation(Covariances(results))
    BY DEF Kernels, Refused, Answer
  <1>3. Len(results) = 4 /\ \A i \in 1..4 : results[i] = Sequential(c, names[i]) /\ Applies(c, names[i])
    BY <1>2, EndedIs
  <1>4. results[1] = aa /\ results[2] = ab /\ results[3] = ba /\ results[4] = bb /\ Applies(c, "cov_aa")
    BY <1>3
  <1>5. ~HasSpecial(c.a) /\ ~HasSpecial(c.b)
    BY <1>4 DEF Applies, Predicates
  <1>6. \A i \in 0..(n - 1) : Dereference(c.a, i) \in Int /\ Dereference(c.b, i) \in Int
    BY <1>1, <1>5, NumbersAre
  <1>7. ASSUME NEW kernel \in {"cov_aa", "cov_ab", "cov_ba", "cov_bb"}
        PROVE  /\ Sequential(c, kernel) = Fold("Sum", Elements(c, kernel), n)
               /\ Sequential(c, kernel) \in Int
    <2>1. Applies(c, kernel) /\ kernel \in KernelNames
      BY <1>5 DEF Applies, KernelNames
    <2>2. ReduceOp(kernel) = "Sum" /\ Values("Sum") = Int
      BY DEF ReduceOp, Values
    <2> QED
      BY <1>1, <2>1, <2>2, SequentialIs
  <1>8. ba = ab
    <2>1. Elements(c, "cov_ba") = Elements(c, "cov_ab")
      BY DEF Elements, Element
    <2> QED
      BY <1>7, <2>1
  <1>9. aa \in Nat /\ (aa = 0 <=> IsConstant(c.a))
    <2> DEFINE f == Elements(c, "cov_aa")
    <2>1. \A i \in 1..n : f[i] = Deviation(c.a, Dereference(c.a, i - 1)) * Deviation(c.a, Dereference(c.a, i - 1))
      BY <1>1 DEF Elements, Element
    <2>2. aa = Fold("Sum", f, n)
      BY <1>7
    <2> HIDE DEF f, aa, n, c
    <2> QED
      BY <1>1, <1>6, <2>1, <2>2, VarianceIs
  <1>10. bb \in Nat /\ (bb = 0 <=> IsConstant(c.b))
    <2> DEFINE f == Elements(c, "cov_bb")
    <2>1. \A i \in 1..n : f[i] = Deviation(c.b, Dereference(c.b, i - 1)) * Deviation(c.b, Dereference(c.b, i - 1))
      BY <1>1 DEF Elements, Element
    <2>2. bb = Fold("Sum", f, n)
      BY <1>7
    <2> HIDE DEF f, bb, n, c
    <2> QED
      BY <1>1, <1>6, <2>1, <2>2, VarianceIs
  <1>11. ab \in Int
    BY <1>7
  <1>12. Answer = IF aa * bb = 0 THEN "nan" ELSE [covariance |-> Smaller(ab, ba), variances |-> aa * bb]
    BY <1>2, <1>4 DEF SmallestCorrelation, Covariances
  <1> HIDE DEF aa, ab, ba, bb
  <1>13. Smaller(ab, ba) = ab
    BY <1>8 DEF Smaller
  <1>14. aa * bb = 0 <=> aa = 0 \/ bb = 0
    BY <1>9, <1>10
  <1> QED
    BY <1>9, <1>10, <1>12, <1>13, <1>14 DEF Correlation, aa, ab, bb

\* An answer is the one the tensors have, whatever threads there are and however they take turns,
\* if both views are of one kind; of a strided view and a contiguous one it need not be.
THEOREM AnswersAlwaysExact ==
    ASSUME ViewsAlike
    PROVE  VerifSpec => []AnswersAreExact
  <1>1. VerifInv => AnswersAreExact
    BY SpecialAnswer, DifferenceAnswer, CloseAnswer, CorrelationAnswer DEF AnswersAreExact
  <1> QED
    BY <1>1, VerifInvariant, PTL
=============================================================================
