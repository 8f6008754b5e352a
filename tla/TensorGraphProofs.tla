------------------------- MODULE TensorGraphProofs -------------------------
(***************************************************************************)
(* Lemmas about the operators graphs are built with: what Only, Through,   *)
(* FlattenSeq and Reverse list, how adding, removing and redirecting keep a *)
(* graph a graph without cycles, and that the depth-first search sorts it; *)
(* and about sums of sequences of integers.                                *)
(***************************************************************************)
EXTENDS TensorGraph, SequenceTheorems, FiniteSetTheorems, TLAPS

\* Induction over the naturals, for a set that may be defined on the spot.
LEMMA SetInduction ==
    ASSUME NEW S, 0 \in S, \A n \in Nat : n \in S => n + 1 \in S
    PROVE  \A n \in Nat : n \in S
  <1> DEFINE R == OpToRel(<, Nat)
             T == Nat \ S
  <1>1. R = {ss \in Nat \X Nat : ss[1] < ss[2]}
    BY DEF OpToRel
  <1>2. SUFFICES ASSUME T # {} PROVE FALSE
    OBVIOUS
  <1> HIDE DEF R
  <1>3. PICK x \in T : \A y \in T : <<y, x>> \notin R
    BY <1>2, WFMin, NatLessThanWellFounded DEF R
  <1>4. x \in Nat /\ x \notin S /\ x # 0
    OBVIOUS
  <1>5. x - 1 \in Nat /\ x - 1 \notin S
    BY <1>4
  <1>6. <<x - 1, x>> \in R
    BY <1>1, <1>4, <1>5
  <1> QED
    BY <1>3, <1>5, <1>6

-----------------------------------------------------------------------------
\* The recursive functions of Only and Through, up to n.
KeptUpTo(s, S, n, kept) ==
    kept = [i \in 0..n |->
               IF i = 0 THEN <<>>
               ELSE IF s[i] \in S THEN Append(kept[i - 1], s[i]) ELSE kept[i - 1]]

\* The function Only chooses exists: it is built one entry after the other.
LEMMA OnlyDefined ==
    ASSUME NEW T, NEW s \in Seq(T), NEW S
    PROVE  \E kept : KeptUpTo(s, S, Len(s), kept) /\ Only(s, S) = kept[Len(s)]
  <1> DEFINE Good == {n \in Nat : \E kept : KeptUpTo(s, S, n, kept)}
  <1>1. 0 \in Good
    <2> DEFINE kept == [i \in 0..0 |-> <<>>]
    <2>1. KeptUpTo(s, S, 0, kept)
      BY DEF KeptUpTo
    <2> QED
      BY <2>1
  <1>2. ASSUME NEW n \in Nat, n \in Good PROVE n + 1 \in Good
    <2>1. PICK kept : KeptUpTo(s, S, n, kept)
      BY <1>2
    <2> DEFINE more == [i \in 0..(n + 1) |->
                           IF i = n + 1
                           THEN IF s[i] \in S THEN Append(kept[n], s[i]) ELSE kept[n]
                           ELSE kept[i]]
    <2>2. KeptUpTo(s, S, n + 1, more)
      <3>1. \A i \in 0..n : more[i] = kept[i]
        OBVIOUS
      <3>2. \A i \in 0..n : kept[i] = IF i = 0 THEN <<>>
               ELSE IF s[i] \in S THEN Append(kept[i - 1], s[i]) ELSE kept[i - 1]
        BY <2>1 DEF KeptUpTo
      <3>3. ASSUME NEW i \in 0..(n + 1)
            PROVE  more[i] = IF i = 0 THEN <<>>
               ELSE IF s[i] \in S THEN Append(more[i - 1], s[i]) ELSE more[i - 1]
        <4>1. CASE i = n + 1
          BY <4>1, <3>1
        <4>2. CASE i \in 1..n
          <5>1. i - 1 \in 0..n
            BY <4>2
          <5> QED
            BY <4>2, <5>1, <3>1, <3>2
        <4>3. CASE i = 0
          BY <4>3, <3>1, <3>2
        <4> QED
          BY <4>1, <4>2, <4>3
      <3> HIDE DEF more
      <3> QED
        BY <3>3 DEF KeptUpTo, more
    <2> QED
      BY <2>2
  <1>3. Len(s) \in Good
    <2> HIDE DEF Good
    <2> QED
      BY <1>1, <1>2, SetInduction
  <1>4. PICK kept : KeptUpTo(s, S, Len(s), kept)
    BY <1>3
  <1> DEFINE chosen == CHOOSE f : KeptUpTo(s, S, Len(s), f)
  <1>5. KeptUpTo(s, S, Len(s), chosen)
    BY <1>4
  <1>6. Only(s, S) = chosen[Len(s)]
    BY DEF Only, KeptUpTo
  <1> QED
    BY <1>5, <1>6

\* Where the entries of Only(s, S) come from: all those of s in S, in their order.
Picks(s, S, k, t, at) ==
    /\ at \in [1..Len(t) -> 1..k]
    /\ \A i, j \in 1..Len(t) : i < j => at[i] < at[j]
    /\ \A i \in 1..Len(t) : s[at[i]] = t[i] /\ t[i] \in S
    /\ \A j \in 1..k : s[j] \in S => \E i \in 1..Len(t) : at[i] = j

\* Only keeps entries of its sequence, in their order.
LEMMA OnlyPicks ==
    ASSUME NEW T, NEW s \in Seq(T), NEW S
    PROVE  /\ Only(s, S) \in Seq(T)
           /\ \E at : Picks(s, S, Len(s), Only(s, S), at)
  <1>1. PICK kept : KeptUpTo(s, S, Len(s), kept) /\ Only(s, S) = kept[Len(s)]
    BY OnlyDefined
  <1> DEFINE Good == {n \in Nat : n <= Len(s) => /\ kept[n] \in Seq(T)
                                                 /\ \E at : Picks(s, S, n, kept[n], at)}
  <1>2. 0 \in Good
    <2>1. kept[0] = <<>>
      BY <1>1 DEF KeptUpTo
    <2> DEFINE none == [i \in 1..0 |-> i]
    <2>2. Picks(s, S, 0, <<>>, none)
      BY DEF Picks
    <2>3. <<>> \in Seq(T)
      OBVIOUS
    <2> HIDE DEF none
    <2> QED
      BY <2>1, <2>2, <2>3
  <1>3. ASSUME NEW n \in Nat, n \in Good, n + 1 <= Len(s) PROVE n + 1 \in Good
    <2>1. /\ kept[n] \in Seq(T)
          /\ \E at : Picks(s, S, n, kept[n], at)
      BY <1>3
    <2> DEFINE t == kept[n]
               x == s[n + 1]
    <2>2. PICK at : Picks(s, S, n, t, at)
      BY <2>1
    <2>3. kept[n + 1] = IF s[n + 1] \in S THEN Append(kept[n], s[n + 1]) ELSE kept[n]
      <3>1. \A i \in 0..Len(s) : kept[i] =
               IF i = 0 THEN <<>>
               ELSE IF s[i] \in S THEN Append(kept[i - 1], s[i]) ELSE kept[i - 1]
        BY <1>1 DEF KeptUpTo
      <3>2. n + 1 \in 0..Len(s) /\ n + 1 # 0 /\ (n + 1) - 1 = n
        BY <1>3
      <3> QED
        BY <3>1, <3>2
    <2>4. CASE x \notin S
      <3>1. t \in Seq(T) /\ Len(t) \in Nat
        BY <2>1
      <3>2. kept[n + 1] = t
        BY <2>3, <2>4
      <3> HIDE DEF t
      <3>3. at \in [1..Len(t) -> 1..(n + 1)]
        BY <2>2, <3>1 DEF Picks
      <3>4. ASSUME NEW j \in 1..(n + 1), s[j] \in S PROVE \E i \in 1..Len(t) : at[i] = j
        <4>1. j \in 1..n
          BY <2>4, <3>4
        <4> QED
          BY <4>1, <3>4, <2>2 DEF Picks
      <3>5. Picks(s, S, n + 1, t, at)
        BY <2>2, <3>3, <3>4 DEF Picks
      <3> QED
        BY <3>1, <3>2, <3>5
    <2>5. CASE x \in S
      <3> DEFINE u == Append(t, x)
                 more == [i \in 1..(Len(t) + 1) |-> IF i = Len(t) + 1 THEN n + 1 ELSE at[i]]
      <3>1. x \in T
        BY <1>3
      <3>2. /\ u \in Seq(T) /\ Len(u) = Len(t) + 1 /\ Len(t) \in Nat
            /\ \A i \in 1..Len(t) : u[i] = t[i]
            /\ u[Len(t) + 1] = x
        BY <2>1, <3>1
      <3>3. kept[n + 1] = u
        BY <2>3, <2>5
      <3> HIDE DEF u, t
      <3>4. /\ at \in [1..Len(t) -> 1..n]
            /\ \A i \in 1..Len(t) : more[i] = at[i] /\ at[i] \in 1..n
            /\ more[Len(t) + 1] = n + 1
            /\ more \in [1..Len(u) -> 1..(n + 1)]
        BY <3>2, <2>2 DEF Picks
      <3>5. ASSUME NEW i \in 1..Len(u), NEW j \in 1..Len(u), i < j PROVE more[i] < more[j]
        <4>1. i \in 1..Len(t)
          BY <3>2, <3>5
        <4>2. CASE j \in 1..Len(t)
          BY <4>1, <4>2, <3>4, <3>5, <2>2 DEF Picks
        <4>3. CASE j = Len(t) + 1
          BY <4>1, <4>3, <3>4
        <4> QED
          BY <4>2, <4>3, <3>2
      <3>6. ASSUME NEW i \in 1..Len(u) PROVE s[more[i]] = u[i] /\ u[i] \in S
        <4>1. CASE i \in 1..Len(t)
          BY <4>1, <3>2, <3>4, <2>2 DEF Picks
        <4>2. CASE i = Len(t) + 1
          BY <4>2, <3>2, <3>4, <2>5
        <4> QED
          BY <4>1, <4>2, <3>2
      <3>7. ASSUME NEW j \in 1..(n + 1), s[j] \in S PROVE \E i \in 1..Len(u) : more[i] = j
        <4>1. CASE j = n + 1
          BY <4>1, <3>2, <3>4
        <4>2. CASE j \in 1..n
          <5>1. PICK i \in 1..Len(t) : at[i] = j
            BY <4>2, <3>7, <2>2 DEF Picks
          <5> QED
            BY <5>1, <3>2, <3>4
        <4> QED
          BY <4>1, <4>2
      <3> HIDE DEF more
      <3>8. Picks(s, S, n + 1, u, more)
        BY <3>4, <3>5, <3>6, <3>7 DEF Picks
      <3> QED
        BY <3>2, <3>3, <3>8
    <2> QED
      BY <2>4, <2>5
  <1>4. \A n \in Nat : n \in Good
    <2>1. ASSUME NEW n \in Nat, n \in Good PROVE n + 1 \in Good
      <3>1. CASE n + 1 <= Len(s)
        BY <2>1, <3>1, <1>3
      <3>2. CASE ~ n + 1 <= Len(s)
        BY <3>2
      <3> QED
        BY <3>1, <3>2
    <2> HIDE DEF Good
    <2> QED
      BY <1>2, <2>1, SetInduction
  <1> QED
    BY <1>1, <1>4

\* Only keeps the members, each as often as it was there.
LEMMA OnlyMembers ==
    ASSUME NEW T, NEW s \in Seq(T), NEW S
    PROVE  /\ Only(s, S) \in Seq(T)
           /\ ToSet(Only(s, S)) = ToSet(s) \cap S
           /\ Len(Only(s, S)) <= Len(s)
  <1> DEFINE t == Only(s, S)
  <1>1. t \in Seq(T) /\ Len(t) \in Nat
    BY OnlyPicks
  <1>2. PICK at : Picks(s, S, Len(s), t, at)
    BY OnlyPicks
  <1> HIDE DEF t
  <1>3. ToSet(t) = ToSet(s) \cap S
    <2>1. ASSUME NEW x \in ToSet(t) PROVE x \in ToSet(s) \cap S
      BY <1>1, <1>2 DEF Picks, ToSet
    <2>2. ASSUME NEW x \in ToSet(s) \cap S PROVE x \in ToSet(t)
      BY <1>1, <1>2 DEF Picks, ToSet
    <2> QED
      BY <2>1, <2>2
  <1>4. Len(t) <= Len(s)
    <2> DEFINE Good == {n \in Nat : n \in 1..Len(t) => n <= at[n]}
    <2>1. 0 \in Good
      OBVIOUS
    <2>2. ASSUME NEW n \in Nat, n \in Good PROVE n + 1 \in Good
      <3>1. CASE n = 0
        BY <3>1, <1>1, <1>2 DEF Picks
      <3>2. CASE n # 0 /\ n + 1 \in 1..Len(t)
        <4>1. n \in 1..Len(t) /\ n < n + 1
          BY <3>2, <1>1
        <4>2. at[n] < at[n + 1] /\ at[n] \in Nat /\ at[n + 1] \in Nat
          <5>1. at \in [1..Len(t) -> 1..Len(s)]
            BY Zenon, <1>2 DEF Picks
          <5>2. \A i, j \in 1..Len(t) : i < j => at[i] < at[j]
            BY Zenon, <1>2 DEF Picks
          <5> HIDE DEF Good
          <5>3. at[n] < at[n + 1]
            BY <3>2, <4>1, <5>2
          <5>4. at[n] \in 1..Len(s) /\ at[n + 1] \in 1..Len(s)
            BY <3>2, <4>1, <5>1
          <5> QED
            BY <5>3, <5>4
        <4>3. n <= at[n]
          BY <4>1, <2>2
        <4> QED
          BY <4>2, <4>3
      <3> QED
        BY <3>1, <3>2
    <2>3. \A n \in Nat : n \in Good
      <3> HIDE DEF Good
      <3> QED
        BY <2>1, <2>2, SetInduction
    <2> QED
      BY <2>3, <1>1, <1>2 DEF Picks
  <1> QED
    BY <1>1, <1>3, <1>4 DEF t

\* No entry twice.
Distinct(s) == \A i, j \in DOMAIN s : s[i] = s[j] => i = j

\* Only repeats nothing that is not repeated in its sequence.
LEMMA OnlyDistinct ==
    ASSUME NEW T, NEW s \in Seq(T), NEW S, Distinct(s)
    PROVE  Distinct(Only(s, S))
  <1>1. Only(s, S) \in Seq(T)
    BY OnlyPicks
  <1>2. PICK at : Picks(s, S, Len(s), Only(s, S), at)
    BY OnlyPicks
  <1> DEFINE t == Only(s, S)
  <1>3. Len(t) \in Nat /\ DOMAIN t = 1..Len(t) /\ DOMAIN s = 1..Len(s)
    BY <1>1
  <1> HIDE DEF t
  <1>4. ASSUME NEW i \in DOMAIN t, NEW j \in DOMAIN t, t[i] = t[j] PROVE i = j
    <2>1. at[i] = at[j]
      BY <1>2, <1>3, <1>4 DEF Picks, Distinct, t
    <2> QED
      BY <2>1, <1>2, <1>3 DEF Picks, t
  <1> QED
    BY <1>4 DEF Distinct, t

\* What stands before what in s does so in Only(s, S).
LEMMA OnlyOrder ==
    ASSUME NEW T, NEW s \in Seq(T), NEW S, Distinct(s),
           NEW i \in DOMAIN s, NEW j \in DOMAIN s, i < j, s[i] \in S, s[j] \in S
    PROVE  \E k, l \in DOMAIN Only(s, S) :
              k < l /\ Only(s, S)[k] = s[i] /\ Only(s, S)[l] = s[j]
  <1>1. Only(s, S) \in Seq(T)
    BY OnlyPicks
  <1>2. PICK at : Picks(s, S, Len(s), Only(s, S), at)
    BY OnlyPicks
  <1>3. PICK k \in DOMAIN Only(s, S) : at[k] = i
    BY <1>1, <1>2 DEF Picks
  <1>4. PICK l \in DOMAIN Only(s, S) : at[l] = j
    BY <1>1, <1>2 DEF Picks
  <1>5. k < l
    BY <1>1, <1>2, <1>3, <1>4 DEF Picks
  <1> QED
    BY <1>2, <1>3, <1>4, <1>5, <1>1 DEF Picks

-----------------------------------------------------------------------------
AfterUpTo(f, s, d, n, after) ==
    after = [i \in 0..n |-> IF i = 0 THEN d ELSE f[s[i]][after[i - 1]]]

\* The function Through chooses exists.
LEMMA ThroughDefined ==
    ASSUME NEW f, NEW d, NEW T, NEW s \in Seq(T)
    PROVE  \E after : AfterUpTo(f, s, d, Len(s), after) /\ Through(f, s, d) = after[Len(s)]
  <1> DEFINE Good == {n \in Nat : \E after : AfterUpTo(f, s, d, n, after)}
  <1>1. 0 \in Good
    <2> DEFINE after == [i \in 0..0 |-> d]
    <2>1. AfterUpTo(f, s, d, 0, after)
      BY DEF AfterUpTo
    <2> QED
      BY <2>1
  <1>2. ASSUME NEW n \in Nat, n \in Good PROVE n + 1 \in Good
    <2>1. PICK after : AfterUpTo(f, s, d, n, after)
      BY <1>2
    <2> DEFINE more == [i \in 0..(n + 1) |->
                           IF i = n + 1 THEN f[s[i]][after[n]] ELSE after[i]]
    <2>2. AfterUpTo(f, s, d, n + 1, more)
      <3>1. \A i \in 0..n : more[i] = after[i]
        OBVIOUS
      <3>2. \A i \in 0..n : after[i] = IF i = 0 THEN d ELSE f[s[i]][after[i - 1]]
        BY <2>1 DEF AfterUpTo
      <3>3. ASSUME NEW i \in 0..(n + 1)
            PROVE  more[i] = IF i = 0 THEN d ELSE f[s[i]][more[i - 1]]
        <4>1. CASE i = n + 1
          BY <4>1, <3>1
        <4>2. CASE i \in 1..n
          <5>1. i - 1 \in 0..n
            BY <4>2
          <5> QED
            BY <4>2, <5>1, <3>1, <3>2
        <4>3. CASE i = 0
          BY <4>3, <3>1, <3>2
        <4> QED
          BY <4>1, <4>2, <4>3
      <3> HIDE DEF more
      <3> QED
        BY <3>3 DEF AfterUpTo, more
    <2> QED
      BY <2>2
  <1>3. Len(s) \in Good
    <2> HIDE DEF Good
    <2> QED
      BY <1>1, <1>2, SetInduction
  <1>4. PICK after : AfterUpTo(f, s, d, Len(s), after)
    BY <1>3
  <1> DEFINE chosen == CHOOSE g : AfterUpTo(f, s, d, Len(s), g)
  <1>5. AfterUpTo(f, s, d, Len(s), chosen)
    BY <1>4
  <1>6. Through(f, s, d) = chosen[Len(s)]
    BY DEF Through, AfterUpTo
  <1> QED
    BY <1>5, <1>6

\* Only what f does with the entries of s matters.
LEMMA ThroughSame ==
    ASSUME NEW f, NEW h, NEW d, NEW T, NEW s \in Seq(T),
           \A x \in ToSet(s) : f[x] = h[x]
    PROVE  Through(f, s, d) = Through(h, s, d)
  <1>1. PICK a : AfterUpTo(f, s, d, Len(s), a) /\ Through(f, s, d) = a[Len(s)]
    BY ThroughDefined
  <1>2. PICK b : AfterUpTo(h, s, d, Len(s), b) /\ Through(h, s, d) = b[Len(s)]
    BY ThroughDefined
  <1> DEFINE Good == {n \in Nat : n <= Len(s) => a[n] = b[n]}
  <1>3. 0 \in Good
    BY <1>1, <1>2 DEF AfterUpTo
  <1>4. ASSUME NEW n \in Nat, n \in Good PROVE n + 1 \in Good
    <2> SUFFICES ASSUME n + 1 <= Len(s) PROVE a[n + 1] = b[n + 1]
      OBVIOUS
    <2>1. n + 1 \in 0..Len(s) /\ n + 1 # 0 /\ (n + 1) - 1 = n /\ n + 1 \in DOMAIN s
      OBVIOUS
    <2>2. a[n + 1] = f[s[n + 1]][a[n]] /\ b[n + 1] = h[s[n + 1]][b[n]]
      BY <1>1, <1>2, <2>1 DEF AfterUpTo
    <2>3. a[n] = b[n] /\ f[s[n + 1]] = h[s[n + 1]]
      BY <1>4, <2>1 DEF ToSet
    <2> QED
      BY <2>2, <2>3
  <1>5. Len(s) \in Good
    <2> HIDE DEF Good
    <2> QED
      BY <1>3, <1>4, SetInduction
  <1> QED
    BY <1>1, <1>2, <1>5

-----------------------------------------------------------------------------
\* Graphs: every node is listed once, and no list and no operand names a node
\* that is not there.

Types == {"input", "output", "op", "queue"}
Epochs == {"fwd", "bwd", "opt"}

Roles ==
    {"parameter", "activation", "gradient", "optimizer_parameter", "external", "internal",
     "shared", "grad_accumulator", "Add", "Subtract", "Multiply", "Exp", "Nop"}
Records(D) == [type : Types, role : Roles, epoch : Epochs, ins : Seq(D)]

IsGraph(g) ==
    LET D == DOMAIN g.node
    IN  /\ g \in [nodes : Seq(D), node : [D -> Records(D)], inputs : Seq(D), outputs : Seq(D)]
        /\ ToSet(g.nodes) = D
        /\ Distinct(g.nodes)

\* Rankings of the nodes under which every operand is below its user: there is
\* one if and only if the graph has no cycle.
Ranks(g) ==
    {r \in [DOMAIN g.node -> Nat] :
        \A n \in DOMAIN g.node : \A m \in ToSet(g.node[n].ins) : r[m] < r[n]}

Acyclic(g) == Ranks(g) # {}

\* The ranks of the nodes of a sequence have a bound.
LEMMA RankBound ==
    ASSUME NEW D, NEW r \in [D -> Nat], NEW s \in Seq(D)
    PROVE  \E k \in Nat : \A n \in ToSet(s) : r[n] < k
  <1> DEFINE Good == {i \in Nat : \E k \in Nat : \A j \in DOMAIN s : j <= i => r[s[j]] < k}
  <1>1. 0 \in Good
    <2>1. \A j \in DOMAIN s : j <= 0 => r[s[j]] < 0
      OBVIOUS
    <2> QED
      BY <2>1
  <1>2. ASSUME NEW i \in Nat, i \in Good PROVE i + 1 \in Good
    <2>1. PICK k \in Nat : \A j \in DOMAIN s : j <= i => r[s[j]] < k
      BY <1>2
    <2>2. CASE i + 1 \in DOMAIN s
      <3> DEFINE x == r[s[i + 1]]
                 l == k + x + 1
      <3>1. x \in Nat /\ l \in Nat
        BY <2>2
      <3>2. ASSUME NEW j \in DOMAIN s, j <= i + 1 PROVE r[s[j]] < l
        <4>1. r[s[j]] \in Nat
          OBVIOUS
        <4>2. CASE j <= i
          BY <4>1, <4>2, <2>1, <3>1
        <4>3. CASE j = i + 1
          BY <4>3, <3>1
        <4> QED
          BY <4>2, <4>3, <3>2
      <3> HIDE DEF l
      <3> QED
        BY <3>1, <3>2
    <2>3. CASE i + 1 \notin DOMAIN s
      <3>1. \A j \in DOMAIN s : j <= i + 1 => j <= i
        BY <2>3
      <3> QED
        BY <2>1, <3>1
    <2> QED
      BY <2>2, <2>3
  <1>3. \A i \in Nat : i \in Good
    <2> HIDE DEF Good
    <2> QED
      BY <1>1, <1>2, SetInduction
  <1>4. Len(s) \in Nat /\ \A j \in DOMAIN s : j <= Len(s)
    OBVIOUS
  <1>5. PICK k \in Nat : \A j \in DOMAIN s : j <= Len(s) => r[s[j]] < k
    BY <1>3, <1>4
  <1> QED
    BY <1>4, <1>5 DEF ToSet

-----------------------------------------------------------------------------
\* The depth-first search ends on every graph without cycles.

Visiting(g, f, n) ==
    [done \in Seq(DOMAIN g.node) |->
        IF n \in ToSet(done) THEN done
        ELSE Append(Through(f, g.node[n].ins, done), n)]

Visit(g, v) == v = [n \in DOMAIN g.node |-> Visiting(g, v, n)]

\* The visits of a graph without cycles exist: by induction on the ranks of its nodes.
LEMMA VisitDefined ==
    ASSUME NEW g, IsGraph(g), Acyclic(g)
    PROVE  \E v : Visit(g, v) /\ TopologicalSort(g) = Through(v, g.nodes, <<>>)
  <1> DEFINE D == DOMAIN g.node
  <1>1. /\ g.nodes \in Seq(D) /\ ToSet(g.nodes) = D
        /\ \A n \in D : g.node[n].ins \in Seq(D)
    BY DEF IsGraph, Records
  <1>2. PICK r \in [D -> Nat] : \A n \in D : \A m \in ToSet(g.node[n].ins) : r[m] < r[n]
    BY DEF Acyclic, Ranks
  <1> DEFINE Partly(k, v) == /\ v = [n \in D |-> v[n]]
                             /\ \A n \in D : r[n] < k => v[n] = Visiting(g, v, n)
             Good == {k \in Nat : \E v : Partly(k, v)}
  <1>3. 0 \in Good
    <2> DEFINE v == [n \in D |-> <<>>]
    <2>1. Partly(0, v)
      BY <1>2
    <2> HIDE DEF v, Partly
    <2> QED
      BY <2>1
  <1>4. ASSUME NEW k \in Nat, k \in Good PROVE k + 1 \in Good
    <2>1. PICK v : Partly(k, v)
      BY <1>4
    <2> DEFINE w == [n \in D |-> IF r[n] < k THEN v[n] ELSE Visiting(g, v, n)]
    <2>2. ASSUME NEW n \in D, r[n] < k + 1 PROVE Visiting(g, w, n) = Visiting(g, v, n)
      <3>1. \A m \in ToSet(g.node[n].ins) : m \in D /\ r[m] < k
        <4>1. \A m \in ToSet(g.node[n].ins) : m \in D
          BY <1>1 DEF ToSet
        <4> QED
          BY <4>1, <1>2, <2>2
      <3>2. \A m \in ToSet(g.node[n].ins) : w[m] = v[m]
        BY <3>1
      <3> HIDE DEF w
      <3>3. \A done : Through(w, g.node[n].ins, done) = Through(v, g.node[n].ins, done)
        BY <3>2, <1>1, ThroughSame
      <3> QED
        BY <3>3 DEF Visiting
    <2>3. ASSUME NEW n \in D, r[n] < k + 1 PROVE w[n] = Visiting(g, v, n)
      BY <2>1
    <2>4. w = [n \in D |-> w[n]]
      OBVIOUS
    <2>5. Partly(k + 1, w)
      <3> HIDE DEF w
      <3> QED
        BY <2>2, <2>3, <2>4
    <2> HIDE DEF w, Partly
    <2> QED
      BY <2>5
  <1>5. \A k \in Nat : k \in Good
    <2> HIDE DEF Good
    <2> QED
      BY <1>3, <1>4, SetInduction
  <1>6. PICK k \in Nat : \A n \in D : r[n] < k
    BY <1>1, <1>2, RankBound
  <1>7. \E v : Partly(k, v)
    BY <1>5
  <1>8. \E v : Visit(g, v)
    BY <1>6, <1>7 DEF Visit
  <1> DEFINE chosen == CHOOSE v : Visit(g, v)
  <1>9. Visit(g, chosen)
    BY <1>8
  <1>10. TopologicalSort(g) = Through(chosen, g.nodes, <<>>)
    BY DEF TopologicalSort, Visit, Visiting
  <1> QED
    BY <1>9, <1>10

\* Nodes listed once, each after its operands.
Sorted(g, s) ==
    /\ s \in Seq(DOMAIN g.node) /\ Distinct(s)
    /\ \A j \in DOMAIN s : \A m \in ToSet(g.node[s[j]].ins) :
          \E i \in DOMAIN s : i < j /\ s[i] = m

\* What a visit of n, or of several nodes up to rank k, does to what is done.
Extends(g, r, k, d, e) ==
    /\ Sorted(g, e) /\ ToSet(d) \subseteq ToSet(e)
    /\ \A x \in ToSet(e) \ ToSet(d) : r[x] <= k

Visits(g, r, v, n) ==
    \A d : Sorted(g, d) => Extends(g, r, r[n], d, v[n][d]) /\ n \in ToSet(v[n][d])

\* Visits one after another extend what is done by what they visit.
LEMMA ThroughVisits ==
    ASSUME NEW g, NEW r \in [DOMAIN g.node -> Nat], NEW v, NEW s \in Seq(DOMAIN g.node),
           \A n \in ToSet(s) : Visits(g, r, v, n),
           NEW d, Sorted(g, d), NEW k \in Nat, \A n \in ToSet(s) : r[n] <= k
    PROVE  /\ Extends(g, r, k, d, Through(v, s, d))
           /\ ToSet(s) \subseteq ToSet(Through(v, s, d))
  <1>1. PICK a : AfterUpTo(v, s, d, Len(s), a) /\ Through(v, s, d) = a[Len(s)]
    BY ThroughDefined
  <1> DEFINE Done(i) == /\ Extends(g, r, k, d, a[i])
                        /\ \A j \in DOMAIN s : j <= i => s[j] \in ToSet(a[i])
             Good == {i \in Nat : i <= Len(s) => Done(i)}
  <1>2. 0 \in Good
    <2>1. a[0] = d
      BY <1>1 DEF AfterUpTo
    <2> QED
      BY <2>1 DEF Extends
  <1>3. ASSUME NEW i \in Nat, i \in Good PROVE i + 1 \in Good
    <2> SUFFICES ASSUME i + 1 <= Len(s) PROVE Done(i + 1)
      OBVIOUS
    <2> DEFINE n == s[i + 1]
               e == a[i]
    <2>1. i + 1 \in 0..Len(s) /\ i + 1 # 0 /\ (i + 1) - 1 = i /\ i + 1 \in DOMAIN s
      OBVIOUS
    <2>2. a[i + 1] = v[n][e]
      BY <1>1, <2>1 DEF AfterUpTo
    <2>3. Done(i)
      BY <1>3, <2>1
    <2>4. n \in ToSet(s) /\ n \in DOMAIN g.node
      BY <2>1 DEF ToSet
    <2>5. Extends(g, r, r[n], e, v[n][e]) /\ n \in ToSet(v[n][e])
      BY <2>3, <2>4 DEF Visits, Extends
    <2>6. r[n] <= k /\ r[n] \in Nat
      BY <2>4
    <2>7. Extends(g, r, k, d, v[n][e])
      <3>1. ASSUME NEW x \in ToSet(v[n][e]) \ ToSet(d) PROVE r[x] <= k
        <4>1. x \in DOMAIN g.node
          <5>1. v[n][e] \in Seq(DOMAIN g.node)
            BY <2>5 DEF Extends, Sorted
          <5> HIDE DEF n, e
          <5> QED
            BY <5>1, <3>1 DEF ToSet
        <4>2. CASE x \in ToSet(e)
          BY <4>2, <2>3, <3>1 DEF Extends
        <4>3. CASE x \notin ToSet(e)
          <5>1. r[x] <= r[n] /\ r[x] \in Nat
            BY <4>1, <4>3, <2>5, <3>1 DEF Extends
          <5> QED
            BY <5>1, <2>6
        <4> QED
          BY <4>2, <4>3
      <3> QED
        BY <3>1, <2>3, <2>5 DEF Extends
    <2>8. ASSUME NEW j \in DOMAIN s, j <= i + 1 PROVE s[j] \in ToSet(v[n][e])
      <3>1. CASE j <= i
        BY <3>1, <2>3, <2>5 DEF Extends
      <3>2. CASE j = i + 1
        BY <3>2, <2>5
      <3> QED
        BY <3>1, <3>2, <2>8
    <2> HIDE DEF n, e
    <2> QED
      BY <2>2, <2>7, <2>8
  <1>4. \A i \in Nat : i \in Good
    <2> HIDE DEF Good
    <2> QED
      BY <1>2, <1>3, SetInduction
  <1>5. Done(Len(s))
    <2> HIDE DEF Done
    <2> QED
      BY <1>4
  <1> QED
    BY <1>1, <1>5 DEF ToSet

\* What a sequence with one more entry lists.
LEMMA AppendMembers ==
    ASSUME NEW T, NEW s \in Seq(T), NEW x
    PROVE  /\ ToSet(Append(s, x)) = ToSet(s) \cup {x}
           /\ Distinct(s) /\ x \notin ToSet(s) => Distinct(Append(s, x))
           /\ x \in T => Append(s, x) \in Seq(T)
           /\ DOMAIN Append(s, x) = 1..(Len(s) + 1) /\ DOMAIN s = 1..Len(s)
           /\ \A i \in DOMAIN s : Append(s, x)[i] = s[i]
           /\ Append(s, x)[Len(s) + 1] = x
  <1> DEFINE t == Append(s, x)
  <1>1. /\ Len(s) \in Nat /\ DOMAIN t = 1..(Len(s) + 1) /\ DOMAIN s = 1..Len(s)
        /\ \A i \in DOMAIN s : t[i] = s[i]
        /\ t[Len(s) + 1] = x
        /\ x \in T => t \in Seq(T)
    OBVIOUS
  <1> HIDE DEF t
  <1>2. ToSet(t) = ToSet(s) \cup {x}
    BY <1>1 DEF ToSet
  <1>3. ASSUME Distinct(s), x \notin ToSet(s) PROVE Distinct(t)
    BY <1>1, <1>3 DEF Distinct, ToSet
  <1> QED
    BY <1>1, <1>2, <1>3 DEF t

\* A node may follow its operands.
LEMMA AppendSorted ==
    ASSUME NEW g, NEW e, Sorted(g, e), NEW n \in DOMAIN g.node, n \notin ToSet(e),
           ToSet(g.node[n].ins) \subseteq ToSet(e)
    PROVE  Sorted(g, Append(e, n))
  <1> DEFINE f == Append(e, n)
  <1>1. e \in Seq(DOMAIN g.node) /\ Distinct(e)
    BY DEF Sorted
  <1>2. /\ f \in Seq(DOMAIN g.node) /\ Distinct(f)
        /\ DOMAIN f = 1..(Len(e) + 1) /\ DOMAIN e = 1..Len(e) /\ Len(e) \in Nat
        /\ \A i \in DOMAIN e : f[i] = e[i]
        /\ f[Len(e) + 1] = n
    BY <1>1, AppendMembers
  <1> HIDE DEF f
  <1>3. ASSUME NEW j \in DOMAIN f, NEW m \in ToSet(g.node[f[j]].ins)
        PROVE  \E i \in DOMAIN f : i < j /\ f[i] = m
    <2>1. CASE j \in DOMAIN e
      <3>1. PICK i \in DOMAIN e : i < j /\ e[i] = m
        BY <2>1, <1>2, <1>3 DEF Sorted
      <3> QED
        BY <3>1, <1>2
    <2>2. CASE j = Len(e) + 1
      <3>1. m \in ToSet(e)
        BY <2>2, <1>2, <1>3
      <3>2. PICK i \in DOMAIN e : e[i] = m
        BY <3>1 DEF ToSet
      <3> QED
        BY <3>2, <2>2, <1>2
    <2> QED
      BY <2>1, <2>2, <1>2
  <1> QED
    BY <1>2, <1>3 DEF Sorted, f

\* Every visit is sound, by induction on the rank of the node.
LEMMA EveryVisit ==
    ASSUME NEW g, IsGraph(g), NEW r \in Ranks(g), NEW v, Visit(g, v)
    PROVE  \A n \in DOMAIN g.node : Visits(g, r, v, n)
  <1> DEFINE D == DOMAIN g.node
             Good == {k \in Nat : \A n \in D : r[n] < k => Visits(g, r, v, n)}
  <1>1. r \in [D -> Nat] /\ \A n \in D : \A m \in ToSet(g.node[n].ins) : r[m] < r[n]
    BY DEF Ranks
  <1>2. 0 \in Good
    BY <1>1
  <1>3. ASSUME NEW k \in Nat, k \in Good PROVE k + 1 \in Good
    <2> SUFFICES ASSUME NEW n \in D, r[n] < k + 1, NEW d, Sorted(g, d)
                 PROVE  Extends(g, r, r[n], d, v[n][d]) /\ n \in ToSet(v[n][d])
      BY DEF Visits
    <2> DEFINE ins == g.node[n].ins
               e == Through(v, ins, d)
    <2>1. ins \in Seq(D) /\ \A m \in ToSet(ins) : m \in D
      BY DEF IsGraph, Records, ToSet
    <2>2. d \in Seq(D)
      BY DEF Sorted
    <2>3. v[n][d] = IF n \in ToSet(d) THEN d ELSE Append(e, n)
      <3>1. v[n] = Visiting(g, v, n)
        BY DEF Visit
      <3> QED
        BY <3>1, <2>2 DEF Visiting
    <2>4. CASE n \in ToSet(d)
      BY <2>3, <2>4 DEF Extends
    <2>5. CASE n \notin ToSet(d) /\ r[n] = 0
      <3>1. ToSet(ins) = {}
        <4>1. \A m \in ToSet(ins) : r[m] < 0 /\ r[m] \in Nat
          BY <1>1, <2>1, <2>5
        <4> HIDE DEF ins
        <4> QED
          BY <4>1
      <3>2. ins = <<>>
        <4>1. \A i \in DOMAIN ins : ins[i] \in ToSet(ins)
          BY DEF ToSet
        <4>2. DOMAIN ins = {} /\ DOMAIN ins = 1..Len(ins) /\ Len(ins) \in Nat
          BY <4>1, <3>1, <2>1
        <4> HIDE DEF ins
        <4>3. Len(ins) = 0
          BY <4>2
        <4> QED
          BY <4>3, <2>1
      <3>3. e = d
        <4>1. PICK a : AfterUpTo(v, ins, d, Len(ins), a) /\ e = a[Len(ins)]
          BY <2>1, ThroughDefined
        <4> QED
          BY <4>1, <3>2 DEF AfterUpTo
      <3>4. v[n][d] = Append(d, n)
        BY <2>3, <2>5, <3>3
      <3>5. Sorted(g, Append(d, n))
        BY <2>5, <3>1, AppendSorted
      <3>6. ToSet(Append(d, n)) = ToSet(d) \cup {n}
        BY <2>2, AppendMembers
      <3> QED
        BY <3>4, <3>5, <3>6, <1>1 DEF Extends
    <2>6. CASE n \notin ToSet(d) /\ r[n] # 0
      <3> DEFINE top == r[n] - 1
      <3>1. top \in Nat /\ r[n] \in Nat /\ top + 1 = r[n]
        BY <1>1, <2>6
      <3>2. \A m \in ToSet(ins) : r[m] <= top /\ r[m] < k
        BY <1>1, <2>1, <3>1
      <3>3. \A m \in ToSet(ins) : Visits(g, r, v, m)
        BY <1>3, <2>1, <3>2
      <3> HIDE DEF top
      <3>4. Extends(g, r, top, d, e) /\ ToSet(ins) \subseteq ToSet(e)
        BY <1>1, <2>1, <3>1, <3>2, <3>3, ThroughVisits
      <3> HIDE DEF e, ins
      <3>5. n \notin ToSet(e) /\ e \in Seq(D)
        BY <2>6, <3>1, <3>4 DEF Extends, Sorted
      <3>6. v[n][d] = Append(e, n)
        BY <2>3, <2>6
      <3>7. ToSet(Append(e, n)) = ToSet(e) \cup {n}
        BY <3>5, AppendMembers
      <3>8. Sorted(g, Append(e, n))
        BY <3>4, <3>5, AppendSorted DEF Extends, ins
      <3>9. ASSUME NEW x \in ToSet(Append(e, n)) \ ToSet(d) PROVE r[x] <= r[n]
        <4>1. CASE x = n
          BY <4>1, <3>1
        <4>2. CASE x \in ToSet(e)
          <5>1. x \in D /\ r[x] <= top
            BY <4>2, <3>4, <3>5, <3>9 DEF Extends, ToSet
          <5> QED
            BY <5>1, <1>1, <3>1
        <4> QED
          BY <4>1, <4>2, <3>7, <3>9
      <3> QED
        BY <3>4, <3>6, <3>7, <3>8, <3>9 DEF Extends
    <2> QED
      BY <2>4, <2>5, <2>6
  <1>4. \A k \in Nat : k \in Good
    <2> HIDE DEF Good
    <2> QED
      BY <1>2, <1>3, SetInduction
  <1> SUFFICES ASSUME NEW n \in D PROVE Visits(g, r, v, n)
    OBVIOUS
  <1>5. r[n] + 1 \in Nat /\ r[n] < r[n] + 1
    BY <1>1
  <1> QED
    BY <1>4, <1>5

\* topological_sort lists every node of a graph without cycles once, each after
\* its operands (graph_lib/utils.cpp:397-481).
THEOREM TopologicalSortSorts ==
    ASSUME NEW g, IsGraph(g), Acyclic(g)
    PROVE  /\ Sorted(g, TopologicalSort(g))
           /\ ToSet(TopologicalSort(g)) = DOMAIN g.node
  <1> DEFINE D == DOMAIN g.node
  <1>1. PICK v : Visit(g, v) /\ TopologicalSort(g) = Through(v, g.nodes, <<>>)
    BY VisitDefined
  <1>2. PICK r : r \in Ranks(g)
    BY DEF Acyclic
  <1>3. r \in [D -> Nat]
    BY <1>2 DEF Ranks
  <1>4. g.nodes \in Seq(D) /\ ToSet(g.nodes) = D
    BY DEF IsGraph
  <1>5. PICK k \in Nat : \A n \in ToSet(g.nodes) : r[n] < k
    BY <1>3, <1>4, RankBound
  <1>6. \A n \in ToSet(g.nodes) : r[n] <= k
    BY <1>3, <1>4, <1>5
  <1>7. Sorted(g, <<>>)
    BY DEF Sorted, Distinct
  <1>8. \A n \in ToSet(g.nodes) : Visits(g, r, v, n)
    BY <1>1, <1>2, <1>4, EveryVisit
  <1>9. /\ Extends(g, r, k, <<>>, Through(v, g.nodes, <<>>))
        /\ ToSet(g.nodes) \subseteq ToSet(Through(v, g.nodes, <<>>))
    BY <1>3, <1>4, <1>6, <1>7, <1>8, ThroughVisits
  <1>10. ToSet(TopologicalSort(g)) \subseteq D
    BY <1>1, <1>9 DEF Extends, Sorted, ToSet
  <1> QED
    BY <1>1, <1>4, <1>9, <1>10 DEF Extends

\* A sequence has its entries, and all of them are of the sort of their set.
LEMMA Entries ==
    ASSUME NEW T, NEW s \in Seq(T)
    PROVE  /\ ToSet(s) \subseteq T
           /\ DOMAIN s = 1..Len(s) /\ Len(s) \in Nat
           /\ \A i \in DOMAIN s : s[i] \in ToSet(s)
           /\ (s = <<>>) <=> (ToSet(s) = {})
  <1>1. DOMAIN s = 1..Len(s) /\ Len(s) \in Nat
    OBVIOUS
  <1>2. ToSet(s) \subseteq T /\ \A i \in DOMAIN s : s[i] \in ToSet(s)
    BY DEF ToSet
  <1>3. ASSUME s = <<>> PROVE ToSet(s) = {}
    BY <1>3 DEF ToSet
  <1>4. ASSUME ToSet(s) = {} PROVE s = <<>>
    <2>1. Len(s) = 0
      BY <1>1, <1>2, <1>4
    <2> QED
      BY <2>1
  <1> QED
    BY <1>1, <1>2, <1>3, <1>4

\* It is a sequence over every set its entries are in.
LEMMA Retyped ==
    ASSUME NEW T, NEW s \in Seq(T), NEW U, ToSet(s) \subseteq U
    PROVE  s \in Seq(U)
  <1>1. \A i \in 1..Len(s) : s[i] \in U
    BY DEF ToSet
  <1>2. s \in [1..Len(s) -> U] /\ Len(s) \in Nat
    BY <1>1
  <1> QED
    BY <1>2

\* What one sequence after the other lists.
LEMMA Joined ==
    ASSUME NEW T, NEW s \in Seq(T), NEW t \in Seq(T)
    PROVE  /\ s \o t \in Seq(T)
           /\ ToSet(s \o t) = ToSet(s) \cup ToSet(t)
           /\ Distinct(s) /\ Distinct(t) /\ ToSet(s) \cap ToSet(t) = {} => Distinct(s \o t)
  <1> DEFINE u == s \o t
  <1>1. /\ u \in Seq(T) /\ DOMAIN u = 1..(Len(s) + Len(t))
        /\ DOMAIN s = 1..Len(s) /\ DOMAIN t = 1..Len(t) /\ Len(s) \in Nat /\ Len(t) \in Nat
        /\ \A i \in DOMAIN u : u[i] = IF i <= Len(s) THEN s[i] ELSE t[i - Len(s)]
    OBVIOUS
  <1> HIDE DEF u
  <1>2. ToSet(u) \subseteq ToSet(s) \cup ToSet(t)
    BY <1>1 DEF ToSet
  <1>3. ASSUME NEW i \in DOMAIN s PROVE s[i] \in ToSet(u)
    BY <1>1 DEF ToSet
  <1>4. ASSUME NEW i \in DOMAIN t PROVE t[i] \in ToSet(u)
    <2>1. i + Len(s) \in DOMAIN u /\ u[i + Len(s)] = t[i]
      BY <1>1
    <2> QED
      BY <2>1 DEF ToSet
  <1>5. ToSet(u) = ToSet(s) \cup ToSet(t)
    BY <1>2, <1>3, <1>4 DEF ToSet
  <1>6. ASSUME Distinct(s), Distinct(t), ToSet(s) \cap ToSet(t) = {},
               NEW i \in DOMAIN u, NEW j \in DOMAIN u, u[i] = u[j]
        PROVE  i = j
    <2>1. CASE i <= Len(s) /\ j <= Len(s)
      BY <2>1, <1>1, <1>6 DEF Distinct
    <2>2. CASE i > Len(s) /\ j > Len(s)
      <3>1. i - Len(s) \in DOMAIN t /\ j - Len(s) \in DOMAIN t
        BY <2>2, <1>1
      <3>2. t[i - Len(s)] = t[j - Len(s)]
        BY <2>2, <1>1, <1>6
      <3>3. i - Len(s) = j - Len(s)
        BY <3>1, <3>2, <1>6 DEF Distinct
      <3> QED
        BY <3>3, <1>1
    <2>3. CASE i <= Len(s) /\ j > Len(s)
      <3>1. u[i] \in ToSet(s) /\ u[j] \in ToSet(t)
        BY <2>3, <1>1 DEF ToSet
      <3> QED
        BY <3>1, <1>6
    <2>4. CASE i > Len(s) /\ j <= Len(s)
      <3>1. u[j] \in ToSet(s) /\ u[i] \in ToSet(t)
        BY <2>4, <1>1 DEF ToSet
      <3> QED
        BY <3>1, <1>6
    <2> QED
      BY <2>1, <2>2, <2>3, <2>4, <1>1
  <1> QED
    BY <1>1, <1>5, <1>6 DEF Distinct, u

\* The rest of a sequence.
LEMMA Rest ==
    ASSUME NEW T, NEW s \in Seq(T), s # <<>>
    PROVE  /\ Head(s) \in ToSet(s) /\ Head(s) \in T /\ Tail(s) \in Seq(T)
           /\ ToSet(s) = {Head(s)} \cup ToSet(Tail(s))
           /\ Distinct(s) => Distinct(Tail(s)) /\ Head(s) \notin ToSet(Tail(s))
           /\ DOMAIN Tail(s) = 1..(Len(s) - 1) /\ Len(s) \in Nat \ {0} /\ Head(s) = s[1]
           /\ \A i \in 1..(Len(s) - 1) : Tail(s)[i] = s[i + 1]
  <1> DEFINE t == Tail(s)
  <1>1. /\ t \in Seq(T) /\ Head(s) = s[1] /\ Len(s) \in Nat \ {0} /\ DOMAIN s = 1..Len(s)
        /\ DOMAIN t = 1..(Len(s) - 1)
        /\ \A i \in 1..(Len(s) - 1) : t[i] = s[i + 1]
    OBVIOUS
  <1> HIDE DEF t
  <1>2. s[1] \in T /\ s[1] \in ToSet(s)
    BY <1>1 DEF ToSet
  <1>3. ToSet(t) \subseteq ToSet(s)
    BY <1>1 DEF ToSet
  <1>4. ASSUME NEW i \in DOMAIN s, i # 1 PROVE s[i] \in ToSet(t)
    <2>1. i - 1 \in DOMAIN t /\ t[i - 1] = s[i]
      BY <1>1, <1>4
    <2> QED
      BY <2>1 DEF ToSet
  <1>5. ToSet(s) = {s[1]} \cup ToSet(t)
    BY <1>2, <1>3, <1>4 DEF ToSet
  <1>6. ASSUME Distinct(s) PROVE Distinct(t) /\ s[1] \notin ToSet(t)
    <2>1. ASSUME NEW i \in DOMAIN t, NEW j \in DOMAIN t, t[i] = t[j] PROVE i = j
      <3>1. i + 1 \in DOMAIN s /\ j + 1 \in DOMAIN s /\ s[i + 1] = s[j + 1]
        BY <1>1, <2>1
      <3>2. i + 1 = j + 1
        BY <3>1, <1>6 DEF Distinct
      <3> QED
        BY <3>2, <1>1
    <2>2. ASSUME NEW i \in DOMAIN t PROVE t[i] # s[1]
      BY <1>1, <1>6 DEF Distinct
    <2> QED
      BY <2>1, <2>2 DEF Distinct, ToSet
  <1> QED
    BY <1>1, <1>2, <1>5, <1>6 DEF t

\* A sequence turned round.
LEMMA Reversed ==
    ASSUME NEW T, NEW s \in Seq(T)
    PROVE  /\ Reverse(s) \in Seq(T) /\ ToSet(Reverse(s)) = ToSet(s)
           /\ DOMAIN Reverse(s) = DOMAIN s
           /\ \A i \in DOMAIN s : /\ Len(s) - i + 1 \in DOMAIN s
                                  /\ Reverse(s)[i] = s[Len(s) - i + 1]
           /\ Distinct(s) => Distinct(Reverse(s))
  <1> DEFINE t == Reverse(s)
  <1>1. DOMAIN s = 1..Len(s) /\ Len(s) \in Nat
    OBVIOUS
  <1>2. t = [i \in 1..Len(s) |-> s[Len(s) - i + 1]]
    BY DEF Reverse
  <1>3. DOMAIN t = DOMAIN s /\ \A i \in DOMAIN s : /\ Len(s) - i + 1 \in DOMAIN s
                                                   /\ t[i] = s[Len(s) - i + 1]
    BY <1>1, <1>2
  <1>4. t \in Seq(T)
    <2>1. \A i \in 1..Len(s) : t[i] \in T
      BY <1>1, <1>3
    <2>2. t \in [1..Len(s) -> T]
      BY <2>1, <1>2
    <2> QED
      BY <2>2, <1>1
  <1> HIDE DEF t
  <1>5. ToSet(t) = ToSet(s)
    <2>1. \A i \in DOMAIN s : t[i] \in ToSet(s)
      BY <1>3 DEF ToSet
    <2>2. ASSUME NEW i \in DOMAIN s PROVE s[i] \in ToSet(t)
      <3> DEFINE j == Len(s) - i + 1
      <3>1. j \in DOMAIN s /\ Len(s) - j + 1 = i
        BY <1>1
      <3> HIDE DEF j
      <3>2. t[j] = s[i]
        BY <3>1, <1>3
      <3> QED
        BY <3>1, <3>2, <1>3 DEF ToSet
    <2> QED
      BY <2>1, <2>2, <1>3 DEF ToSet
  <1>6. ASSUME Distinct(s), NEW i \in DOMAIN t, NEW j \in DOMAIN t, t[i] = t[j] PROVE i = j
    <2>1. s[Len(s) - i + 1] = s[Len(s) - j + 1]
      BY <1>3, <1>6
    <2>2. Len(s) - i + 1 = Len(s) - j + 1
      BY <2>1, <1>3, <1>6 DEF Distinct
    <2> QED
      BY <2>2, <1>1, <1>3
  <1> QED
    BY <1>3, <1>4, <1>5, <1>6 DEF t, Distinct

\* The positions of a list of length n.
LEMMA Positions ==
    ASSUME NEW n \in Nat
    PROVE  IsFiniteSet(1..n) /\ Cardinality(1..n) = n
  <1>1. /\ IsFiniteSet(1..n)
        /\ Cardinality(1..n) = IF 1 > n THEN 0 ELSE n - 1 + 1
    BY FS_Interval
  <1> QED
    BY <1>1

\* A list is no longer than another that has all its entries, if it repeats none.
LEMMA NoLonger ==
    ASSUME NEW T, NEW s \in Seq(T), NEW t \in Seq(T), Distinct(s), ToSet(s) \subseteq ToSet(t)
    PROVE  Len(s) <= Len(t)
  <1>1. Len(s) \in Nat /\ Len(t) \in Nat /\ DOMAIN s = 1..Len(s) /\ DOMAIN t = 1..Len(t)
    OBVIOUS
  <1> DEFINE f == [i \in 1..Len(s) |-> CHOOSE j \in 1..Len(t) : t[j] = s[i]]
  <1>2. ASSUME NEW i \in 1..Len(s) PROVE f[i] \in 1..Len(t) /\ t[f[i]] = s[i]
    <2>1. \E j \in 1..Len(t) : t[j] = s[i]
      BY <1>1 DEF ToSet
    <2> QED
      BY <2>1
  <1>3. f \in [1..Len(s) -> 1..Len(t)]
    BY <1>2
  <1>4. \A i, j \in 1..Len(s) : f[i] = f[j] => i = j
    <2> HIDE DEF f
    <2> QED
      BY <1>1, <1>2 DEF Distinct
  <1>5. /\ IsFiniteSet(1..Len(t)) /\ Cardinality(1..Len(t)) = Len(t)
        /\ IsFiniteSet(1..Len(s)) /\ Cardinality(1..Len(s)) = Len(s)
    BY <1>1, Positions
  <1>6. SUFFICES ASSUME Len(s) > Len(t) PROVE FALSE
    BY <1>1
  <1>7. Cardinality(1..Len(t)) < Cardinality(1..Len(s))
    BY <1>1, <1>5, <1>6
  <1>8. \E x, y \in 1..Len(s) : x # y /\ f[x] = f[y]
    <2> HIDE DEF f
    <2> QED
      BY <1>3, <1>5, <1>7, FS_PigeonHole
  <1> QED
    BY <1>4, <1>8

\* A list without repetitions is as long as the set of its entries is large.
LEMMA Counted ==
    ASSUME NEW T, NEW s \in Seq(T), Distinct(s)
    PROVE  Cardinality(ToSet(s)) = Len(s)
  <1>1. Len(s) \in Nat /\ DOMAIN s = 1..Len(s)
    OBVIOUS
  <1>2. s \in Bijection(1..Len(s), ToSet(s))
    BY <1>1 DEF Distinct, ToSet, Bijection, Injection, Surjection, IsInjective
  <1>3. IsFiniteSet(1..Len(s)) /\ Cardinality(1..Len(s)) = Len(s)
    BY <1>1, Positions
  <1> QED
    BY <1>2, <1>3, FS_Bijection DEF ExistsBijection

\* What may read what only depends on the set of nodes.
LEMMA RecordsGrow ==
    ASSUME NEW D, NEW E, D \subseteq E
    PROVE  Records(D) \subseteq Records(E)
  <1>1. Seq(D) \subseteq Seq(E)
    BY SeqMonotonic
  <1> QED
    BY <1>1 DEF Records

\* The users of a node are the nodes that have it among their operands.
LEMMA UsersAre ==
    ASSUME NEW g, IsGraph(g), NEW n
    PROVE  /\ Users(g, n) \in Seq(DOMAIN g.node)
           /\ ToSet(Users(g, n)) = {m \in DOMAIN g.node : n \in ToSet(g.node[m].ins)}
           /\ (Users(g, n) = <<>>) <=> (\A m \in DOMAIN g.node : n \notin ToSet(g.node[m].ins))
  <1> DEFINE S == {m \in DOMAIN g.node : n \in ToSet(g.node[m].ins)}
  <1>1. g.nodes \in Seq(DOMAIN g.node) /\ ToSet(g.nodes) = DOMAIN g.node
    BY DEF IsGraph
  <1>2. Users(g, n) \in Seq(DOMAIN g.node) /\ ToSet(Users(g, n)) = ToSet(g.nodes) \cap S
    BY <1>1, OnlyMembers DEF Users
  <1>3. (Users(g, n) = <<>>) <=> (ToSet(Users(g, n)) = {})
    BY <1>2, Entries
  <1> QED
    BY <1>1, <1>2, <1>3

\* h is g with the nodes of S added, each with its record in rec.
IsExtension(g, h, S, rec) ==
    /\ DOMAIN h.node = DOMAIN g.node \cup S
    /\ \A m \in DOMAIN g.node : h.node[m] = g.node[m]
    /\ \A m \in S : h.node[m] = rec[m]
    /\ h.inputs = g.inputs /\ h.outputs = g.outputs

\* Nodes that are new, and that read older ones, keep a graph a graph without cycles.
LEMMA AddNodesIs ==
    ASSUME NEW g, IsGraph(g), NEW T, NEW s \in Seq(T), Distinct(s),
           ToSet(s) \cap DOMAIN g.node = {}, NEW rec,
           \A i \in DOMAIN s : rec[s[i]] \in Records(DOMAIN g.node \cup ToSet(s))
    PROVE  /\ IsGraph(AddNodes(g, s, rec))
           /\ IsExtension(g, AddNodes(g, s, rec), ToSet(s), rec)
           /\ AddNodes(g, s, rec).nodes = g.nodes \o s
  <1> DEFINE D == DOMAIN g.node
             E == D \cup ToSet(s)
             h == AddNodes(g, s, rec)
  <1>1. /\ g \in [nodes : Seq(D), node : [D -> Records(D)], inputs : Seq(D), outputs : Seq(D)]
        /\ ToSet(g.nodes) = D /\ Distinct(g.nodes)
    BY DEF IsGraph
  <1>2. /\ h.nodes = g.nodes \o s
        /\ h.node = [n \in D \cup ToSet(s) |-> IF n \in ToSet(s) THEN rec[n] ELSE g.node[n]]
        /\ h.inputs = g.inputs /\ h.outputs = g.outputs
        /\ h = [nodes |-> h.nodes, node |-> h.node, inputs |-> h.inputs, outputs |-> h.outputs]
    <2>1. g = [nodes |-> g.nodes, node |-> g.node, inputs |-> g.inputs, outputs |-> g.outputs]
      BY <1>1
    <2> DEFINE node == [n \in D \cup ToSet(s) |-> IF n \in ToSet(s) THEN rec[n] ELSE g.node[n]]
               nodes == g.nodes \o s
    <2>2. h = [g EXCEPT !.nodes = nodes, !.node = node]
      BY DEF AddNodes
    <2> HIDE DEF h, node, nodes
    <2>3. h = [nodes |-> nodes, node |-> node, inputs |-> g.inputs, outputs |-> g.outputs]
      BY <2>1, <2>2
    <2>4. h.nodes = nodes /\ h.node = node /\ h.inputs = g.inputs /\ h.outputs = g.outputs
      BY <2>3
    <2> QED
      BY <2>3, <2>4 DEF node, nodes
  <1>3. s \in Seq(E) /\ g.nodes \in Seq(E) /\ Seq(D) \subseteq Seq(E)
    <2>1. s \in Seq(E)
      BY Retyped
    <2>2. Seq(D) \subseteq Seq(E)
      BY SeqMonotonic
    <2> QED
      BY <1>1, <2>1, <2>2
  <1> HIDE DEF h
  <1>4. h.nodes \in Seq(E) /\ ToSet(h.nodes) = E /\ Distinct(h.nodes)
    BY <1>1, <1>2, <1>3, Joined
  <1>5. h.node \in [E -> Records(E)]
    <2>1. Records(D) \subseteq Records(E)
      BY RecordsGrow
    <2>2. ASSUME NEW n \in E PROVE h.node[n] \in Records(E)
      <3>1. CASE n \in ToSet(s)
        <4>1. PICK i \in DOMAIN s : n = s[i]
          BY <3>1 DEF ToSet
        <4>2. h.node[n] = rec[n]
          BY <1>2, <3>1
        <4>3. rec[s[i]] \in Records(E)
          OBVIOUS
        <4> QED
          BY <4>1, <4>2, <4>3
      <3>2. CASE n \notin ToSet(s)
        <4>1. h.node[n] = g.node[n] /\ n \in D
          BY <1>2, <3>2
        <4>2. g.node[n] \in Records(D)
          BY <1>1, <4>1
        <4> QED
          BY <4>1, <4>2, <2>1
      <3> QED
        BY <3>1, <3>2
    <2>3. h.node = [n \in E |-> h.node[n]]
      BY <1>2
    <2> HIDE DEF E
    <2> QED
      BY <2>2, <2>3
  <1>6. DOMAIN h.node = E
    BY <1>2
  <1>7. IsGraph(h)
    <2>1. h.inputs \in Seq(E) /\ h.outputs \in Seq(E)
      BY <1>1, <1>2, <1>3
    <2>2. h \in [nodes : Seq(E), node : [E -> Records(E)], inputs : Seq(E), outputs : Seq(E)]
      <3> HIDE DEF E
      <3> QED
        BY <1>2, <1>4, <1>5, <2>1
    <2> QED
      BY <1>4, <1>6, <2>2 DEF IsGraph
  <1>8. IsExtension(g, h, ToSet(s), rec)
    BY <1>2 DEF IsExtension
  <1> QED
    BY <1>2, <1>7, <1>8 DEF h

\* The nodes of s, with their records in rec, read nodes of g and earlier ones of s.
Stacked(g, s, rec) ==
    \A i \in DOMAIN s : \A m \in ToSet(rec[s[i]].ins) :
        m \in DOMAIN g.node \/ \E j \in DOMAIN s : j < i /\ m = s[j]

\* Such nodes close no cycle.
LEMMA AddNodesAcyclic ==
    ASSUME NEW g, IsGraph(g), Acyclic(g), NEW T, NEW s \in Seq(T), Distinct(s),
           ToSet(s) \cap DOMAIN g.node = {}, NEW rec, NEW h, IsExtension(g, h, ToSet(s), rec),
           Stacked(g, s, rec)
    PROVE  Acyclic(h)
  <1> DEFINE D == DOMAIN g.node
  <1>1. /\ g.nodes \in Seq(D) /\ ToSet(g.nodes) = D
        /\ \A n \in D : g.node[n].ins \in Seq(D)
    BY DEF IsGraph, Records
  <1>2. PICK r \in [D -> Nat] : \A n \in D : \A m \in ToSet(g.node[n].ins) : r[m] < r[n]
    BY DEF Acyclic, Ranks
  <1>3. PICK k \in Nat : \A n \in D : r[n] < k
    BY <1>1, <1>2, RankBound
  <1> DEFINE at(n) == CHOOSE i \in DOMAIN s : s[i] = n
             q == [n \in DOMAIN h.node |-> IF n \in D THEN r[n] ELSE k + at(n)]
  <1>4. ASSUME NEW i \in DOMAIN s PROVE at(s[i]) = i /\ s[i] \notin D /\ i \in Nat
    BY DEF Distinct, ToSet
  <1>5. ASSUME NEW n \in ToSet(s) PROVE \E i \in DOMAIN s : s[i] = n
    BY DEF ToSet
  <1>6. DOMAIN h.node = D \cup ToSet(s)
    BY DEF IsExtension
  <1> HIDE DEF at
  <1>7. ASSUME NEW i \in DOMAIN s PROVE q[s[i]] = k + i /\ s[i] \in DOMAIN h.node
    BY <1>4, <1>6 DEF ToSet
  <1>8. ASSUME NEW n \in D PROVE q[n] = r[n] /\ r[n] < k /\ r[n] \in Nat
    BY <1>2, <1>3, <1>6
  <1>9. q = [n \in DOMAIN h.node |-> q[n]]
    OBVIOUS
  <1> HIDE DEF q
  <1>10. q \in [DOMAIN h.node -> Nat]
    <2>1. ASSUME NEW n \in DOMAIN h.node PROVE q[n] \in Nat
      <3>1. CASE n \in D
        BY <3>1, <1>8
      <3>2. CASE n \in ToSet(s)
        <4>1. PICK i \in DOMAIN s : s[i] = n
          BY <1>5, <3>2
        <4> QED
          BY <4>1, <1>4, <1>7
      <3> QED
        BY <3>1, <3>2, <1>6
    <2> QED
      BY <2>1, <1>9
  <1>11. ASSUME NEW n \in DOMAIN h.node, NEW m \in ToSet(h.node[n].ins) PROVE q[m] < q[n]
    <2>1. CASE n \in D
      <3>1. h.node[n] = g.node[n]
        BY <2>1 DEF IsExtension
      <3>2. m \in D
        <4>1. g.node[n].ins \in Seq(D)
          BY <1>1, <2>1
        <4> QED
          BY <3>1, <4>1, <1>11 DEF ToSet
      <3> QED
        BY <2>1, <3>1, <3>2, <1>2, <1>8, <1>11
    <2>2. CASE n \in ToSet(s)
      <3>1. PICK i \in DOMAIN s : s[i] = n
        BY <1>5, <2>2
      <3>2. h.node[n] = rec[s[i]]
        BY <2>2, <3>1 DEF IsExtension
      <3>3. q[n] = k + i /\ i \in Nat
        BY <1>4, <1>7, <3>1
      <3>4. CASE m \in D
        BY <3>3, <3>4, <1>8
      <3>5. CASE m \notin D
        <4>1. PICK j \in DOMAIN s : j < i /\ m = s[j]
          BY <3>2, <3>5, <1>11 DEF Stacked
        <4> QED
          BY <4>1, <3>3, <1>4, <1>7
      <3> QED
        BY <3>4, <3>5
    <2> QED
      BY <2>1, <2>2, <1>6
  <1> QED
    BY <1>10, <1>11 DEF Acyclic, Ranks

\* One node more.
LEMMA AddNodeIs ==
    ASSUME NEW g, IsGraph(g), NEW n, n \notin DOMAIN g.node, NEW rec,
           rec \in Records(DOMAIN g.node)
    PROVE  /\ IsGraph(AddNode(g, n, rec))
           /\ IsExtension(g, AddNode(g, n, rec), {n}, [x \in {n} |-> rec])
           /\ AddNode(g, n, rec).nodes = Append(g.nodes, n)
           /\ Acyclic(g) => Acyclic(AddNode(g, n, rec))
  <1> DEFINE f == [x \in {n} |-> rec]
             s == <<n>>
             D == DOMAIN g.node
             h == AddNodes(g, s, f)
  <1>1. s \in Seq({n}) /\ Distinct(s) /\ ToSet(s) = {n} /\ DOMAIN s = {1} /\ s[1] = n
    BY DEF Distinct, ToSet
  <1>2. /\ g = [nodes |-> g.nodes, node |-> g.node, inputs |-> g.inputs, outputs |-> g.outputs]
        /\ g.nodes \in Seq(D) /\ g.node = [x \in D |-> g.node[x]]
    BY DEF IsGraph
  <1> HIDE DEF s
  <1>3. h = AddNode(g, n, rec)
    <2>1. g.nodes \o s = Append(g.nodes, n)
      <3>1. g.nodes \in Seq(D \cup {n})
        BY <1>2, SeqMonotonic
      <3> QED
        BY <3>1, AppendIsConcat DEF s
    <2>2. [m \in D \cup ToSet(s) |-> IF m \in ToSet(s) THEN f[m] ELSE g.node[m]]
            = With(g.node, n, rec)
      BY <1>1 DEF With
    <2> QED
      BY <2>1, <2>2, <1>2 DEF AddNodes, AddNode
  <1>4. Records(D) \subseteq Records(D \cup {n})
    BY RecordsGrow
  <1>5. \A i \in DOMAIN s : f[s[i]] = rec
    BY <1>1
  <1>6. /\ IsGraph(h) /\ IsExtension(g, h, ToSet(s), f) /\ h.nodes = g.nodes \o s
    <2>1. \A i \in DOMAIN s : f[s[i]] \in Records(D \cup ToSet(s))
      BY <1>1, <1>4, <1>5
    <2>2. ToSet(s) \cap D = {}
      BY <1>1
    <2> HIDE DEF f
    <2> QED
      BY <1>1, <2>1, <2>2, AddNodesIs
  <1>7. ASSUME NEW m \in ToSet(rec.ins) PROVE m \in D
    <2>1. rec.ins \in Seq(D)
      BY DEF Records
    <2> QED
      BY <2>1, <1>7, Entries
  <1>8. Acyclic(g) => Acyclic(h)
    <2>1. ToSet(s) \cap D = {}
      BY <1>1
    <2>2. Stacked(g, s, f)
      BY <1>5, <1>7 DEF Stacked
    <2> HIDE DEF f, h
    <2>3. ASSUME Acyclic(g) PROVE Acyclic(h)
      BY <1>1, <1>6, <2>1, <2>2, <2>3, AddNodesAcyclic
    <2> QED
      BY <2>3
  <1>9. h.nodes = Append(g.nodes, n)
    <2>1. AddNode(g, n, rec).nodes = Append(g.nodes, n)
      BY <1>2 DEF AddNode
    <2> QED
      BY <2>1, <1>3
  <1> QED
    BY <1>1, <1>3, <1>6, <1>8, <1>9

\* new is the record nd with other operands.
Rereads(new, nd, ins) ==
    /\ new.type = nd.type /\ new.role = nd.role /\ new.epoch = nd.epoch
    /\ new.ins = ins

\* One operand more.
LEMMA AddEdgeIs ==
    ASSUME NEW g, IsGraph(g), NEW p \in DOMAIN g.node, NEW c \in DOMAIN g.node
    PROVE  LET h == AddEdge(g, p, c)
           IN  /\ IsGraph(h) /\ DOMAIN h.node = DOMAIN g.node
               /\ Rereads(h.node[c], g.node[c], Append(g.node[c].ins, p))
               /\ \A m \in DOMAIN g.node \ {c} : h.node[m] = g.node[m]
               /\ h.nodes = g.nodes /\ h.inputs = g.inputs /\ h.outputs = g.outputs
  <1> DEFINE D == DOMAIN g.node
             h == AddEdge(g, p, c)
             rec == [g.node[c] EXCEPT !.ins = Append(@, p)]
             node == [g.node EXCEPT ![c] = rec]
  <1>1. /\ g \in [nodes : Seq(D), node : [D -> Records(D)], inputs : Seq(D), outputs : Seq(D)]
        /\ ToSet(g.nodes) = D /\ Distinct(g.nodes)
    BY DEF IsGraph
  <1>2. g = [nodes |-> g.nodes, node |-> g.node, inputs |-> g.inputs, outputs |-> g.outputs]
    BY <1>1
  <1>3. h = [g EXCEPT !.node = node]
    BY DEF AddEdge
  <1>4. g.node \in [D -> Records(D)]
    BY <1>1
  <1>5. rec \in Records(D)
    <2>1. g.node[c] \in Records(D)
      BY <1>4
    <2>2. Append(g.node[c].ins, p) \in Seq(D)
      <3>1. g.node[c].ins \in Seq(D) /\ p \in D
        BY <2>1 DEF Records
      <3> HIDE DEF D
      <3> QED
        BY <3>1, AppendProperties
    <2> QED
      BY <2>1, <2>2 DEF Records
  <1>11. Rereads(rec, g.node[c], Append(g.node[c].ins, p))
    <2>1. g.node[c] \in Records(D)
      BY <1>4
    <2> QED
      BY <2>1 DEF Rereads, Records
  <1> HIDE DEF rec
  <1>6. node \in [D -> Records(D)] /\ node[c] = rec /\ \A m \in D \ {c} : node[m] = g.node[m]
    BY <1>4, <1>5
  <1> HIDE DEF node, h
  <1>7. h = [nodes |-> g.nodes, node |-> node, inputs |-> g.inputs, outputs |-> g.outputs]
    BY <1>2, <1>3
  <1>8. /\ h.nodes = g.nodes /\ h.node = node /\ h.inputs = g.inputs /\ h.outputs = g.outputs
        /\ DOMAIN h.node = D
    BY <1>6, <1>7
  <1>9. h \in [nodes : Seq(D), node : [D -> Records(D)], inputs : Seq(D), outputs : Seq(D)]
    BY <1>1, <1>6, <1>7
  <1>10. IsGraph(h)
    BY <1>1, <1>8, <1>9 DEF IsGraph
  <1> QED
    BY <1>6, <1>8, <1>10, <1>11 DEF h

\* A node nobody reads and no list names.
LEMMA RemoveNodeIs ==
    ASSUME NEW g, IsGraph(g), NEW n \in DOMAIN g.node,
           \A m \in DOMAIN g.node : n \notin ToSet(g.node[m].ins),
           n \notin ToSet(g.inputs), n \notin ToSet(g.outputs)
    PROVE  LET h == RemoveNode(g, n)
           IN  /\ IsGraph(h) /\ DOMAIN h.node = DOMAIN g.node \ {n}
               /\ \A m \in DOMAIN g.node \ {n} : h.node[m] = g.node[m]
               /\ h.nodes = Only(g.nodes, DOMAIN g.node \ {n})
               /\ h.inputs = g.inputs /\ h.outputs = g.outputs
               /\ Acyclic(g) => Acyclic(h)
  <1> DEFINE D == DOMAIN g.node
             E == D \ {n}
             h == RemoveNode(g, n)
             node == [m \in E |-> g.node[m]]
             nodes == Only(g.nodes, E)
  <1>1. /\ g \in [nodes : Seq(D), node : [D -> Records(D)], inputs : Seq(D), outputs : Seq(D)]
        /\ ToSet(g.nodes) = D /\ Distinct(g.nodes)
    BY DEF IsGraph
  <1>2. g = [nodes |-> g.nodes, node |-> g.node, inputs |-> g.inputs, outputs |-> g.outputs]
    BY <1>1
  <1>3. h = [g EXCEPT !.nodes = nodes, !.node = node]
    BY DEF RemoveNode
  <1>4. nodes \in Seq(E) /\ ToSet(nodes) = E /\ Distinct(nodes)
    <2>1. nodes \in Seq(D) /\ ToSet(nodes) = E /\ Distinct(nodes)
      BY <1>1, OnlyMembers, OnlyDistinct
    <2> HIDE DEF nodes
    <2> QED
      BY <2>1, Retyped
  <1>5. g.inputs \in Seq(E) /\ g.outputs \in Seq(E)
    <2>1. ToSet(g.inputs) \subseteq E /\ ToSet(g.outputs) \subseteq E
      BY <1>1, Entries
    <2> QED
      BY <1>1, <2>1, Retyped
  <1>6. ASSUME NEW m \in E PROVE g.node[m] \in Records(E)
    <2>1. g.node[m] \in Records(D)
      BY <1>1
    <2>2. g.node[m].ins \in Seq(D)
      BY <2>1 DEF Records
    <2>3. g.node[m].ins \in Seq(E)
      <3>1. ToSet(g.node[m].ins) \subseteq E
        BY <2>2, Entries
      <3> QED
        BY <2>2, <3>1, Retyped
    <2> QED
      BY <2>1, <2>3 DEF Records
  <1>7. node \in [E -> Records(E)] /\ DOMAIN node = E /\ \A m \in E : node[m] = g.node[m]
    BY <1>6
  <1> HIDE DEF h, node, nodes
  <1>8. h = [nodes |-> nodes, node |-> node, inputs |-> g.inputs, outputs |-> g.outputs]
    BY <1>2, <1>3
  <1>9. h.nodes = nodes /\ h.node = node /\ h.inputs = g.inputs /\ h.outputs = g.outputs
    BY <1>8
  <1>10. IsGraph(h)
    <2> HIDE DEF E
    <2>1. h \in [nodes : Seq(E), node : [E -> Records(E)], inputs : Seq(E), outputs : Seq(E)]
      BY <1>4, <1>5, <1>7, <1>8
    <2> QED
      BY <1>4, <1>7, <1>9, <2>1 DEF IsGraph
  <1>11. ASSUME Acyclic(g) PROVE Acyclic(h)
    <2>1. PICK r \in [D -> Nat] : \A x \in D : \A m \in ToSet(g.node[x].ins) : r[m] < r[x]
      BY <1>11 DEF Acyclic, Ranks
    <2> DEFINE q == [m \in E |-> r[m]]
    <2>2. q \in [E -> Nat]
      BY <2>1
    <2>3. ASSUME NEW x \in E, NEW m \in ToSet(g.node[x].ins) PROVE m \in E /\ r[m] < r[x]
      <3>1. g.node[x].ins \in Seq(E)
        BY <1>6 DEF Records
      <3>2. m \in E
        BY <3>1, <2>3, Entries
      <3> QED
        BY <3>2, <2>1, <2>3
    <2>4. \A x \in DOMAIN h.node : \A m \in ToSet(h.node[x].ins) : q[m] < q[x]
      BY <1>7, <1>9, <2>3
    <2>5. q \in [DOMAIN h.node -> Nat]
      BY <2>2, <1>7, <1>9
    <2> HIDE DEF q
    <2> QED
      BY <2>4, <2>5 DEF Acyclic, Ranks
  <1> QED
    BY <1>7, <1>9, <1>10, <1>11 DEF h, nodes

\* A list with new for old.
LEMMA ReplacedIs ==
    ASSUME NEW T, NEW s \in Seq(T), NEW old, NEW new \in T
    PROVE  /\ Replaced(s, old, new) \in Seq(T) /\ Len(Replaced(s, old, new)) = Len(s)
           /\ ToSet(Replaced(s, old, new)) =
                 (ToSet(s) \ {old}) \cup (IF old \in ToSet(s) THEN {new} ELSE {})
           /\ old \notin ToSet(s) => Replaced(s, old, new) = s
  <1> DEFINE t == Replaced(s, old, new)
  <1>1. DOMAIN s = 1..Len(s) /\ Len(s) \in Nat
    OBVIOUS
  <1>2. t = [i \in DOMAIN s |-> IF s[i] = old THEN new ELSE s[i]]
    BY DEF Replaced
  <1>3. t \in Seq(T) /\ Len(t) = Len(s) /\ DOMAIN t = DOMAIN s
    <2>1. t \in [1..Len(s) -> T]
      BY <1>1, <1>2
    <2> QED
      BY <1>1, <2>1
  <1>4. \A i \in DOMAIN s : t[i] = IF s[i] = old THEN new ELSE s[i]
    BY <1>2
  <1> HIDE DEF t
  <1>5. ToSet(t) = (ToSet(s) \ {old}) \cup (IF old \in ToSet(s) THEN {new} ELSE {})
    <2>1. ASSUME NEW x \in ToSet(t)
          PROVE  x \in (ToSet(s) \ {old}) \cup (IF old \in ToSet(s) THEN {new} ELSE {})
      BY <1>3, <1>4 DEF ToSet
    <2>2. ASSUME NEW x \in ToSet(s) \ {old} PROVE x \in ToSet(t)
      BY <1>3, <1>4 DEF ToSet
    <2>3. ASSUME old \in ToSet(s) PROVE new \in ToSet(t)
      BY <1>3, <1>4, <2>3 DEF ToSet
    <2> QED
      BY <2>1, <2>2, <2>3
  <1>6. ASSUME old \notin ToSet(s) PROVE t = s
    <2>1. \A i \in DOMAIN s : t[i] = s[i]
      BY <1>4, <1>6 DEF ToSet
    <2> QED
      BY <2>1, <1>3, SeqEqual
  <1> QED
    BY <1>3, <1>5, <1>6 DEF t

\* The users of old read new instead.
LEMMA RedirectIs ==
    ASSUME NEW g, IsGraph(g), NEW old \in DOMAIN g.node, NEW new \in DOMAIN g.node
    PROVE  LET h == Redirect(g, old, new)
           IN  /\ IsGraph(h) /\ DOMAIN h.node = DOMAIN g.node
               /\ \A m \in DOMAIN g.node :
                     Rereads(h.node[m], g.node[m], Replaced(g.node[m].ins, old, new))
               /\ h.nodes = g.nodes /\ h.inputs = g.inputs /\ h.outputs = g.outputs
  <1> DEFINE D == DOMAIN g.node
             h == Redirect(g, old, new)
             node == [m \in D |-> [g.node[m] EXCEPT !.ins = Replaced(@, old, new)]]
  <1>1. /\ g \in [nodes : Seq(D), node : [D -> Records(D)], inputs : Seq(D), outputs : Seq(D)]
        /\ ToSet(g.nodes) = D /\ Distinct(g.nodes)
    BY DEF IsGraph
  <1>2. g = [nodes |-> g.nodes, node |-> g.node, inputs |-> g.inputs, outputs |-> g.outputs]
    BY <1>1
  <1>3. h = [g EXCEPT !.node = node]
    BY DEF Redirect
  <1>4. ASSUME NEW m \in D PROVE node[m] \in Records(D)
    <2> DEFINE rec == g.node[m]
               ins == Replaced(rec.ins, old, new)
    <2>1. rec \in Records(D)
      BY <1>1
    <2>2. ins \in Seq(D)
      BY <2>1, ReplacedIs DEF Records
    <2>3. node[m] = [rec EXCEPT !.ins = ins]
      OBVIOUS
    <2> HIDE DEF rec, ins, node
    <2> QED
      BY <2>1, <2>2, <2>3 DEF Records
  <1>5. node = [m \in D |-> node[m]]
    OBVIOUS
  <1>6. \A m \in D : Rereads(node[m], g.node[m], Replaced(g.node[m].ins, old, new))
    <2>1. \A m \in D : g.node[m] \in Records(D)
      BY <1>1
    <2> QED
      BY <2>1 DEF Rereads, Records
  <1> HIDE DEF node, h
  <1>7. node \in [D -> Records(D)]
    BY <1>4, <1>5
  <1>8. h = [nodes |-> g.nodes, node |-> node, inputs |-> g.inputs, outputs |-> g.outputs]
    BY <1>2, <1>3
  <1>9. /\ h.nodes = g.nodes /\ h.node = node /\ h.inputs = g.inputs /\ h.outputs = g.outputs
        /\ DOMAIN h.node = D
    BY <1>5, <1>8
  <1>10. h \in [nodes : Seq(D), node : [D -> Records(D)], inputs : Seq(D), outputs : Seq(D)]
    BY <1>1, <1>7, <1>8
  <1>11. IsGraph(h)
    BY <1>1, <1>9, <1>10 DEF IsGraph
  <1> QED
    BY <1>6, <1>9, <1>11 DEF h

\* A node is taken out between one of its operands and its users.
LEMMA BypassIs ==
    ASSUME NEW g, IsGraph(g), Acyclic(g), NEW n \in DOMAIN g.node, NEW x \in ToSet(g.node[n].ins),
           n \notin ToSet(g.inputs), n \notin ToSet(g.outputs)
    PROVE  LET h == RemoveNode(Redirect(g, n, x), n)
           IN  /\ IsGraph(h) /\ Acyclic(h) /\ DOMAIN h.node = DOMAIN g.node \ {n}
               /\ x \in DOMAIN h.node
               /\ \A m \in DOMAIN g.node \ {n} :
                     Rereads(h.node[m], g.node[m], Replaced(g.node[m].ins, n, x))
               /\ h.inputs = g.inputs /\ h.outputs = g.outputs
  <1> DEFINE D == DOMAIN g.node
             k == Redirect(g, n, x)
             h == RemoveNode(k, n)
  <1>1. PICK r \in [D -> Nat] : \A y \in D : \A m \in ToSet(g.node[y].ins) : r[m] < r[y]
    BY DEF Acyclic, Ranks
  <1>2. \A m \in D : g.node[m].ins \in Seq(D) /\ g.node[m] \in Records(D)
    BY DEF IsGraph, Records
  <1>3. x \in D
    BY <1>2, Entries
  <1>4. x # n
    BY <1>1, <1>3
  <1>5. /\ IsGraph(k) /\ DOMAIN k.node = D
        /\ \A m \in D : Rereads(k.node[m], g.node[m], Replaced(g.node[m].ins, n, x))
        /\ k.inputs = g.inputs /\ k.outputs = g.outputs
    BY <1>3, RedirectIs
  <1> HIDE DEF k
  <1>6. ASSUME NEW m \in D
        PROVE  /\ k.node[m].ins = Replaced(g.node[m].ins, n, x)
               /\ n \notin ToSet(k.node[m].ins)
               /\ \A y \in ToSet(k.node[m].ins) :
                     y \in ToSet(g.node[m].ins) \/ (y = x /\ n \in ToSet(g.node[m].ins))
    <2>1. k.node[m].ins = Replaced(g.node[m].ins, n, x)
      BY <1>5 DEF Rereads
    <2>2. ToSet(k.node[m].ins) =
             (ToSet(g.node[m].ins) \ {n}) \cup (IF n \in ToSet(g.node[m].ins) THEN {x} ELSE {})
      BY <2>1, <1>2, <1>3, ReplacedIs
    <2>3. CASE n \in ToSet(g.node[m].ins)
      BY <2>1, <2>2, <2>3, <1>4
    <2>4. CASE n \notin ToSet(g.node[m].ins)
      BY <2>1, <2>2, <2>4
    <2> QED
      BY <2>3, <2>4
  <1>7. Acyclic(k)
    <2>1. ASSUME NEW m \in D, NEW y \in ToSet(k.node[m].ins) PROVE r[y] < r[m]
      <3>1. CASE y \in ToSet(g.node[m].ins)
        BY <3>1, <1>1
      <3>2. CASE y = x /\ n \in ToSet(g.node[m].ins)
        <4>1. r[x] < r[n] /\ r[n] < r[m] /\ r[x] \in Nat /\ r[n] \in Nat /\ r[m] \in Nat
          BY <3>2, <1>1, <1>3
        <4> QED
          BY <4>1, <3>2
      <3> QED
        BY <3>1, <3>2, <1>6, <2>1
    <2> QED
      BY <1>1, <1>5, <2>1 DEF Acyclic, Ranks
  <1>8. /\ IsGraph(h) /\ DOMAIN h.node = D \ {n} /\ Acyclic(h)
        /\ \A m \in D \ {n} : h.node[m] = k.node[m]
        /\ h.inputs = g.inputs /\ h.outputs = g.outputs
    <2>1. \A m \in DOMAIN k.node : n \notin ToSet(k.node[m].ins)
      BY <1>5, <1>6
    <2>2. n \in DOMAIN k.node /\ n \notin ToSet(k.inputs) /\ n \notin ToSet(k.outputs)
      BY <1>5
    <2>3. /\ IsGraph(h) /\ DOMAIN h.node = DOMAIN k.node \ {n}
          /\ \A m \in DOMAIN k.node \ {n} : h.node[m] = k.node[m]
          /\ h.inputs = k.inputs /\ h.outputs = k.outputs
          /\ Acyclic(k) => Acyclic(h)
      BY <1>5, <2>1, <2>2, RemoveNodeIs
    <2> HIDE DEF h
    <2> QED
      BY <1>5, <1>7, <2>3
  <1> QED
    BY <1>3, <1>4, <1>5, <1>8 DEF k

-----------------------------------------------------------------------------
\* The recursive function of FlattenSeq, up to n.
FlatUpTo(seqs, n, flat) ==
    flat = [i \in 1..n |-> IF i = 1 THEN seqs[i] ELSE flat[i - 1] \o seqs[i]]

\* Lists without repetitions, no two of which share an entry.
Apart(seqs) ==
    /\ \A i \in DOMAIN seqs : Distinct(seqs[i])
    /\ \A i, j \in DOMAIN seqs : i # j => ToSet(seqs[i]) \cap ToSet(seqs[j]) = {}

\* The entries of a sequence of sequences; it is as long as the sequence if none
\* of those is empty, or longer.
LEMMA FlattenIs ==
    ASSUME NEW T, NEW seqs \in Seq(Seq(T))
    PROVE  /\ FlattenSeq(seqs) \in Seq(T)
           /\ ToSet(FlattenSeq(seqs)) = UNION {ToSet(seqs[i]) : i \in DOMAIN seqs}
           /\ (\A i \in DOMAIN seqs : Len(seqs[i]) >= 1) => Len(FlattenSeq(seqs)) >= Len(seqs)
           /\ (\A i \in DOMAIN seqs : Len(seqs[i]) = 1) =>
                 /\ Len(FlattenSeq(seqs)) = Len(seqs)
                 /\ \A i \in DOMAIN seqs : FlattenSeq(seqs)[i] = seqs[i][1]
           /\ Apart(seqs) => Distinct(FlattenSeq(seqs))
  <1>1. CASE Len(seqs) = 0
    <2>1. seqs = <<>>
      BY <1>1
    <2>2. FlattenSeq(seqs) = <<>>
      BY <1>1, <2>1 DEF FlattenSeq
    <2>3. DOMAIN seqs = {} /\ ToSet(<<>>) = {} /\ <<>> \in Seq(T)
      BY <2>1 DEF ToSet
    <2>4. UNION {ToSet(seqs[i]) : i \in DOMAIN seqs} = {}
      BY <2>3
    <2>5. Len(<<>>) = 0 /\ Distinct(<<>>)
      BY DEF Distinct
    <2> QED
      BY <1>1, <2>2, <2>3, <2>4, <2>5
  <1>2. CASE Len(seqs) # 0
    <2> DEFINE Good == {n \in Nat : n >= 1 => \E flat : FlatUpTo(seqs, n, flat)}
    <2>1. 0 \in Good
      OBVIOUS
    <2>2. ASSUME NEW n \in Nat, n \in Good PROVE n + 1 \in Good
      <3>1. CASE n = 0
        <4> DEFINE flat == [i \in 1..1 |-> seqs[i]]
        <4>1. FlatUpTo(seqs, 1, flat)
          BY DEF FlatUpTo
        <4> QED
          BY <4>1, <3>1
      <3>2. CASE n # 0
        <4>1. PICK flat : FlatUpTo(seqs, n, flat)
          BY <2>2, <3>2
        <4> DEFINE more == [i \in 1..(n + 1) |->
                               IF i = n + 1 THEN flat[n] \o seqs[n + 1] ELSE flat[i]]
        <4>2. \A i \in 1..n : more[i] = flat[i]
          OBVIOUS
        <4>3. \A i \in 1..n : flat[i] = IF i = 1 THEN seqs[i] ELSE flat[i - 1] \o seqs[i]
          BY <4>1 DEF FlatUpTo
        <4>4. ASSUME NEW i \in 1..(n + 1)
              PROVE  more[i] = IF i = 1 THEN seqs[i] ELSE more[i - 1] \o seqs[i]
          <5>1. CASE i = n + 1
            <6>1. i # 1 /\ i - 1 = n /\ n \in 1..n
              BY <5>1, <3>2
            <6> QED
              BY <5>1, <6>1, <4>2
          <5>2. CASE i \in 2..n
            <6>1. i - 1 \in 1..n
              BY <5>2
            <6> QED
              BY <5>2, <6>1, <4>2, <4>3
          <5>3. CASE i = 1 /\ i # n + 1
            BY <5>3, <3>2, <4>2, <4>3
          <5> QED
            BY <5>1, <5>2, <5>3
        <4>5. FlatUpTo(seqs, n + 1, more)
          <5> HIDE DEF more
          <5> QED
            BY <4>4 DEF FlatUpTo, more
        <4> QED
          BY <4>5
      <3> QED
        BY <3>1, <3>2
    <2>3. \A n \in Nat : n \in Good
      <3> HIDE DEF Good
      <3> QED
        BY <2>1, <2>2, SetInduction
    <2>4. Len(seqs) \in Nat /\ Len(seqs) >= 1 /\ DOMAIN seqs = 1..Len(seqs)
      BY <1>2
    <2> DEFINE flat == CHOOSE f : FlatUpTo(seqs, Len(seqs), f)
    <2>5. FlatUpTo(seqs, Len(seqs), flat)
      BY <2>3, <2>4
    <2>6. FlattenSeq(seqs) = flat[Len(seqs)]
      BY <1>2 DEF FlattenSeq, FlatUpTo
    <2> HIDE DEF flat
    <2>7. \A i \in 1..Len(seqs) : flat[i] = IF i = 1 THEN seqs[i] ELSE flat[i - 1] \o seqs[i]
      BY <2>5 DEF FlatUpTo
    <2> DEFINE Done(n) == /\ flat[n] \in Seq(T)
                          /\ ToSet(flat[n]) = UNION {ToSet(seqs[i]) : i \in 1..n}
                          /\ (\A i \in DOMAIN seqs : Len(seqs[i]) >= 1) => Len(flat[n]) >= n
                          /\ (\A i \in DOMAIN seqs : Len(seqs[i]) = 1) =>
                                Len(flat[n]) = n /\ \A i \in 1..n : flat[n][i] = seqs[i][1]
                          /\ Apart(seqs) => Distinct(flat[n])
               Better == {n \in Nat : n \in 1..Len(seqs) => Done(n)}
    <2>8. 0 \in Better
      OBVIOUS
    <2>9. ASSUME NEW n \in Nat, n \in Better, n + 1 \in 1..Len(seqs) PROVE Done(n + 1)
      <3>1. seqs[n + 1] \in Seq(T) /\ n + 1 \in DOMAIN seqs
        BY <2>4, <2>9
      <3>2. CASE n = 0
        <4>1. flat[1] = seqs[1]
          BY <2>7, <2>4
        <4>2. 1..1 = {1}
          OBVIOUS
        <4>3. Apart(seqs) => Distinct(flat[1])
          BY <4>1, <3>1, <3>2 DEF Apart
        <4>4. (\A i \in DOMAIN seqs : Len(seqs[i]) = 1) =>
                 Len(flat[1]) = 1 /\ \A i \in 1..1 : flat[1][i] = seqs[i][1]
          BY <4>1, <4>2, <3>1, <3>2
        <4> QED
          BY <4>1, <4>2, <4>3, <4>4, <3>1, <3>2
      <3>3. CASE n # 0
        <4>1. n \in 1..Len(seqs) /\ n + 1 # 1 /\ (n + 1) - 1 = n
          <5>1. n + 1 \in 1..Len(seqs)
            BY <2>9
          <5> QED
            BY <5>1, <3>3, <2>4
        <4>2. Done(n)
          BY <4>1, <2>9
        <4>3. flat[n + 1] = flat[n] \o seqs[n + 1]
          BY <2>7, <2>9, <4>1
        <4>4. /\ flat[n + 1] \in Seq(T)
              /\ ToSet(flat[n + 1]) = ToSet(flat[n]) \cup ToSet(seqs[n + 1])
          BY <4>2, <4>3, <3>1, Joined
        <4>5. 1..(n + 1) = (1..n) \cup {n + 1}
          OBVIOUS
        <4>6. ToSet(flat[n + 1]) = UNION {ToSet(seqs[i]) : i \in 1..(n + 1)}
          BY <4>2, <4>4, <4>5
        <4>7. /\ Len(flat[n + 1]) = Len(flat[n]) + Len(seqs[n + 1])
              /\ Len(flat[n]) \in Nat /\ Len(seqs[n + 1]) \in Nat
          BY <4>2, <4>3, <3>1
        <4>8. (\A i \in DOMAIN seqs : Len(seqs[i]) >= 1) => Len(flat[n + 1]) >= n + 1
          <5> SUFFICES ASSUME \A i \in DOMAIN seqs : Len(seqs[i]) >= 1
                       PROVE  Len(flat[n + 1]) >= n + 1
            OBVIOUS
          <5>1. Len(flat[n]) >= n /\ Len(seqs[n + 1]) >= 1
            BY <4>2, <3>1, <4>1
          <5>2. \A a, b \in Nat : a >= n /\ b >= 1 => a + b >= n + 1
            OBVIOUS
          <5>3. Len(flat[n]) + Len(seqs[n + 1]) >= n + 1
            BY <5>1, <5>2, <4>7
          <5> QED
            BY <5>3, <4>7
        <4>9. (\A i \in DOMAIN seqs : Len(seqs[i]) = 1) =>
                 /\ Len(flat[n + 1]) = n + 1
                 /\ \A i \in 1..(n + 1) : flat[n + 1][i] = seqs[i][1]
          <5> SUFFICES ASSUME \A i \in DOMAIN seqs : Len(seqs[i]) = 1
                       PROVE  /\ Len(flat[n + 1]) = n + 1
                              /\ \A i \in 1..(n + 1) : flat[n + 1][i] = seqs[i][1]
            OBVIOUS
          <5>1. Len(flat[n]) = n /\ Len(seqs[n + 1]) = 1 /\ \A i \in 1..n : flat[n][i] = seqs[i][1]
            BY <4>2, <3>1
          <5>2. Len(flat[n + 1]) = n + 1
            BY <5>1, <4>7
          <5> DEFINE u == flat[n]
                     v == seqs[n + 1]
          <5>3. u \in Seq(T) /\ v \in Seq(T) /\ Len(u) = n /\ Len(v) = 1 /\ flat[n + 1] = u \o v
            BY <4>2, <4>3, <3>1, <5>1
          <5> HIDE DEF u, v
          <5>4. (\A i \in 1..n : (u \o v)[i] = u[i]) /\ (u \o v)[n + 1] = v[1]
            <6>1. /\ u \in Seq(T) /\ v \in Seq(T) /\ Len(u) = n /\ Len(v) = 1 /\ n \in Nat
              BY <5>3
            <6>2. \A i \in 1..n : (u \o v)[i] = u[i]
              BY ONLY <6>1
            <6>3. (u \o v)[n + 1] = v[1]
              <7> DEFINE m == n + 1
              <7>1. /\ u \in Seq(T) /\ v \in Seq(T) /\ m \in 1..(Len(u) + Len(v))
                    /\ m > Len(u) /\ m - Len(u) = 1
                BY ONLY <6>1
              <7> HIDE DEF m
              <7>2. (u \o v)[m] = v[m - Len(u)]
                BY ONLY <7>1
              <7> QED
                BY <7>1, <7>2 DEF m
            <6> QED
              BY <6>2, <6>3
          <5>5. \A i \in 1..(n + 1) : flat[n + 1][i] = seqs[i][1]
            <6> TAKE i \in 1..(n + 1)
            <6>1. i \in 1..n \/ i = n + 1
              BY <4>5
            <6>2. \A k \in 1..n : u[k] = seqs[k][1]
              BY <5>1 DEF u
            <6> HIDE DEF Done
            <6> QED
              BY <5>3, <5>4, <6>1, <6>2 DEF v
          <5> QED
            BY <5>2, <5>5
        <4>10. Apart(seqs) => Distinct(flat[n + 1])
          <5> SUFFICES ASSUME Apart(seqs) PROVE Distinct(flat[n + 1])
            OBVIOUS
          <5>1. Distinct(flat[n]) /\ Distinct(seqs[n + 1])
            BY <4>2, <3>1 DEF Apart
          <5>2. \A i \in 1..n : i \in DOMAIN seqs /\ i # n + 1
            BY <2>4, <4>1
          <5>3. \A i \in 1..n : ToSet(seqs[i]) \cap ToSet(seqs[n + 1]) = {}
            BY <5>2, <3>1 DEF Apart
          <5>4. ToSet(flat[n]) \cap ToSet(seqs[n + 1]) = {}
            BY <5>3, <4>2
          <5>5. flat[n] \in Seq(T)
            BY <4>2
          <5> HIDE DEF Done
          <5> QED
            BY <5>1, <5>4, <5>5, <4>3, <3>1, Joined
        <4> HIDE DEF Better
        <4> QED
          BY <4>4, <4>6, <4>8, <4>9, <4>10
      <3> QED
        BY <3>2, <3>3
    <2>10. \A n \in Nat : n \in Better
      <3>1. ASSUME NEW n \in Nat, n \in Better PROVE n + 1 \in Better
        <4>1. CASE n + 1 \in 1..Len(seqs)
          <5>1. Done(n + 1)
            BY <2>9, <3>1, <4>1
          <5> HIDE DEF Done
          <5> QED
            BY <5>1
        <4>2. CASE n + 1 \notin 1..Len(seqs)
          <5> HIDE DEF Done
          <5> QED
            BY <4>2
        <4> QED
          BY <4>1, <4>2
      <3> HIDE DEF Better
      <3> QED
        BY <2>8, <3>1, SetInduction
    <2>11. Done(Len(seqs))
      <3> HIDE DEF Done
      <3> QED
        BY <2>10, <2>4
    <2> QED
      BY <2>11, <2>6, <2>4
  <1> QED
    BY <1>1, <1>2

-----------------------------------------------------------------------------
\* Sums of sequences of integers.

\* Two functions that agree at zero, and go on alike from each number to the next, agree.
LEMMA ChainSame ==
    ASSUME NEW n \in Nat, NEW f, NEW h, f[0] = h[0],
           \A i \in 1..n : f[i - 1] = h[i - 1] => f[i] = h[i]
    PROVE  \A i \in 0..n : f[i] = h[i]
  <1> DEFINE Good == {i \in Nat : i <= n => f[i] = h[i]}
  <1>1. 0 \in Good
    OBVIOUS
  <1>2. ASSUME NEW i \in Nat, i \in Good PROVE i + 1 \in Good
    <2>1. CASE i + 1 <= n
      <3>1. i + 1 \in 1..n /\ f[i] = h[i] /\ (i + 1) - 1 = i
        BY <1>2, <2>1
      <3> QED
        BY <3>1
    <2> QED
      BY <2>1
  <1>3. \A i \in Nat : i \in Good
    <2> HIDE DEF Good
    <2> QED
      BY <1>1, <1>2, SetInduction
  <1> QED
    BY <1>3

\* The sum of a sequence of integers.
SumUpTo(v, n, sum) == sum = [i \in 0..n |-> IF i = 0 THEN 0 ELSE sum[i - 1] + v[i]]
Total(v) ==
    LET sum[i \in 0..Len(v)] == IF i = 0 THEN 0 ELSE sum[i - 1] + v[i]
    IN  sum[Len(v)]

\* What the partial sums of the first n entries are.
SumsTo(v, n, sum) ==
    /\ sum \in [0..n -> Int] /\ sum[0] = 0
    /\ \A i \in 1..n : sum[i] = sum[i - 1] + v[i]
PartialSums(v, sum) == SumsTo(v, Len(v), sum)

\* There are partial sums.
LEMMA SumsExist ==
    ASSUME NEW v \in Seq(Int)
    PROVE  \E sum : PartialSums(v, sum)
  <1> DEFINE Good == {n \in Nat : n <= Len(v) => \E sum : SumsTo(v, n, sum)}
  <1>1. 0 \in Good
    <2> DEFINE sum == [i \in 0..0 |-> 0]
    <2>1. SumsTo(v, 0, sum)
      BY DEF SumsTo
    <2> QED
      BY <2>1
  <1>2. ASSUME NEW n \in Nat, n \in Good PROVE n + 1 \in Good
    <2>1. SUFFICES ASSUME n + 1 <= Len(v) PROVE \E sum : SumsTo(v, n + 1, sum)
      OBVIOUS
    <2>2. PICK sum : SumsTo(v, n, sum)
      BY <1>2, <2>1
    <2> DEFINE more == [i \in 0..(n + 1) |-> IF i = n + 1 THEN sum[n] + v[n + 1] ELSE sum[i]]
    <2>3. v[n + 1] \in Int
      BY <2>1
    <2>4. more \in [0..(n + 1) -> Int] /\ more[0] = 0
      BY <2>2, <2>3 DEF SumsTo
    <2>5. \A i \in 1..(n + 1) : more[i] = more[i - 1] + v[i]
      BY <2>2 DEF SumsTo
    <2> HIDE DEF more
    <2>6. SumsTo(v, n + 1, more)
      BY <2>4, <2>5 DEF SumsTo
    <2> QED
      BY <2>6
  <1>3. Len(v) \in Good
    <2> HIDE DEF Good
    <2> QED
      BY <1>1, <1>2, SetInduction
  <1>4. Len(v) \in Nat
    OBVIOUS
  <1> QED
    BY <1>3, <1>4 DEF PartialSums, SumsTo

\* The last of them is the sum, whichever function they are the values of.
LEMMA TotalOf ==
    ASSUME NEW v \in Seq(Int), NEW sum, PartialSums(v, sum)
    PROVE  Total(v) = sum[Len(v)] /\ Total(v) \in Int
  <1> DEFINE s == CHOOSE s : SumUpTo(v, Len(v), s)
  <1>1. Len(v) \in Nat
    OBVIOUS
  <1>2. sum = [i \in 0..Len(v) |-> sum[i]]
    BY DEF PartialSums, SumsTo
  <1>3. SumUpTo(v, Len(v), sum)
    <2>1. \A i \in 0..Len(v) : sum[i] = IF i = 0 THEN 0 ELSE sum[i - 1] + v[i]
      BY <1>1 DEF PartialSums, SumsTo
    <2> QED
      BY <1>2, <2>1 DEF SumUpTo
  <1>4. SumUpTo(v, Len(v), s)
    BY <1>3
  <1>5. Total(v) = s[Len(v)]
    BY DEF Total, SumUpTo
  <1>6. s[0] = sum[0] /\ \A i \in 1..Len(v) : s[i - 1] = sum[i - 1] => s[i] = sum[i]
    <2> HIDE DEF s
    <2>1. \A i \in 0..Len(v) : s[i] = IF i = 0 THEN 0 ELSE s[i - 1] + v[i]
      BY <1>4 DEF SumUpTo
    <2> QED
      BY <1>1, <2>1 DEF PartialSums, SumsTo
  <1>7. \A i \in 0..Len(v) : s[i] = sum[i]
    <2> HIDE DEF s
    <2> QED
      BY <1>1, <1>6, ChainSame
  <1> QED
    BY <1>1, <1>5, <1>7 DEF PartialSums, SumsTo

\* A sum is an integer; that of nothing is zero.
LEMMA TotalIs ==
    ASSUME NEW v \in Seq(Int)
    PROVE  /\ Total(v) \in Int
           /\ v = <<>> => Total(v) = 0
  <1>1. PICK sum : PartialSums(v, sum)
    BY SumsExist
  <1> QED
    BY <1>1, TotalOf DEF PartialSums, SumsTo

\* Sums are added entry by entry.
LEMMA TotalPlus ==
    ASSUME NEW n \in Nat, NEW u \in [1..n -> Int], NEW v \in [1..n -> Int],
           NEW w \in [1..n -> Int], \A i \in 1..n : w[i] = u[i] + v[i]
    PROVE  Total(w) = Total(u) + Total(v)
  <1>0. u \in Seq(Int) /\ v \in Seq(Int) /\ w \in Seq(Int) /\ Len(u) = n /\ Len(v) = n /\ Len(w) = n
    OBVIOUS
  <1>1. PICK a : PartialSums(u, a)
    BY <1>0, SumsExist
  <1>2. PICK b : PartialSums(v, b)
    BY <1>0, SumsExist
  <1> DEFINE c == [i \in 0..n |-> a[i] + b[i]]
  <1>3. PartialSums(w, c)
    <2>1. /\ a \in [0..n -> Int] /\ a[0] = 0 /\ \A i \in 1..n : a[i] = a[i - 1] + u[i]
          /\ b \in [0..n -> Int] /\ b[0] = 0 /\ \A i \in 1..n : b[i] = b[i - 1] + v[i]
      BY <1>0, <1>1, <1>2 DEF PartialSums, SumsTo
    <2>2. c \in [0..n -> Int] /\ c[0] = 0
      BY <2>1
    <2>3. ASSUME NEW i \in 1..n PROVE c[i] = c[i - 1] + w[i]
      <3>1. i \in 0..n /\ i - 1 \in 0..n /\ u[i] \in Int /\ v[i] \in Int
        OBVIOUS
      <3>2. a[i - 1] \in Int /\ b[i - 1] \in Int
        BY <3>1, <2>1
      <3>3. c[i] = a[i] + b[i] /\ c[i - 1] = a[i - 1] + b[i - 1] /\ w[i] = u[i] + v[i]
        BY <3>1
      <3> QED
        BY <3>1, <3>2, <3>3, <2>1
    <2> HIDE DEF c
    <2> QED
      BY <1>0, <2>2, <2>3 DEF PartialSums, SumsTo
  <1>4. Total(u) = a[n] /\ Total(v) = b[n] /\ Total(w) = c[n]
    BY <1>0, <1>1, <1>2, <1>3, TotalOf
  <1> QED
    BY <1>4

\* A common factor is drawn out.
LEMMA TotalTimes ==
    ASSUME NEW n \in Nat, NEW u \in [1..n -> Int], NEW d \in Int,
           NEW w \in [1..n -> Int], \A i \in 1..n : w[i] = u[i] * d
    PROVE  Total(w) = Total(u) * d
  <1>0. u \in Seq(Int) /\ w \in Seq(Int) /\ Len(u) = n /\ Len(w) = n
    OBVIOUS
  <1>1. PICK a : PartialSums(u, a)
    BY <1>0, SumsExist
  <1> DEFINE c == [i \in 0..n |-> a[i] * d]
  <1>3. PartialSums(w, c)
    <2>1. c \in [0..n -> Int] /\ c[0] = 0
      BY <1>0, <1>1 DEF PartialSums, SumsTo
    <2>2. ASSUME NEW i \in 1..n PROVE c[i] = c[i - 1] + w[i]
      <3>1. a[i] = a[i - 1] + u[i] /\ i - 1 \in 0..n /\ i \in 0..n
        BY <1>0, <1>1 DEF PartialSums, SumsTo
      <3>2. a[i - 1] \in Int /\ u[i] \in Int
        BY <1>0, <1>1, <3>1 DEF PartialSums, SumsTo
      <3> QED
        BY <3>1, <3>2
    <2> QED
      BY <1>0, <2>1, <2>2 DEF PartialSums, SumsTo
  <1>4. Total(u) = a[n] /\ Total(w) = c[n]
    BY <1>0, <1>1, <1>3, TotalOf
  <1> QED
    BY <1>4

\* One entry more.
LEMMA TotalAppend ==
    ASSUME NEW v \in Seq(Int), NEW x \in Int
    PROVE  Total(Append(v, x)) = Total(v) + x
  <1>1. PICK a : PartialSums(v, a)
    BY SumsExist
  <1> DEFINE n == Len(v)
             w == Append(v, x)
             c == [i \in 0..(n + 1) |-> IF i = n + 1 THEN a[n] + x ELSE a[i]]
  <1>0. /\ w \in Seq(Int) /\ Len(w) = n + 1 /\ w[n + 1] = x /\ \A i \in 1..n : w[i] = v[i]
        /\ n \in Nat
    OBVIOUS
  <1>2. PartialSums(w, c)
    <2> HIDE DEF n, w
    <2>1. a \in [0..n -> Int] /\ a[0] = 0 /\ \A i \in 1..n : a[i] = a[i - 1] + v[i]
      BY <1>1 DEF PartialSums, SumsTo, n
    <2>2. c \in [0..(n + 1) -> Int] /\ c[0] = 0
      BY <1>0, <2>1
    <2>3. \A i \in 1..(n + 1) : c[i] = c[i - 1] + w[i]
      BY <1>0, <2>1
    <2> HIDE DEF c
    <2> QED
      BY <1>0, <2>2, <2>3 DEF PartialSums, SumsTo
  <1>3. Total(v) = a[n]
    BY <1>1, TotalOf
  <1>4. Total(w) = c[n + 1]
    <2> HIDE DEF c, w
    <2> QED
      BY <1>0, <1>2, TotalOf
  <1> QED
    BY <1>0, <1>3, <1>4

\* c goes on from the partial sums a of u with the partial sums b of v.
GoesOn(n, k, u, v, w, a, b, c) ==
    /\ n \in Nat /\ k \in Nat /\ SumsTo(u, n, a) /\ SumsTo(v, k, b)
    /\ \A i \in 1..n : w[i] = u[i]
    /\ \A i \in 1..k : w[n + i] = v[i] /\ v[i] \in Int
    /\ c \in [0..(n + k) -> Int]
    /\ \A i \in 0..n : c[i] = a[i]
    /\ \A i \in 0..k : c[n + i] = a[n] + b[i]
\* Then it has the partial sums of v behind u.
LEMMA SumsJoin ==
    ASSUME NEW n, NEW k, NEW u, NEW v, NEW w, NEW a, NEW b, NEW c, GoesOn(n, k, u, v, w, a, b, c)
    PROVE  SumsTo(w, n + k, c)
  <1>0. /\ n \in Nat /\ k \in Nat
        /\ \A i \in 1..n : w[i] = u[i]
        /\ \A i \in 1..k : w[n + i] = v[i] /\ v[i] \in Int
        /\ c \in [0..(n + k) -> Int]
        /\ \A i \in 0..n : c[i] = a[i]
        /\ \A i \in 0..k : c[n + i] = a[n] + b[i]
    BY DEF GoesOn
  <1>1. a \in [0..n -> Int] /\ a[0] = 0 /\ \A i \in 1..n : a[i] = a[i - 1] + u[i]
    BY DEF SumsTo, GoesOn
  <1>2. b \in [0..k -> Int] /\ b[0] = 0 /\ \A i \in 1..k : b[i] = b[i - 1] + v[i]
    BY DEF SumsTo, GoesOn
  <1>3. a[n] \in Int
    BY <1>1, <1>0
  <1>5. ASSUME NEW i \in 0..(n + k)
        PROVE  \/ i \in 0..n
               \/ \E j \in 1..k : i = n + j
    <2>1. CASE i > n
      <3>1. i - n \in 1..k /\ i = n + (i - n)
        BY <2>1, <1>0
      <3> QED
        BY <3>1
    <2> QED
      BY <2>1, <1>0
  <1>7. ASSUME NEW i \in 1..(n + k) PROVE c[i] = c[i - 1] + w[i]
    <2>1. CASE i \in 0..n
      BY <2>1, <1>1, <1>0
    <2>2. ASSUME NEW j \in 1..k, i = n + j PROVE c[i] = c[i - 1] + w[i]
      <3>1. j \in 0..k /\ j - 1 \in 0..k /\ i - 1 = n + (j - 1)
        BY <2>2, <1>0
      <3>2. c[i] = a[n] + b[j] /\ c[i - 1] = a[n] + b[j - 1]
        BY <3>1, <2>2, <1>0
      <3>3. b[j] = b[j - 1] + v[j] /\ w[i] = v[j] /\ v[j] \in Int /\ b[j - 1] \in Int
        BY <3>1, <2>2, <1>2, <1>0
      <3> QED
        BY <3>2, <3>3, <1>3, <1>0
    <2> QED
      BY <2>1, <2>2, <1>5
  <1>8. c[0] = 0
    BY <1>1, <1>0
  <1> QED
    BY <1>7, <1>8, <1>0 DEF SumsTo

\* One sequence after the other.
LEMMA TotalJoin ==
    ASSUME NEW u \in Seq(Int), NEW v \in Seq(Int)
    PROVE  u \o v \in Seq(Int) /\ Total(u \o v) = Total(u) + Total(v)
  <1>1. PICK su : PartialSums(u, su)
    BY SumsExist
  <1>2. PICK sv : PartialSums(v, sv)
    BY SumsExist
  <1> DEFINE lu == Len(u)
             lv == Len(v)
             uv == u \o v
             sum == [i \in 0..(lu + lv) |-> IF i <= lu THEN su[i] ELSE su[lu] + sv[i - lu]]
  <1>10. uv \in Seq(Int) /\ Len(uv) = lu + lv
    OBVIOUS
  <1>3. /\ lu \in Nat /\ lv \in Nat
        /\ \A i \in 1..lu : uv[i] = u[i]
        /\ \A i \in 1..lv : uv[lu + i] = v[i] /\ v[i] \in Int
    OBVIOUS
  <1>9. SumsTo(u, lu, su) /\ SumsTo(v, lv, sv)
    BY <1>1, <1>2 DEF PartialSums
  <1>8. /\ su \in [0..lu -> Int] /\ sv \in [0..lv -> Int] /\ sv[0] = 0
    BY <1>9 DEF SumsTo
  <1>7. /\ sum \in [0..(lu + lv) -> Int]
        /\ \A i \in 0..lu : sum[i] = su[i]
        /\ \A i \in 0..lv : sum[lu + i] = su[lu] + sv[i]
    <2> HIDE DEF lu, lv, uv
    <2>1. \A i \in 0..lu : sum[i] = su[i]
      BY <1>3
    <2>2. ASSUME NEW i \in 0..lv PROVE sum[lu + i] = su[lu] + sv[i]
      <3>1. lu + i \in 0..(lu + lv) /\ (lu + i) - lu = i
        BY <1>3
      <3>2. CASE i = 0
        <4>1. lu + i = lu /\ lu \in 0..lu
          BY <3>2, <1>3
        <4> QED
          BY <3>2, <2>1, <4>1, <1>8
      <3>3. CASE i # 0
        <4>1. ~(lu + i <= lu)
          BY <3>3, <1>3
        <4> QED
          BY <3>1, <4>1
      <3> QED
        BY <3>2, <3>3
    <2>3. ASSUME NEW i \in 0..(lu + lv)
          PROVE  (IF i <= lu THEN su[i] ELSE su[lu] + sv[i - lu]) \in Int
      <3>1. i <= lu => i \in 0..lu
        BY <1>3
      <3>2. ~(i <= lu) => i - lu \in 0..lv
        BY <1>3
      <3>3. lu \in 0..lu
        BY <1>3
      <3> QED
        BY <3>1, <3>2, <3>3, <1>8
    <2>4. sum \in [0..(lu + lv) -> Int]
      BY <2>3
    <2> QED
      BY <2>1, <2>2, <2>4
  <1>4. SumsTo(uv, lu + lv, sum) /\ sum[lu + lv] = su[lu] + sv[lv]
    <2> HIDE DEF lu, lv, uv, sum
    <2>1. GoesOn(lu, lv, u, v, uv, su, sv, sum)
      BY <1>3, <1>7, <1>9 DEF GoesOn
    <2>3. SumsTo(uv, lu + lv, sum)
      BY <2>1, SumsJoin
    <2>2. lv \in 0..lv
      BY <1>3
    <2> QED
      BY <2>2, <2>3, <1>7
  <1>5. Total(u) = su[lu] /\ Total(v) = sv[lv]
    BY <1>1, <1>2, TotalOf
  <1>6. Total(uv) = sum[lu + lv]
    <2>1. PartialSums(uv, sum)
      <3> HIDE DEF lu, lv, sum, uv
      <3> QED
        BY <1>10, <1>4 DEF PartialSums
    <2> HIDE DEF lu, lv, sum, uv
    <2> QED
      BY <1>10, <2>1, TotalOf
  <1> QED
    BY <1>10, <1>4, <1>5, <1>6

\* Where all entries but the kth are zero, the kth is the sum.
LEMMA TotalPoint ==
    ASSUME NEW n \in Nat, NEW v \in [1..n -> Int], NEW k \in 1..n,
           \A i \in 1..n : i # k => v[i] = 0
    PROVE  Total(v) = v[k]
  <1> DEFINE c == [i \in 0..n |-> IF i < k THEN 0 ELSE v[k]]
  <1>0. v \in Seq(Int) /\ Len(v) = n
    OBVIOUS
  <1>1. PartialSums(v, c)
    <2>1. c \in [0..n -> Int] /\ c[0] = 0
      OBVIOUS
    <2>2. ASSUME NEW i \in 1..n PROVE c[i] = c[i - 1] + v[i]
      <3>1. CASE i < k
        BY <3>1
      <3>2. CASE i = k
        BY <3>2
      <3>3. CASE i > k
        BY <3>3
      <3> QED
        BY <3>1, <3>2, <3>3
    <2> HIDE DEF c
    <2> QED
      BY <1>0, <2>1, <2>2 DEF PartialSums, SumsTo
  <1>2. Total(v) = c[n]
    <2> HIDE DEF c
    <2> QED
      BY <1>0, <1>1, TotalOf
  <1> QED
    BY <1>2

\* The sum of zeros.
LEMMA TotalZero ==
    ASSUME NEW n \in Nat, NEW v \in [1..n -> Int], \A i \in 1..n : v[i] = 0
    PROVE  Total(v) = 0
  <1> DEFINE c == [i \in 0..n |-> 0]
  <1>0. v \in Seq(Int) /\ Len(v) = n /\ v \in [1..n -> Int]
    OBVIOUS
  <1>1. PartialSums(v, c)
    BY <1>0 DEF PartialSums, SumsTo
  <1> QED
    BY <1>0, <1>1, TotalOf

\* The first entry and the rest.
LEMMA TotalRest ==
    ASSUME NEW v \in Seq(Int), v # <<>>
    PROVE  Total(v) = Head(v) + Total(Tail(v)) /\ Head(v) \in Int /\ Tail(v) \in Seq(Int)
  <1>1. <<Head(v)>> \in Seq(Int) /\ Tail(v) \in Seq(Int) /\ Head(v) \in Int
    OBVIOUS
  <1>2. v = <<Head(v)>> \o Tail(v)
    OBVIOUS
  <1>3. Total(v) = Total(<<Head(v)>>) + Total(Tail(v))
    BY <1>1, <1>2, TotalJoin
  <1>4. <<Head(v)>> \in [1..1 -> Int] /\ <<Head(v)>>[1] = Head(v) /\ \A i \in 1..1 : i = 1
    BY <1>1
  <1>5. Total(<<Head(v)>>) = Head(v)
    <2> DEFINE u == <<Head(v)>>
    <2>1. u \in [1..1 -> Int] /\ u[1] = Head(v) /\ 1 \in 1..1 /\ \A i \in 1..1 : i # 1 => u[i] = 0
      BY <1>4
    <2> HIDE DEF u
    <2>2. Total(u) = u[1]
      BY <2>1, TotalPoint
    <2> QED
      BY <2>1, <2>2 DEF u
  <1> QED
    BY <1>1, <1>3, <1>5

\* Sums over the entries of a sequence that are in a set.
Masked(f, s, S) == [i \in DOMAIN s |-> IF s[i] \in S THEN f[s[i]] ELSE 0]
Mapped(f, s) == [i \in DOMAIN s |-> f[s[i]]]

\* To leave entries out is to add zeros for them.
LEMMA TotalOnly ==
    ASSUME NEW T, NEW s \in Seq(T), NEW S, NEW f, \A x \in ToSet(s) : f[x] \in Int
    PROVE  /\ Mapped(f, Only(s, S)) \in Seq(Int) /\ Masked(f, s, S) \in Seq(Int)
           /\ Total(Mapped(f, Only(s, S))) = Total(Masked(f, s, S))
  <1> DEFINE n == Len(s)
             U == ToSet(s)
             v == Masked(f, s, S)
  <1>1. /\ n \in Nat /\ DOMAIN s = 1..n /\ \A i \in 1..n : s[i] \in U
    BY Entries
  <1>2. PICK kept : KeptUpTo(s, S, n, kept) /\ Only(s, S) = kept[n]
    BY OnlyDefined
  <1>3. /\ kept[0] = <<>>
        /\ \A i \in 1..n : kept[i] = IF s[i] \in S THEN Append(kept[i - 1], s[i]) ELSE kept[i - 1]
    <2>1. \A i \in 0..n : kept[i] =
              IF i = 0 THEN <<>>
              ELSE IF s[i] \in S THEN Append(kept[i - 1], s[i]) ELSE kept[i - 1]
      <3> HIDE DEF n
      <3> QED
        BY <1>2 DEF KeptUpTo
    <2>2. n \in Nat
      BY <1>1
    <2> HIDE DEF n
    <2> QED
      BY <2>1, <2>2
  <1>4. \A i \in Nat : i <= n => kept[i] \in Seq(U)
    <2> DEFINE Good == {i \in Nat : i <= n => kept[i] \in Seq(U)}
    <2>1. 0 \in Good
      <3>1. <<>> \in Seq(U)
        OBVIOUS
      <3> QED
        BY <3>1, <1>3
    <2>2. ASSUME NEW i \in Nat, i \in Good PROVE i + 1 \in Good
      <3>1. CASE i + 1 <= n
        <4>1. kept[i] \in Seq(U) /\ i + 1 \in 1..n /\ (i + 1) - 1 = i
          BY <2>2, <3>1
        <4>2. s[i + 1] \in U
          BY <1>1, <4>1
        <4>3. kept[i + 1] = IF s[i + 1] \in S THEN Append(kept[i], s[i + 1]) ELSE kept[i]
          BY <1>3, <4>1
        <4> HIDE DEF U, n
        <4>4. kept[i + 1] \in Seq(U)
          BY <4>1, <4>2, <4>3
        <4> QED
          BY <4>4
      <3> QED
        BY <3>1
    <2> QED
      <3> HIDE DEF Good
      <3>1. \A i \in Nat : i \in Good
        BY <2>1, <2>2, SetInduction
      <3> QED
        BY <3>1 DEF Good
  <1>5. v \in Seq(Int) /\ Len(v) = n /\ \A i \in 1..n : v[i] = IF s[i] \in S THEN f[s[i]] ELSE 0
    <2>1. v = [i \in 1..n |-> IF s[i] \in S THEN f[s[i]] ELSE 0]
      BY <1>1 DEF Masked
    <2>2. \A i \in 1..n : v[i] \in Int
      BY <1>1, <2>1
    <2> HIDE DEF v, n, U
    <2>3. v \in [1..n -> Int]
      BY <2>1, <2>2
    <2>4. Len(v) = n /\ v \in Seq(Int)
      BY <1>1, <2>3
    <2> QED
      BY <2>1, <2>4
  <1>6. ASSUME NEW t \in Seq(U) PROVE Mapped(f, t) \in Seq(Int) /\ Len(Mapped(f, t)) = Len(t)
    <2>1. DOMAIN t = 1..Len(t) /\ Len(t) \in Nat /\ \A i \in 1..Len(t) : t[i] \in U
      OBVIOUS
    <2>2. Mapped(f, t) = [i \in 1..Len(t) |-> f[t[i]]]
      BY <2>1 DEF Mapped
    <2>3. \A i \in 1..Len(t) : f[t[i]] \in Int
      BY <2>1
    <2>4. Mapped(f, t) \in [1..Len(t) -> Int]
      BY <2>2, <2>3
    <2> QED
      BY <2>1, <2>4
  <1>7. ASSUME NEW t \in Seq(U), NEW x \in U
        PROVE  Mapped(f, Append(t, x)) = Append(Mapped(f, t), f[x])
    <2>1. Append(t, x) \in Seq(U) /\ Len(Append(t, x)) = Len(t) + 1 /\ Len(t) \in Nat
      OBVIOUS
    <2>2. Mapped(f, t) \in Seq(Int) /\ Len(Mapped(f, t)) = Len(t)
          /\ Mapped(f, Append(t, x)) \in Seq(Int) /\ Len(Mapped(f, Append(t, x))) = Len(t) + 1
      BY <1>6, <2>1
    <2>3. ASSUME NEW i \in 1..(Len(t) + 1)
          PROVE  Mapped(f, Append(t, x))[i] = Append(Mapped(f, t), f[x])[i]
      <3>1. CASE i = Len(t) + 1
        <4>1. Append(Mapped(f, t), f[x])[i] = f[x]
          BY <2>2, <3>1
        <4>2. Append(t, x)[i] = x /\ i \in DOMAIN Append(t, x)
          BY <3>1, <2>1
        <4>3. Mapped(f, Append(t, x))[i] = f[x]
          BY <4>2 DEF Mapped
        <4> QED
          BY <4>1, <4>3
      <3>2. CASE i \in 1..Len(t)
        <4>1. Append(Mapped(f, t), f[x])[i] = Mapped(f, t)[i]
          BY <2>2, <3>2
        <4>2. Append(t, x)[i] = t[i] /\ i \in DOMAIN Append(t, x) /\ i \in DOMAIN t
          BY <3>2, <2>1
        <4>3. Mapped(f, Append(t, x))[i] = f[t[i]] /\ Mapped(f, t)[i] = f[t[i]]
          BY <4>2 DEF Mapped
        <4> QED
          BY <4>1, <4>3
      <3>3. i = Len(t) + 1 \/ i \in 1..Len(t)
        BY <2>1
      <3> QED
        BY <3>1, <3>2, <3>3
    <2>4. f[x] \in Int
      OBVIOUS
    <2>5. Append(Mapped(f, t), f[x]) \in Seq(Int) /\ Len(Append(Mapped(f, t), f[x])) = Len(t) + 1
      BY <2>2, <2>4
    <2> DEFINE a == Mapped(f, Append(t, x))
               b == Append(Mapped(f, t), f[x])
    <2>6. /\ a \in Seq(Int) /\ b \in Seq(Int) /\ Len(a) = Len(b)
          /\ \A i \in 1..Len(a) : a[i] = b[i]
      BY <2>2, <2>3, <2>5
    <2> HIDE DEF a, b
    <2>7. a = b
      BY <2>6, SeqEqual
    <2> QED
      BY <2>7 DEF a, b
  <1> DEFINE sum == [i \in 0..n |-> Total(Mapped(f, kept[i]))]
  <1>8. PartialSums(v, sum)
    <2>1. \A i \in 0..n : kept[i] \in Seq(U)
      BY <1>1, <1>4
    <2>2. \A i \in 0..n : Mapped(f, kept[i]) \in Seq(Int)
      BY <1>6, <2>1
    <2>3. \A i \in 0..n : Total(Mapped(f, kept[i])) \in Int
      BY <2>2, TotalIs
    <2>4. sum[0] = 0
      <3>1. Mapped(f, <<>>) = <<>>
        BY DEF Mapped
      <3> QED
        <4>1. sum[0] = Total(Mapped(f, kept[0]))
          BY <1>1
        <4>2. <<>> \in Seq(Int)
          OBVIOUS
        <4> HIDE DEF sum
        <4> QED
          BY <3>1, <4>1, <4>2, <1>3, TotalIs
    <2>5. ASSUME NEW i \in 1..n PROVE sum[i] = sum[i - 1] + v[i]
      <3>1. i \in 0..n /\ i - 1 \in 0..n /\ s[i] \in U
        BY <1>1
      <3>2. sum[i] = Total(Mapped(f, kept[i])) /\ sum[i - 1] = Total(Mapped(f, kept[i - 1]))
        BY <3>1
      <3>3. CASE s[i] \in S
        <4>1. kept[i] = Append(kept[i - 1], s[i]) /\ v[i] = f[s[i]]
          BY <3>3, <1>3, <1>5
        <4>2. Mapped(f, kept[i]) = Append(Mapped(f, kept[i - 1]), f[s[i]])
          BY <4>1, <1>7, <2>1, <3>1
        <4>3. f[s[i]] \in Int
          BY <3>1
        <4> HIDE DEF sum, v
        <4> QED
          BY <4>1, <4>2, <4>3, <3>1, <3>2, <2>2, TotalAppend
      <3>4. CASE s[i] \notin S
        <4>1. kept[i] = kept[i - 1] /\ v[i] = 0
          BY <3>4, <1>3, <1>5
        <4> HIDE DEF sum, v
        <4> QED
          BY <4>1, <3>1, <3>2, <2>3
      <3> QED
        BY <3>3, <3>4
    <2>6. sum \in [0..n -> Int]
      BY <2>3
    <2> HIDE DEF sum, v, n
    <2> QED
      BY <1>5, <2>4, <2>5, <2>6 DEF PartialSums, SumsTo
  <1>9. Total(v) = sum[n]
    <2> HIDE DEF sum, v, n
    <2> QED
      BY <1>5, <1>8, TotalOf
  <1>10. kept[n] \in Seq(U) /\ sum[n] = Total(Mapped(f, kept[n]))
    BY <1>1, <1>4
  <1> QED
    BY <1>2, <1>5, <1>6, <1>9, <1>10

\* The sums of the rows of a table, and those of its columns.
Rows(A, n, k) == [i \in 1..n |-> Total([j \in 1..k |-> A[i][j]])]
Columns(A, n, k) == [j \in 1..k |-> Total([i \in 1..n |-> A[i][j]])]
\* The order of summation does not matter.
LEMMA TotalSwap ==
    ASSUME NEW n \in Nat, NEW k \in Nat, NEW A, \A i \in 1..n : \A j \in 1..k : A[i][j] \in Int
    PROVE  Total(Rows(A, n, k)) = Total(Columns(A, n, k))
  <1> DEFINE rows == Rows(A, n, k)
             cols == Columns(A, n, k)
  <1>0. /\ rows = [i \in 1..n |-> Total([j \in 1..k |-> A[i][j]])]
        /\ cols = [j \in 1..k |-> Total([i \in 1..n |-> A[i][j]])]
    BY DEF Rows, Columns
  <1> HIDE DEF rows, cols
  <1> DEFINE row(i) == [j \in 1..k |-> A[i][j]]
             col(j) == [i \in 1..n |-> A[i][j]]
             part(i) == CHOOSE p : PartialSums(row(i), p)
             upto(j) == [i \in 1..n |-> part(i)[j]]
             sum == [j \in 0..k |-> Total(upto(j))]
  <1>1. ASSUME NEW i \in 1..n
        PROVE  /\ row(i) \in Seq(Int) /\ Len(row(i)) = k /\ \A j \in 1..k : row(i)[j] = A[i][j]
               /\ Total(row(i)) \in Int
    <2>1. row(i) \in Seq(Int) /\ Len(row(i)) = k /\ \A j \in 1..k : row(i)[j] = A[i][j]
      OBVIOUS
    <2> HIDE DEF row
    <2> QED
      BY <2>1, TotalIs
  <1>2. ASSUME NEW j \in 1..k
        PROVE  /\ col(j) \in [1..n -> Int] /\ \A i \in 1..n : col(j)[i] = A[i][j]
               /\ Total(col(j)) \in Int
    <2>1. col(j) \in [1..n -> Int] /\ col(j) \in Seq(Int) /\ \A i \in 1..n : col(j)[i] = A[i][j]
      OBVIOUS
    <2> HIDE DEF col
    <2> QED
      BY <2>1, TotalIs
  <1>3. ASSUME NEW i \in 1..n PROVE PartialSums(row(i), part(i))
    <2>1. row(i) \in Seq(Int)
      BY <1>1
    <2> HIDE DEF row
    <2> QED
      BY <2>1, SumsExist
  <1>4. ASSUME NEW i \in 1..n
        PROVE  /\ part(i) \in [0..k -> Int] /\ part(i)[0] = 0
               /\ \A j \in 1..k : part(i)[j] = part(i)[j - 1] + A[i][j]
               /\ Total(row(i)) = part(i)[k]
    <2>1. PartialSums(row(i), part(i)) /\ row(i) \in Seq(Int) /\ Len(row(i)) = k
          /\ \A j \in 1..k : row(i)[j] = A[i][j]
      BY <1>1, <1>3
    <2> HIDE DEF row, part
    <2> QED
      BY <2>1, TotalOf DEF PartialSums, SumsTo
  <1>5. ASSUME NEW j \in 0..k
        PROVE  upto(j) \in [1..n -> Int] /\ upto(j) \in Seq(Int) /\ Total(upto(j)) \in Int
    <2>1. \A i \in 1..n : part(i)[j] \in Int
      BY <1>4
    <2> HIDE DEF part
    <2>2. upto(j) \in [1..n -> Int] /\ upto(j) \in Seq(Int)
      BY <2>1
    <2> HIDE DEF upto
    <2> QED
      BY <2>2, TotalIs
  <1>6. ASSUME NEW j \in 1..k PROVE Total(upto(j)) = Total(upto(j - 1)) + Total(col(j))
    <2>1. j \in 0..k /\ j - 1 \in 0..k
      OBVIOUS
    <2>2. \A i \in 1..n : part(i)[j] = part(i)[j - 1] + col(j)[i]
      BY <1>2, <1>4
    <2> HIDE DEF part
    <2>3. \A i \in 1..n : upto(j)[i] = upto(j - 1)[i] + col(j)[i]
      BY <2>2
    <2>4. upto(j) \in [1..n -> Int] /\ upto(j - 1) \in [1..n -> Int] /\ col(j) \in [1..n -> Int]
      BY <1>2, <1>5, <2>1
    <2> HIDE DEF upto, col
    <2> QED
      BY <2>3, <2>4, TotalPlus
  <1>7. Total(upto(0)) = 0
    <2>1. \A i \in 1..n : part(i)[0] = 0
      BY <1>4
    <2> HIDE DEF part
    <2>2. \A i \in 1..n : upto(0)[i] = 0
      BY <2>1
    <2>3. upto(0) \in [1..n -> Int]
      <3>1. 0 \in 0..k
        OBVIOUS
      <3> HIDE DEF upto
      <3> QED
        BY <3>1, <1>5
    <2> HIDE DEF upto
    <2> QED
      BY <2>2, <2>3, TotalZero
  <1>8. \A j \in 1..k : cols[j] = Total(col(j))
    BY <1>0
  <1>9. cols \in [1..k -> Int] /\ cols \in Seq(Int) /\ Len(cols) = k
    <2>1. \A j \in 1..k : Total(col(j)) \in Int
      BY <1>2
    <2>2. cols = [j \in 1..k |-> Total(col(j))]
      BY <1>0
    <2> HIDE DEF col
    <2>3. cols \in [1..k -> Int]
      BY <2>1, <2>2
    <2> QED
      BY <2>3
  <1>10. rows = upto(k) /\ rows \in [1..n -> Int]
    <2>1. \A i \in 1..n : Total(row(i)) = part(i)[k]
      BY <1>4
    <2>2. rows = [i \in 1..n |-> Total(row(i))]
      BY <1>0
    <2> HIDE DEF row, part
    <2>3. rows = upto(k)
      BY <2>1, <2>2
    <2>4. k \in 0..k
      OBVIOUS
    <2> QED
      BY <2>3, <2>4, <1>5
  <1>11. PartialSums(cols, sum)
    <2> HIDE DEF upto, col
    <2>1. sum \in [0..k -> Int]
      BY <1>5
    <2>2. sum[0] = 0
      BY <1>7
    <2>3. ASSUME NEW j \in 1..k PROVE sum[j] = sum[j - 1] + cols[j]
      <3>1. j \in 0..k /\ j - 1 \in 0..k
        OBVIOUS
      <3>2. sum[j] = Total(upto(j)) /\ sum[j - 1] = Total(upto(j - 1))
        BY <3>1
      <3> QED
        BY <3>2, <1>6, <1>8
    <2> HIDE DEF sum
    <2> QED
      BY <1>9, <2>1, <2>2, <2>3 DEF PartialSums, SumsTo
  <1>12. sum[k] = Total(rows)
    <2> HIDE DEF upto
    <2>1. sum[k] = Total(upto(k))
      OBVIOUS
    <2> QED
      BY <2>1, <1>10
  <1> HIDE DEF sum
  <1> QED
    BY <1>9, <1>10, <1>11, <1>12, TotalOf DEF rows, cols

\* The jth of k parts goes to the entry at[j], which gets its parts times its factor.
Portion(k, at, v, i) == [j \in 1..k |-> IF at[j] = i THEN v[j] ELSE 0]
Distributes(n, k, at, v, d, got, given) ==
    /\ n \in Nat /\ k \in Nat /\ at \in [1..k -> 1..n] /\ v \in [1..k -> Int]
    /\ d \in [1..n -> Int] /\ got \in [1..n -> Int] /\ given \in [1..k -> Int]
    /\ \A i \in 1..n : got[i] = Total(Portion(k, at, v, i)) * d[i]
    /\ \A j \in 1..k : given[j] = v[j] * d[at[j]]

\* What is handed to the entries of a list, each times the entry's factor, is all that is
\* handed out, each part times the factor of the entry it goes to.
LEMMA TotalDistributes ==
    ASSUME NEW n, NEW k, NEW at, NEW v, NEW d, NEW got, NEW given,
           Distributes(n, k, at, v, d, got, given)
    PROVE  Total(got) = Total(given)
  <1> SUFFICES ASSUME n \in Nat, k \in Nat, at \in [1..k -> 1..n], v \in [1..k -> Int],
                      d \in [1..n -> Int], got \in [1..n -> Int], given \in [1..k -> Int],
                      \A i \in 1..n : got[i] = Total([j \in 1..k |-> IF at[j] = i THEN v[j] ELSE 0]) * d[i],
                      \A j \in 1..k : given[j] = v[j] * d[at[j]]
               PROVE  Total(got) = Total(given)
    BY DEF Distributes, Portion
  <1> DEFINE A == [i \in 1..n |-> [j \in 1..k |-> IF at[j] = i THEN v[j] * d[i] ELSE 0]]
             rows == [i \in 1..n |-> Total([j \in 1..k |-> A[i][j]])]
             cols == [j \in 1..k |-> Total([i \in 1..n |-> A[i][j]])]
  <1>1. \A i \in 1..n : \A j \in 1..k : A[i][j] = IF at[j] = i THEN v[j] * d[i] ELSE 0
    OBVIOUS
  <1>2. \A i \in 1..n : \A j \in 1..k : v[j] * d[i] \in Int
    <2>1. \A i \in 1..n : \A j \in 1..k : v[j] \in Int /\ d[i] \in Int
      OBVIOUS
    <2>2. \A x, y \in Int : x * y \in Int
      OBVIOUS
    <2> QED
      BY <2>1, <2>2
  <1>3. \A i \in 1..n : \A j \in 1..k : A[i][j] \in Int
    BY <1>1, <1>2
  <1>4. Total(rows) = Total(cols)
    <2>1. rows = Rows(A, n, k) /\ cols = Columns(A, n, k)
      BY DEF Rows, Columns
    <2> HIDE DEF A, rows, cols
    <2> QED
      BY <1>3, <2>1, TotalSwap
  <1>5. ASSUME NEW i \in 1..n PROVE rows[i] = got[i]
    <2> DEFINE u == [j \in 1..k |-> IF at[j] = i THEN v[j] ELSE 0]
               w == [j \in 1..k |-> A[i][j]]
    <2>1. u \in [1..k -> Int]
      OBVIOUS
    <2>2. w \in [1..k -> Int]
      <3> HIDE DEF A
      <3> QED
        BY <1>3
    <2>3. \A j \in 1..k : w[j] = u[j] * d[i]
      <3>1. d[i] \in Int
        OBVIOUS
      <3>2. 0 * d[i] = 0
        BY <3>1
      <3>3. \A j \in 1..k : w[j] = A[i][j]
        OBVIOUS
      <3> HIDE DEF A, w
      <3> QED
        BY <1>1, <3>2, <3>3
    <2>4. rows[i] = Total(w) /\ got[i] = Total(u) * d[i] /\ d[i] \in Int
      OBVIOUS
    <2> HIDE DEF u, w, A, rows
    <2>5. Total(w) = Total(u) * d[i]
      BY <2>1, <2>2, <2>3, <2>4, TotalTimes
    <2> QED
      BY <2>4, <2>5
  <1>6. ASSUME NEW j \in 1..k PROVE cols[j] = given[j]
    <2> DEFINE w == [i \in 1..n |-> A[i][j]]
    <2>1. w \in [1..n -> Int]
      <3> HIDE DEF A
      <3> QED
        BY <1>3
    <2>2. at[j] \in 1..n
      OBVIOUS
    <2>3. w[at[j]] = v[j] * d[at[j]] /\ \A i \in 1..n : i # at[j] => w[i] = 0
      <3> HIDE DEF A
      <3> QED
        BY <1>1, <2>2
    <2>4. cols[j] = Total(w) /\ given[j] = v[j] * d[at[j]]
      OBVIOUS
    <2> HIDE DEF w, A, cols
    <2>5. Total(w) = w[at[j]]
      BY <2>1, <2>2, <2>3, TotalPoint
    <2> QED
      BY <2>3, <2>4, <2>5
  <1>7. rows = got /\ cols = given
    <2>1. \A i \in 1..n : rows[i] = got[i]
      BY <1>5
    <2>2. \A i \in 1..k : cols[i] = given[i]
      BY <1>6
    <2>3. rows = [i \in 1..n |-> rows[i]] /\ got = [i \in 1..n |-> got[i]]
          /\ cols = [i \in 1..k |-> cols[i]] /\ given = [i \in 1..k |-> given[i]]
      OBVIOUS
    <2> HIDE DEF rows, cols
    <2> QED
      BY <2>1, <2>2, <2>3, Zenon
  <1> QED
    BY <1>4, <1>7

-----------------------------------------------------------------------------
\* Equal modulo Modulus.
Cong(x, y) == \E k \in Int : x = y + k * Modulus

\* Congruence is an equivalence that sums and products respect.
LEMMA CongIs ==
    /\ \A x \in Int : Cong(x, x)
    /\ \A x, y \in Int : Cong(x, y) => Cong(y, x)
    /\ \A x, y, z \in Int : Cong(x, y) /\ Cong(y, z) => Cong(x, z)
  <1>0. Modulus \in Int
    BY TensorAssumption
  <1>1. ASSUME NEW x \in Int PROVE Cong(x, x)
    <2>1. x = x + 0 * Modulus
      BY <1>0
    <2> QED
      BY <2>1 DEF Cong
  <1>2. ASSUME NEW x \in Int, NEW y \in Int, Cong(x, y) PROVE Cong(y, x)
    <2>1. PICK k \in Int : x = y + k * Modulus
      BY <1>2 DEF Cong
    <2>2. (-k) \in Int /\ y = x + (-k) * Modulus
      BY <2>1, <1>0
    <2> QED
      BY <2>2 DEF Cong
  <1>3. ASSUME NEW x \in Int, NEW y \in Int, NEW z \in Int, Cong(x, y), Cong(y, z) PROVE Cong(x, z)
    <2>1. PICK k \in Int : x = y + k * Modulus
      BY <1>3 DEF Cong
    <2>2. PICK j \in Int : y = z + j * Modulus
      BY <1>3 DEF Cong
    <2>3. k + j \in Int /\ x = z + (k + j) * Modulus
      BY <2>1, <2>2, <1>0
    <2> QED
      BY <2>3 DEF Cong
  <1> QED
    BY <1>1, <1>2, <1>3

\* Sums respect it.
LEMMA CongPlus ==
    ASSUME NEW x \in Int, NEW y \in Int, NEW z \in Int, NEW w \in Int, Cong(x, y), Cong(z, w)
    PROVE  Cong(x + z, y + w)
  <1>0. Modulus \in Int
    BY TensorAssumption
  <1>1. PICK k \in Int : x = y + k * Modulus
    BY DEF Cong
  <1>2. PICK j \in Int : z = w + j * Modulus
    BY DEF Cong
  <1>3. k + j \in Int /\ x + z = (y + w) + (k + j) * Modulus
    BY <1>1, <1>2, <1>0
  <1> QED
    BY <1>3 DEF Cong

\* So do products.
LEMMA CongTimes ==
    ASSUME NEW x \in Int, NEW y \in Int, NEW z \in Int, Cong(x, y)
    PROVE  Cong(x * z, y * z)
  <1>0. Modulus \in Int
    BY TensorAssumption
  <1>1. PICK k \in Int : x = y + k * Modulus
    BY DEF Cong
  <1>2. k * z \in Int
    OBVIOUS
  <1>3. x * z = y * z + (k * z) * Modulus
    <2> DEFINE m == Modulus
    <2>1. m \in Int /\ x = y + k * m
      BY <1>0, <1>1
    <2> HIDE DEF m
    <2>2. (y + k * m) * z = y * z + (k * z) * m
      BY <2>1
    <2> QED
      BY <2>1, <2>2 DEF m
  <1> QED
    BY <1>2, <1>3 DEF Cong

\* A remainder is congruent to what it is left of, and the only residue that is.
LEMMA CongMod ==
    /\ \A x \in Int : x % Modulus \in 0..(Modulus - 1) /\ Cong(x % Modulus, x)
    /\ \A x, y \in 0..(Modulus - 1) : Cong(x, y) => x = y
  <1>0. Modulus \in Int /\ Modulus > 0
    BY TensorAssumption
  <1>1. ASSUME NEW x \in Int PROVE x % Modulus \in 0..(Modulus - 1) /\ Cong(x % Modulus, x)
    <2>1. x % Modulus \in 0..(Modulus - 1)
      BY <1>0
    <2>2. x \div Modulus \in Int /\ x = Modulus * (x \div Modulus) + (x % Modulus)
      BY <1>0
    <2> DEFINE q == x \div Modulus
               r == x % Modulus
    <2>3. q \in Int /\ r \in Int /\ x = Modulus * q + r
      BY <2>1, <2>2, <1>0
    <2> HIDE DEF q, r
    <2>4. (-q) \in Int /\ r = x + (-q) * Modulus
      BY <2>3, <1>0
    <2>5. Cong(r, x)
      BY <2>4 DEF Cong
    <2> QED
      BY <2>1, <2>5 DEF r
  <1>2. ASSUME NEW x \in 0..(Modulus - 1), NEW y \in 0..(Modulus - 1), Cong(x, y) PROVE x = y
    <2>1. PICK k \in Int : x = y + k * Modulus
      BY <1>2 DEF Cong
    <2>2. k = 0
      <3>1. CASE k >= 1
        <4>1. k * Modulus >= Modulus
          BY <3>1, <1>0
        <4> QED
          BY <4>1, <2>1, <1>0
      <3>2. CASE k <= -1
        <4>1. k * Modulus <= -Modulus
          BY <3>2, <1>0
        <4> QED
          BY <4>1, <2>1, <1>0
      <3> QED
        BY <3>1, <3>2
    <2> QED
      BY <2>1, <2>2, <1>0
  <1> QED
    BY <1>1, <1>2

\* Two sets that share the same entries of a list keep the same of it.
LEMMA OnlySame ==
    ASSUME NEW T, NEW s \in Seq(T), NEW S, NEW U, \A x \in ToSet(s) : x \in S <=> x \in U
    PROVE  Only(s, S) = Only(s, U)
  <1>1. PICK f : KeptUpTo(s, S, Len(s), f) /\ Only(s, S) = f[Len(s)]
    BY OnlyDefined
  <1>2. PICK h : KeptUpTo(s, U, Len(s), h) /\ Only(s, U) = h[Len(s)]
    BY OnlyDefined
  <1>3. DOMAIN s = 1..Len(s) /\ Len(s) \in Nat /\ \A i \in DOMAIN s : s[i] \in ToSet(s)
    BY Entries
  <1>4. /\ 0 \in 0..Len(s) /\ \A i \in 1..Len(s) : i \in 0..Len(s) /\ i # 0
    BY <1>3
  <1>5. f[0] = h[0]
    BY <1>1, <1>2, <1>4 DEF KeptUpTo
  <1>6. ASSUME NEW i \in 1..Len(s), f[i - 1] = h[i - 1] PROVE f[i] = h[i]
    <2>1. f[i] = IF s[i] \in S THEN Append(f[i - 1], s[i]) ELSE f[i - 1]
      BY <1>1, <1>4 DEF KeptUpTo
    <2>2. h[i] = IF s[i] \in U THEN Append(h[i - 1], s[i]) ELSE h[i - 1]
      BY <1>2, <1>4 DEF KeptUpTo
    <2>3. s[i] \in S <=> s[i] \in U
      BY <1>3
    <2> QED
      BY <2>1, <2>2, <2>3, <1>6
  <1> DEFINE n == Len(s)
  <1>7. n \in Nat /\ \A i \in 1..n : f[i - 1] = h[i - 1] => f[i] = h[i]
    BY <1>3, <1>6
  <1> HIDE DEF n
  <1>8. \A i \in 0..n : f[i] = h[i]
    BY ONLY <1>5, <1>7, ChainSame
  <1>9. n \in 0..n
    BY <1>7
  <1> QED
    BY <1>1, <1>2, <1>8, <1>9 DEF n

\* The places of a list, and those whose entries are in S.
Numbers(s, id) == id = [i \in DOMAIN s |-> i]
Marks(s, S, I) == \A i \in DOMAIN s : s[i] \in S <=> i \in I

\* What is kept of a list is what it has where it has something to keep.
LEMMA OnlyAt ==
    ASSUME NEW T, NEW s \in Seq(T), NEW S, NEW I, Marks(s, S, I), NEW id, Numbers(s, id)
    PROVE  /\ Only(id, I) \in Seq(DOMAIN s) /\ Len(Only(s, S)) = Len(Only(id, I))
           /\ DOMAIN Only(s, S) = DOMAIN Only(id, I)
           /\ \A j \in DOMAIN Only(id, I) : Only(s, S)[j] = s[Only(id, I)[j]]
  <1> USE DEF Numbers, Marks
  <1>1. PICK f : KeptUpTo(s, S, Len(s), f) /\ Only(s, S) = f[Len(s)]
    BY OnlyDefined
  <1>2. DOMAIN s = 1..Len(s) /\ Len(s) \in Nat /\ \A i \in DOMAIN s : s[i] \in T
    BY Entries
  <1>3. id \in Seq(DOMAIN s) /\ Len(id) = Len(s) /\ \A i \in DOMAIN s : id[i] = i
    <2>1. id \in [1..Len(s) -> DOMAIN s]
      BY <1>2
    <2> QED
      BY <2>1, <1>2
  <1>4. PICK h : KeptUpTo(id, I, Len(id), h) /\ Only(id, I) = h[Len(id)]
    BY <1>3, OnlyDefined
  <1>5. /\ 0 \in 0..Len(s) /\ \A i \in 1..Len(s) : i \in 0..Len(s) /\ i # 0
    BY <1>2
  <1>10. \A i \in 1..Len(s) :
            /\ f[i] = IF s[i] \in S THEN Append(f[i - 1], s[i]) ELSE f[i - 1]
            /\ h[i] = IF id[i] \in I THEN Append(h[i - 1], id[i]) ELSE h[i - 1]
    BY <1>1, <1>3, <1>4, <1>5 DEF KeptUpTo
  <1> DEFINE Done(n) == /\ f[n] \in Seq(T) /\ h[n] \in Seq(DOMAIN s) /\ Len(f[n]) = Len(h[n])
                        /\ \A j \in DOMAIN h[n] : f[n][j] = s[h[n][j]]
             Good == {n \in Nat : n <= Len(s) => Done(n)}
  <1>6. 0 \in Good
    <2>1. f[0] = <<>> /\ h[0] = <<>>
      BY <1>1, <1>3, <1>4, <1>5 DEF KeptUpTo
    <2>2. DOMAIN <<>> = {} /\ <<>> \in Seq(T) /\ <<>> \in Seq(DOMAIN s)
      OBVIOUS
    <2>3. Done(0)
      BY <2>1, <2>2
    <2> HIDE DEF Done
    <2> QED
      BY <2>3
  <1>7. ASSUME NEW n \in Nat, n \in Good PROVE n + 1 \in Good
    <2> SUFFICES ASSUME n + 1 <= Len(s) PROVE Done(n + 1)
      OBVIOUS
    <2>1. Done(n) /\ n + 1 \in 1..Len(s) /\ (n + 1) - 1 = n
      BY <1>2, <1>7
    <2>2. f[n + 1] = IF s[n + 1] \in S THEN Append(f[n], s[n + 1]) ELSE f[n]
      <3> HIDE DEF Done
      <3> QED
        BY <2>1, <1>10
    <2>3. h[n + 1] = IF id[n + 1] \in I THEN Append(h[n], id[n + 1]) ELSE h[n]
      BY <2>1, <1>10
    <2>4. /\ s[n + 1] \in T /\ n + 1 \in DOMAIN s /\ id[n + 1] = n + 1
          /\ s[n + 1] \in S <=> n + 1 \in I
      BY <2>1, <1>2, <1>3
    <2>5. CASE s[n + 1] \in S
      <3> DEFINE u == f[n]
                 v == h[n]
                 x == n + 1
      <3>1. f[x] = Append(u, s[x]) /\ h[x] = Append(v, x)
        BY <2>2, <2>3, <2>4, <2>5
      <3>2. /\ u \in Seq(T) /\ v \in Seq(DOMAIN s) /\ Len(u) = Len(v)
            /\ \A j \in DOMAIN v : u[j] = s[v[j]]
            /\ x \in DOMAIN s /\ s[x] \in T
        BY <2>1, <2>4
      <3> HIDE DEF u, v, x
      <3>3. /\ Append(u, s[x]) \in Seq(T) /\ Append(v, x) \in Seq(DOMAIN s)
            /\ DOMAIN u = 1..Len(u) /\ DOMAIN v = 1..Len(v) /\ Len(v) \in Nat
            /\ DOMAIN Append(u, s[x]) = 1..(Len(u) + 1) /\ DOMAIN Append(v, x) = 1..(Len(v) + 1)
            /\ \A j \in DOMAIN u : Append(u, s[x])[j] = u[j]
            /\ \A j \in DOMAIN v : Append(v, x)[j] = v[j]
            /\ Append(u, s[x])[Len(u) + 1] = s[x] /\ Append(v, x)[Len(v) + 1] = x
        BY <3>2, AppendMembers
      <3>4. Len(Append(u, s[x])) = Len(Append(v, x))
        BY <3>2
      <3>5. \A j \in DOMAIN Append(v, x) : Append(u, s[x])[j] = s[Append(v, x)[j]]
        <4> TAKE j \in DOMAIN Append(v, x)
        <4>1. j \in DOMAIN v \/ j = Len(v) + 1
          BY <3>3
        <4>2. Append(u, s[x])[Len(v) + 1] = s[x] /\ DOMAIN u = DOMAIN v
          BY <3>2, <3>3
        <4> QED
          BY <3>2, <3>3, <4>1, <4>2
      <3> QED
        BY <3>1, <3>3, <3>4, <3>5 DEF x
    <2>6. CASE s[n + 1] \notin S
      <3>1. f[n + 1] = f[n] /\ h[n + 1] = h[n]
        BY <2>2, <2>3, <2>4, <2>6
      <3> QED
        BY <3>1, <2>1
    <2> QED
      BY <2>5, <2>6
  <1>8. Done(Len(s))
    <2>1. Len(s) \in Good
      <3> HIDE DEF Good
      <3> QED
        BY <1>2, <1>6, <1>7, SetInduction
    <2> HIDE DEF Done
    <2> QED
      BY <2>1, <1>2
  <1>9. DOMAIN f[Len(s)] = DOMAIN h[Len(s)]
    BY <1>8
  <1> QED
    BY <1>1, <1>3, <1>4, <1>8, <1>9

\* Two lists of the same things, none twice, are one if the first has them in the order
\* of the second.
LEMMA SameOrder ==
    ASSUME NEW T, NEW s \in Seq(T), NEW t \in Seq(T), Distinct(s), Distinct(t),
           ToSet(s) = ToSet(t),
           \A a, b \in DOMAIN s : a < b => \A i, j \in DOMAIN t : s[a] = t[i] /\ s[b] = t[j] => i < j
    PROVE  s = t
  <1>1. /\ DOMAIN s = 1..Len(s) /\ Len(s) \in Nat /\ DOMAIN t = 1..Len(t)
        /\ \A i \in DOMAIN s : s[i] \in ToSet(s)
        /\ \A i \in DOMAIN t : t[i] \in ToSet(t)
    BY Entries
  <1>2. Len(t) = Len(s)
    BY Counted
  <1> DEFINE n == Len(s)
             Good == {k \in Nat : \A i \in 1..n : i <= k => s[i] = t[i]}
  <1>3. 0 \in Good
    BY <1>1
  <1>4. ASSUME NEW k \in Nat, k \in Good PROVE k + 1 \in Good
    <2> SUFFICES ASSUME k + 1 \in 1..n PROVE s[k + 1] = t[k + 1]
      <3>1. \A i \in 1..n : i <= k + 1 => i <= k \/ i = k + 1
        BY <1>1
      <3> QED
        BY <3>1, <1>4
    <2> DEFINE i == k + 1
    <2>1. i \in DOMAIN s /\ i \in DOMAIN t
      BY <1>1, <1>2
    <2>2. PICK l \in DOMAIN t : s[i] = t[l]
      BY <2>1, <1>1 DEF ToSet
    <2>3. PICK a \in DOMAIN s : s[a] = t[i]
      BY <2>1, <1>1 DEF ToSet
    <2>4. \A j \in 1..n : j < i => s[j] = t[j] /\ j \in DOMAIN s /\ j \in DOMAIN t
      <3>1. \A j \in 1..n : j < i => j <= k
        BY <1>1
      <3> QED
        BY <3>1, <1>1, <1>2, <1>4
    <2>5. ~(a < i)
      <3> SUFFICES ASSUME a < i PROVE FALSE
        OBVIOUS
      <3>1. s[a] = t[a] /\ a \in DOMAIN t
        BY <2>4, <1>1
      <3>2. a = i
        BY <3>1, <2>1, <2>3 DEF Distinct
      <3> QED
        BY <3>2, <1>1
    <2>6. ~(l < i)
      <3> SUFFICES ASSUME l < i PROVE FALSE
        OBVIOUS
      <3>1. s[l] = t[l] /\ l \in DOMAIN s
        BY <2>4, <1>1, <1>2
      <3>2. l = i
        BY <3>1, <2>1, <2>2 DEF Distinct
      <3> QED
        BY <3>2, <1>1
    <2>7. ~(i < a)
      <3> SUFFICES ASSUME i < a PROVE FALSE
        OBVIOUS
      <3>1. l < i
        <4> HIDE DEF i
        <4> QED
          BY <2>1, <2>2, <2>3
      <3> QED
        BY <3>1, <2>6
    <2>8. a = i
      BY <2>5, <2>7, <1>1
    <2> QED
      BY <2>3, <2>8
  <1>5. n \in Good
    <2> HIDE DEF Good, n
    <2>1. n \in Nat
      BY <1>1 DEF n
    <2> QED
      BY <2>1, <1>3, <1>4, SetInduction
  <1>6. \A i \in 1..n : s[i] = t[i]
    BY <1>1, <1>5
  <1> QED
    BY <1>1, <1>2, <1>6
=============================================================================
