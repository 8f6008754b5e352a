------------------------------ MODULE Tensors ------------------------------
(***************************************************************************)
(* Tensors, and the calls of torch the ops are made of.  A tensor is its   *)
(* shape and its elements in row-major order; dimensions and elements are  *)
(* counted from 0, as in the code.                                         *)
(*                                                                         *)
(* An element is a dual number <<a, b>>: a value a and its change b when   *)
(* one element of one operand changes by one.  Both are residues modulo a  *)
(* Prime, so that division is exact and every identity between rational    *)
(* expressions that holds of the reals holds here; residues below          *)
(* Prime \div 2 are positive, the others negative, so that small numbers   *)
(* also keep their order.  The functions exp, tanh ... are any functions   *)
(* on residues with the derivative theirs have.                            *)
(***************************************************************************)
EXTENDS Integers, Sequences, FiniteSets, SequencesExt, FiniteSetsExt

CONSTANT Prime

Residues == 0..(Prime - 1)

ASSUME PrimeAssumption ==
    /\ Prime \in Nat /\ Prime % 8 = 7       \* two has a square root
    /\ \A a \in 2..(Prime - 1) : Prime % a # 0

-----------------------------------------------------------------------------
\* Elements.

Num(n) == <<n % Prime, 0>>
Inverse1 == [a \in Residues |->
               IF a = 0 THEN 0 ELSE CHOOSE b \in Residues : (a * b) % Prime = 1]
Signed(x) == IF 2 * x[1] > Prime THEN x[1] - Prime ELSE x[1]

Plus(x, y)  == <<(x[1] + y[1]) % Prime, (x[2] + y[2]) % Prime>>
Minus(x, y) == <<(x[1] - y[1]) % Prime, (x[2] - y[2]) % Prime>>
Times(x, y) == <<(x[1] * y[1]) % Prime, (x[1] * y[2] + x[2] * y[1]) % Prime>>

\* The element f(x) of a function with value v and derivative d at x.
Smooth(v, d, x) == <<v % Prime, (d * x[2]) % Prime>>

Inv(x) == LET i == Inverse1[x[1]] IN Smooth(i, -i * i, x)
Over(x, y) == Times(x, Inv(y))
Ratio(n, d) == Over(Num(n), Num(d))
Truth(b) == IF b THEN Num(1) ELSE Num(0)

Curve(n) == [a \in Residues |-> 1 + ((a * a * n + a * (n + 3)) % (Prime - 1))]
ExpAt == Curve(2)
LogAt == Curve(3)
SinAt == Curve(5)
CosAt == Curve(7)
TanhAt == Curve(11)
SigmoidAt == Curve(13)
SqrtAt == Curve(17)
ErfAt == Curve(19)
AtanAt == Curve(23)
PowerAt == [a \in Residues |-> Curve(2 * a + 1)]
TwoOverSqrtPi == 29             \* the constant 1.128..
SqrtHalf == CHOOSE a \in Residues : (2 * a * a) % Prime = 1

Exp1(x) == Smooth(ExpAt[x[1]], ExpAt[x[1]], x)
Log1(x) == Smooth(LogAt[x[1]], Inverse1[x[1]], x)
Sin1(x) == Smooth(SinAt[x[1]], CosAt[x[1]], x)
Cos1(x) == Smooth(CosAt[x[1]], -SinAt[x[1]], x)
Tanh1(x) == LET t == TanhAt[x[1]] IN Smooth(t, 1 - t * t, x)
Sigmoid1(x) == LET s == SigmoidAt[x[1]] IN Smooth(s, s * (1 - s), x)
Sqrt1(x) == LET s == SqrtAt[x[1]] IN Smooth(s, Inverse1[(2 * s) % Prime], x)
Erf1(x) == Smooth(ErfAt[x[1]], TwoOverSqrtPi * ExpAt[(-x[1] * x[1]) % Prime], x)
Atan1(x) == Smooth(AtanAt[x[1]], Inverse1[(1 + x[1] * x[1]) % Prime], x)
Power1(x, y) ==
    LET v == PowerAt[x[1]][y[1]]
    IN  <<v, (y[1] * v * Inverse1[x[1]] * x[2] + v * LogAt[x[1]] * y[2]) % Prime>>

-----------------------------------------------------------------------------
\* Shapes and indices.

RECURSIVE Size(_)
Size(s) == IF s = <<>> THEN 1 ELSE Head(s) * Size(Tail(s))
Rank(t) == Len(t.shape)
At(s, d) == s[d + 1]
SetAt(s, d, n) == [s EXCEPT ![d + 1] = n]
InsertDim(s, d, n) == SubSeq(s, 1, d) \o <<n>> \o SubSeq(s, d + 1, Len(s))
EraseDim(s, d) == SubSeq(s, 1, d) \o SubSeq(s, d + 2, Len(s))
SwapDims(s, d, e) == [s EXCEPT ![d + 1] = s[e + 1], ![e + 1] = s[d + 1]]
Positive(d, rank) == IF d < 0 THEN d + rank ELSE d
IsDim(d, rank) == d \in 0..(rank - 1)
Ones(n) == [i \in 1..n |-> 1]
PadLeft(s, n) == Ones(n - Len(s)) \o s
Larger(a, b) == IF a >= b THEN a ELSE b
Smaller(a, b) == IF a <= b THEN a ELSE b

\* Shape::operator==: leading dimensions of one do not count.
SameShape(s, r) == LET n == Larger(Len(s), Len(r)) IN PadLeft(s, n) = PadLeft(r, n)

\* The place of an index among the elements of a tensor of shape s, and back.
RECURSIVE Flat(_, _)
Flat(s, idx) ==
    IF s = <<>> THEN 0 ELSE Head(idx) * Size(Tail(s)) + Flat(Tail(s), Tail(idx))

RECURSIVE Index(_, _)
Index(s, f) == IF s = <<>> THEN <<>>
               ELSE LET n == Size(Tail(s))
                    IN  <<(f \div n) % Head(s)>> \o Index(Tail(s), f)

\* The function f, computed at once for all its arguments.
Computed(f) == f @@ <<>>

\* The tensor of shape s with elements at.
Elements(s, at) == [shape |-> s, at |-> Computed(at)]

\* The tensor of shape s with element F(index).
Make(s, F(_)) == Elements(s, [f \in 0..(Size(s) - 1) |-> F(Index(s, f))])
El(t, idx) == t.at[Flat(t.shape, idx)]
Scalar(x) == [shape |-> <<1>>, at |-> [f \in {0} |-> x]]
Full(s, x) == Elements(s, [f \in 0..(Size(s) - 1) |-> x])
\* The sum of F(i) for all i in S.
RECURSIVE Total(_)
Total(terms) ==
    IF terms = {} THEN Num(0)
    ELSE LET t == CHOOSE t \in terms : TRUE IN Plus(t[2], Total(terms \ {t}))
SumOver(S, F(_)) == Total({<<i, F(i)>> : i \in S})

\* An assertion of the code or of torch that fails; an op that has no such step.
Rejected == [shape |-> <<-1>>, at |-> <<>>]
Accepted(t) == t.shape # <<-1>>

-----------------------------------------------------------------------------
\* torch

CanBroadcast(s, r) ==
    \A i \in 1..Smaller(Len(s), Len(r)) :
        LET m == s[Len(s) + 1 - i]
            n == r[Len(r) + 1 - i]
        IN  m = n \/ m = 1 \/ n = 1

BroadcastShape(s, r) ==
    LET n == Larger(Len(s), Len(r))
    IN  [i \in 1..n |-> IF PadLeft(s, n)[i] = 1 THEN PadLeft(r, n)[i] ELSE PadLeft(s, n)[i]]

\* The element of t that broadcasting puts at idx.
BroadcastEl(t, idx) ==
    LET off == Len(idx) - Rank(t)
    IN  El(t, [i \in 1..Rank(t) |-> IF t.shape[i] = 1 THEN 0 ELSE idx[off + i]])

Expand(t, s) == Make(s, LAMBDA idx : BroadcastEl(t, idx))

Mapped(F(_), t) == Elements(t.shape, [f \in DOMAIN t.at |-> F(t.at[f])])

Zipped(F(_, _), a, b) ==
    IF ~Accepted(a) \/ ~Accepted(b) \/ ~CanBroadcast(a.shape, b.shape) THEN Rejected
    ELSE Make(BroadcastShape(a.shape, b.shape),
              LAMBDA idx : F(BroadcastEl(a, idx), BroadcastEl(b, idx)))

Reshaped(t, s) == IF Size(s) = Size(t.shape) THEN [t EXCEPT !.shape = s] ELSE Rejected

Transposed(t, d, e) ==
    Make(SwapDims(t.shape, d, e), LAMBDA idx : El(t, SwapDims(idx, d, e)))

\* permute: dimension i of the result is dimension p[i] of t.
Permuted(t, p) ==
    Make([i \in DOMAIN p |-> At(t.shape, p[i])],
         LAMBDA idx : El(t, [j \in DOMAIN p |->
                                idx[CHOOSE i \in DOMAIN p : p[i] = j - 1]]))

\* slice: python's t[start:stop:step] along d, with start and stop clamped.
Sliced(t, d, start, stop, step) ==
    LET n == At(t.shape, d)
        Clamp(i) == Larger(0, Smaller(IF i < 0 THEN i + n ELSE i, n))
        len == Larger(0, (Clamp(stop) - Clamp(start) + step - 1) \div step)
    IN  Make(SetAt(t.shape, d, len),
             LAMBDA idx : El(t, SetAt(idx, d, Clamp(start) + At(idx, d) * step)))

\* The sums over the dimensions in the set D, kept as dimensions of size one.
Summed(t, D) ==
    Make([i \in DOMAIN t.shape |-> IF i - 1 \in D THEN 1 ELSE t.shape[i]],
         LAMBDA idx :
            SumOver({f \in DOMAIN t.at :
                        \A i \in DOMAIN idx : i - 1 \in D \/ Index(t.shape, f)[i] = idx[i]},
                    LAMBDA f : t.at[f]))

Without(s, D) == LET keep == SelectSeq([i \in DOMAIN s |-> i], LAMBDA i : i - 1 \notin D)
                 IN  [i \in DOMAIN keep |-> s[keep[i]]]

SoftmaxOf(t, d) ==
    Zipped(Over, Mapped(Exp1, t), Summed(Mapped(Exp1, t), {d}))

\* Derivatives: t with a change of one at f alone, and the change of t weighed by g.
Seeded(t, f) ==
    Elements(t.shape, [i \in DOMAIN t.at |-> <<t.at[i][1], IF i = f THEN 1 ELSE 0>>])
Weighed(g, t) ==
    IF ~Accepted(t) THEN Num(0)
    ELSE Num(FoldSet(LAMBDA f, a : (a + g.at[f][1] * t.at[f][2]) % Prime, 0, DOMAIN t.at))

CatTwo(t, s, d) ==
    Make(SetAt(t.shape, d, At(t.shape, d) + At(s.shape, d)),
         LAMBDA idx : IF At(idx, d) < At(t.shape, d) THEN El(t, idx)
                      ELSE El(s, SetAt(idx, d, At(idx, d) - At(t.shape, d))))

Cat(ts, d) == FoldLeft(LAMBDA a, t : CatTwo(a, t, d), Head(ts), Tail(ts))

=============================================================================
