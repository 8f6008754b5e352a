---------------------------- MODULE EvalEltwise ----------------------------
(***************************************************************************)
(* The elementwise ops: the tensor each computes (eval in                  *)
(* forge/csrc/ops/op_*.cpp) and the shape it announces for it (shape).     *)
(* An op of one operand announces the shape of its operand.                *)
(***************************************************************************)
EXTENDS Tensors
LOCAL INSTANCE Bitwise

\* An output shape, and the broadcasts of operands <<operand, negative dim, size>>.
Announce(s, bcast) == [shape |-> s, bcast |-> bcast]
Refused == Announce(Rejected.shape, {})

\* eltwise_nary_shape
LargestOf(S) == CHOOSE n \in S : \A m \in S : m <= n
NaryShapeOf(padded, size) ==
    LET lower == {p \in (DOMAIN padded) \X (DOMAIN size) : padded[p[1]][p[2]] # size[p[2]]}
    IN  IF \E p \in lower : padded[p[1]][p[2]] # 1 THEN Refused
        ELSE Announce(size, {<<p[1], p[2] - 1 - Len(size), size[p[2]]>> : p \in lower})
NaryPadded(padded) ==
    NaryShapeOf(padded,
                [d \in DOMAIN padded[1] |-> LargestOf({padded[i][d] : i \in DOMAIN padded})])
NaryRank(shapes) == LargestOf({Len(shapes[i]) : i \in DOMAIN shapes})
NaryShape(shapes) ==
    NaryPadded([i \in DOMAIN shapes |-> PadLeft(shapes[i], NaryRank(shapes))])

\* compute_elementwise_binary_shape: a size of one gives way to the other's.
PaddedShape(ps, pr, n) ==
    LET differ == {d \in 1..n : ps[d] # pr[d]}
    IN  IF \E d \in differ : pr[d] # 1 /\ ps[d] # 1 THEN Refused
        ELSE Announce([d \in 1..n |-> IF pr[d] = 1 THEN ps[d] ELSE pr[d]],
                      {IF pr[d] = 1 THEN <<2, d - 1 - n, ps[d]>> ELSE <<1, d - 1 - n, pr[d]>> :
                          d \in differ})
BinaryShape(s, r) ==
    LET n == Larger(Len(s), Len(r)) IN PaddedShape(PadLeft(s, n), PadLeft(r, n), n)

-----------------------------------------------------------------------------
\* Arithmetic.

EvalNop(x) == x
EvalCast(x) == x
EvalAdd(x, y) == Zipped(Plus, x, y)
EvalSubtract(x, y) == Zipped(Minus, x, y)
EvalMultiply(x, y) == Zipped(Times, x, y)
EvalDivide(x, y) == Zipped(Over, x, y)
EvalRemainder(x, y) ==
    LET Of(m, n) == IF n > 0 THEN m % n ELSE -((-m) % (-n))      \* of the divisor's sign
    IN  Zipped(LAMBDA a, b : <<Of(Signed(a), Signed(b)) % Prime, a[2]>>, x, y)

\* The 1e-10 that keeps reciprocal and log finite at zero is left out.
EvalReciprocal(x) == Mapped(Inv, x)
EvalLog(x) == Mapped(Log1, x)

-----------------------------------------------------------------------------
\* Comparisons and logic.

Compare(P(_, _), x, y) == Zipped(LAMBDA a, b : Truth(P(Signed(a), Signed(b))), x, y)

EvalGreater(x, y) == Compare(LAMBDA a, b : a > b, x, y)
EvalGreaterEqual(x, y) == Compare(LAMBDA a, b : a >= b, x, y)
EvalLess(x, y) == Compare(LAMBDA a, b : a < b, x, y)
EvalLessEqual(x, y) == Compare(LAMBDA a, b : a <= b, x, y)
EvalEqual(x, y) == Compare(LAMBDA a, b : a = b, x, y)
EvalNotEqual(x, y) == Compare(LAMBDA a, b : a # b, x, y)
EvalLogicalAnd(x, y) == Compare(LAMBDA a, b : a # 0 /\ b # 0, x, y)
EvalLogicalNot(x) == Mapped(LAMBDA a : Truth(a[1] = 0), x)
EvalBitwiseAnd(x, y) == Zipped(LAMBDA a, b : Num(a[1] & b[1]), x, y)
EvalMaximum(x, y) == Zipped(LAMBDA a, b : IF Signed(a) >= Signed(b) THEN a ELSE b, x, y)
EvalMinimum(x, y) == Zipped(LAMBDA a, b : IF Signed(a) <= Signed(b) THEN a ELSE b, x, y)
EvalHeaviside(x, y) ==
    Zipped(LAMBDA a, b : IF Signed(a) = 0 THEN b ELSE Truth(Signed(a) > 0), x, y)

EvalWhere(c, x, y) ==
    Make(NaryShape(<<c.shape, x.shape, y.shape>>).shape,
         LAMBDA idx : IF BroadcastEl(c, idx)[1] # 0 THEN BroadcastEl(x, idx)
                      ELSE BroadcastEl(y, idx))

\* Ones where indices points to along dim, zeros elsewhere.
EvalMask(x, indices, dim) ==
    LET d == Positive(dim, Rank(x))
        to == Reshaped(indices, PadLeft(indices.shape, Rank(x)))
    IN  Make(x.shape,
             LAMBDA idx : Truth(\E f \in DOMAIN to.at :
                                   SetAt(Index(to.shape, f), d, to.at[f][1]) = idx))

-----------------------------------------------------------------------------
\* Functions of one operand.

EvalAbs(x) == Mapped(LAMBDA a : IF Signed(a) < 0 THEN Minus(Num(0), a) ELSE a, x)
EvalExp(x) == Mapped(Exp1, x)
EvalSine(x) == Mapped(Sin1, x)
EvalCosine(x) == Mapped(Cos1, x)
EvalAtan(x) == Mapped(Atan1, x)
EvalTanh(x) == Mapped(Tanh1, x)
EvalSigmoid(x) == Mapped(Sigmoid1, x)
EvalSqrt(x) == Mapped(Sqrt1, x)
EvalErf(x) == Mapped(Erf1, x)
EvalRelu(x) == Mapped(LAMBDA a : IF Signed(a) > 0 THEN a ELSE Num(0), x)
EvalLeakyRelu(x, slope) == Mapped(LAMBDA a : IF Signed(a) > 0 THEN a ELSE Times(a, slope), x)

\* pow has one exponent for all elements, power an exponent each.
EvalPow(x, exponent) == Mapped(LAMBDA a : Power1(a, exponent), x)
EvalPower(x, y) == Zipped(Power1, x, y)

EvalClip(x, min, max) ==
    Mapped(LAMBDA a : IF Signed(a) < Signed(min) THEN min
                      ELSE IF Signed(a) > Signed(max) THEN max ELSE a, x)

\* The elements dropped depend on the seed and the place only; the others are scaled.
EvalDropout(x, p, training, seed) ==
    IF ~training THEN x
    ELSE Elements(x.shape, [f \in DOMAIN x.at |->
              IF (f + seed) % 3 = 0 THEN Num(0) ELSE Over(x.at[f], Minus(Num(1), p))])

\* x times the normal distribution at x, exact or with tanh.
Cubic == Num(37)                                        \* the constant 0.044715
SqrtTwoOverPi == Times(Num(TwoOverSqrtPi), Num(SqrtHalf))

EvalGelu(x, approximate) ==
    LET Inner(a) == IF approximate = "none" THEN Erf1(Times(a, Num(SqrtHalf)))
                    ELSE Tanh1(Times(SqrtTwoOverPi,
                                     Plus(a, Times(Cubic, Times(a, Times(a, a))))))
    IN  Mapped(LAMBDA a : Times(a, Times(Ratio(1, 2), Plus(Num(1), Inner(a)))), x)

EvalCumulativeSum(x, dim) ==
    LET d == Positive(dim, Rank(x))
    IN  Make(x.shape, LAMBDA idx : SumOver(0..At(idx, d), LAMBDA i : El(x, SetAt(idx, d, i))))

=============================================================================
