----------------------------- MODULE EvalReduce -----------------------------
(***************************************************************************)
(* The ops that reduce, normalize or contract dimensions: EvalX is the     *)
(* tensor op X computes, XShape the shape it announces.                    *)
(***************************************************************************)
EXTENDS EvalMove

Dims(dim_arg, rank) == {Positive(dim_arg[i], rank) : i \in DOMAIN dim_arg}

\* reduce_ops_shape: the reduced dimensions become ones, or go.
ReduceShape(s, dim_arg, keep_dim) ==
    LET D == Dims(dim_arg, Len(s))
    IN  IF \E d \in D : ~IsDim(d, Len(s)) THEN NoShape
        ELSE IF keep_dim THEN [i \in DOMAIN s |-> IF i - 1 \in D THEN 1 ELSE s[i]]
        ELSE Without(s, D)

Dropped(t, D, keep_dim) == IF keep_dim THEN t ELSE Reshaped(t, Without(t.shape, D))
Count(s, D) == FoldSet(LAMBDA d, n : n * At(s, d), 1, D)

EvalReduceSum(x, dim_arg, keep_dim) ==
    LET D == Dims(dim_arg, Rank(x)) IN Dropped(Summed(x, D), D, keep_dim)

EvalReduceAvg(x, dim_arg, keep_dim) ==
    LET D == Dims(dim_arg, Rank(x))
    IN  Mapped(LAMBDA a : Over(a, Num(Count(x.shape, D))), Dropped(Summed(x, D), D, keep_dim))

\* The elements of x that are put together at idx when the dimensions D are reduced.
Fibre(x, idx, D) ==
    {f \in DOMAIN x.at : \A i \in DOMAIN idx : i - 1 \in D \/ Index(x.shape, f)[i] = idx[i]}
Largest(x, F) == CHOOSE f \in F : \A g \in F : Signed(x.at[f]) >= Signed(x.at[g])

EvalReduceMax(x, dim_arg, keep_dim) ==
    LET D == Dims(dim_arg, Rank(x))
        kept == ReduceShape(x.shape, dim_arg, TRUE)
    IN  Dropped(Make(kept, LAMBDA idx : x.at[Largest(x, Fibre(x, idx, D))]), D, keep_dim)

\* The softmax of 2000 * (x - max), cut at one half: one where x is the maximum, unless
\* more than two elements share it.
EvalSharpMask(x, dim_arg) ==
    LET D == Dims(dim_arg, Rank(x))
    IN  Make(x.shape, LAMBDA idx :
                 LET F == Fibre(x, idx, D)
                     top == {f \in F : \A g \in F : Signed(x.at[f]) >= Signed(x.at[g])}
                 IN  Truth(Flat(x.shape, idx) \in top /\ Cardinality(top) <= 2))

\* argmax of one dimension, or of all elements when dim_arg is empty.
EvalArgmax(x, dim_arg, keep_dim) ==
    LET all == dim_arg = <<>>
        D == IF all THEN 0..(Rank(x) - 1) ELSE {Positive(dim_arg[1], Rank(x))}
        kept == [i \in DOMAIN x.shape |-> IF i - 1 \in D THEN 1 ELSE x.shape[i]]
        Place(f) == IF all THEN f ELSE At(Index(x.shape, f), Positive(dim_arg[1], Rank(x)))
    IN  Dropped(Make(kept, LAMBDA idx : Num(Place(Largest(x, Fibre(x, idx, D))))), D, keep_dim)

ArgmaxShape(s, dim_arg, keep_dim) ==
    IF dim_arg # <<>> THEN ReduceShape(s, dim_arg, keep_dim)
    ELSE IF keep_dim THEN Ones(Len(s)) ELSE <<>>

-----------------------------------------------------------------------------
\* Softmax.

EvalSoftmax(x, dim) == IF dim < Rank(x) THEN SoftmaxOf(x, Positive(dim, Rank(x))) ELSE Rejected

EvalLogSoftmax(x, dim) == EvalLog(SoftmaxOf(x, Positive(dim, Rank(x))))
LogSoftmaxShape(s, dim) == IF IsDim(Positive(dim, Len(s)), Len(s)) THEN s ELSE NoShape

\* The derivative of softmax at x applied to the gradient g, as torch computes it.
EvalSoftmaxBw(x, g, dim) ==
    LET d == Positive(dim, Rank(x))
        y == SoftmaxOf(x, d)
        \* d y[i] / d x[j] = y[i] * ([i = j] - y[j]) within a fibre
        Part(f, idx) == LET j == Flat(x.shape, idx)
                        IN  Times(g.at[f], Times(y.at[f], Minus(Truth(f = j), y.at[j])))
    IN  Make(x.shape, LAMBDA idx : SumOver(Fibre(x, idx, {d}), LAMBDA f : Part(f, idx)))

-----------------------------------------------------------------------------
\* Matrix product.

Batch(s) == SubSeq(s, 1, Len(s) - 2)

\* The largest of two batch sizes is taken, whether or not the other is one.
MatmulShape(s, r) ==
    LET m == Len(s)
        n == Len(r)
        b == Larger(m, n) - 2
    IN  IF m = 1 /\ n = 1 THEN <<>>
        ELSE IF m = 1 THEN Batch(r) \o <<r[n]>>
        ELSE IF n = 1 THEN Batch(s) \o <<s[m - 1]>>
        ELSE [i \in 1..b |-> Larger(PadLeft(Batch(s), b)[i], PadLeft(Batch(r), b)[i])]
             \o <<s[m - 1], r[n]>>

EvalMatmul(x, y) ==
    LET a == IF Rank(x) = 1 THEN Reshaped(x, <<1>> \o x.shape) ELSE x
        c == IF Rank(y) = 1 THEN Reshaped(y, y.shape \o <<1>>) ELSE y
        s == MatmulShape(a.shape, c.shape)
        n == Len(s)
        k == a.shape[Rank(a)]
        Product(idx) == SumOver(0..(k - 1),
            LAMBDA i : Times(BroadcastEl(a, SetAt(idx, n - 1, i)), BroadcastEl(c, SetAt(idx, n - 2, i))))
    IN  IF k # c.shape[Rank(c) - 1] \/ ~CanBroadcast(Batch(a.shape), Batch(c.shape)) THEN Rejected
        ELSE Reshaped(Make(s, LAMBDA idx : Product(idx)), MatmulShape(x.shape, y.shape))

-----------------------------------------------------------------------------
\* Normalization.

\* Per channel, which is dimension one, with the running mean and variance.
EvalBatchnorm(x, weight, bias, mean, var, epsilon) ==
    Make(x.shape, LAMBDA idx :
        LET c == <<idx[2]>>
            scale == Over(El(weight, c), Sqrt1(Plus(El(var, c), epsilon)))
        IN  Plus(Times(Minus(El(x, idx), El(mean, c)), scale), El(bias, c)))

\* Over the last dimension, with its own mean and variance.
Mean(x, d) == Zipped(Over, Summed(x, {d}), Scalar(Num(At(x.shape, d))))
Normalized(off, d, epsilon) ==
    Zipped(LAMBDA a, v : Over(a, Sqrt1(Plus(v, epsilon))), off, Mean(Zipped(Times, off, off), d))
EvalLayernorm(x, gamma, beta, dim, epsilon) ==
    LET d == Rank(x) - 1
    IN  IF dim \notin {-1, d} \/ Size(gamma.shape) # At(x.shape, d) \/ Size(beta.shape) # At(x.shape, d)
        THEN Rejected
        ELSE Zipped(Plus,
                    Zipped(Times, Normalized(Zipped(Minus, x, Mean(x, d)), d, epsilon),
                           Reshaped(gamma, <<At(x.shape, d)>>)),
                    Reshaped(beta, <<At(x.shape, d)>>))

\* Its derivative by one operand applied to the gradient g, as torch computes it.
EvalLayernormBw(x, gamma, beta, g, dim, epsilon, operand) ==
    LET of == <<x, gamma, beta>>
        Changed(f, i) == IF i = operand + 1 THEN Seeded(of[i], f) ELSE of[i]
    IN  [of[operand + 1] EXCEPT !.at = [f \in DOMAIN @ |->
            Weighed(g, EvalLayernorm(Changed(f, 1), Changed(f, 2), Changed(f, 3), dim, epsilon))]]

=============================================================================
