------------------------------ MODULE EvalMove ------------------------------
(***************************************************************************)
(* The ops that move elements without computing with them: EvalX is the    *)
(* tensor op X computes, XShape the shape it announces.                    *)
(***************************************************************************)
EXTENDS EvalEltwise

NoShape == Rejected.shape

EvalTranspose(x, dim0, dim1) ==
    Transposed(x, Positive(dim0, Rank(x)), Positive(dim1, Rank(x)))

TransposeShape(s, dim0, dim1) ==
    LET d == Positive(dim0, Len(s))
        e == Positive(dim1, Len(s))
    IN  IF IsDim(d, Len(s)) /\ IsDim(e, Len(s)) THEN SwapDims(s, d, e) ELSE NoShape

EvalReshape(x, shape) == Reshaped(x, shape)
ReshapeShape(s, shape) == shape

EvalSqueeze(x, dim) ==
    LET d == Positive(dim, Rank(x))
    IN  IF At(x.shape, d) = 1 THEN Reshaped(x, EraseDim(x.shape, d)) ELSE x

SqueezeShape(s, dim) ==
    LET d == Positive(dim, Len(s))
    IN  IF ~IsDim(d, Len(s)) THEN NoShape
        ELSE IF At(s, d) # 1 THEN NoShape ELSE EraseDim(s, d)

EvalUnsqueeze(x, dim) == Reshaped(x, InsertDim(x.shape, Positive(dim, Rank(x) + 1), 1))

UnsqueezeShape(s, dim) ==
    LET d == Positive(dim, Len(s) + 1)
    IN  IF IsDim(d, Len(s) + 1) THEN InsertDim(s, d, 1) ELSE NoShape

\* Every dimension repeated as a whole; missing leading dimensions count as one.
EvalRepeat(x, repeats) ==
    LET s == PadLeft(x.shape, Len(repeats))
    IN  Make([i \in DOMAIN s |-> s[i] * repeats[i]],
             LAMBDA idx : El(Reshaped(x, s), [i \in DOMAIN s |-> idx[i] % s[i]]))

RepeatShape(s, repeats) ==
    IF Len(repeats) < Len(s) THEN NoShape
    ELSE [i \in DOMAIN repeats |-> PadLeft(s, Len(repeats))[i] * repeats[i]]

\* Every element of dim repeated where it is.
EvalRepeatInterleave(x, repeats, dim) ==
    LET d == Positive(dim, Rank(x))
    IN  Make(SetAt(x.shape, d, At(x.shape, d) * repeats),
             LAMBDA idx : El(x, SetAt(idx, d, At(idx, d) \div repeats)))

RepeatInterleaveShape(s, repeats, dim) ==
    LET d == Positive(dim, Len(s))
    IN  IF IsDim(d, Len(s)) THEN SetAt(s, d, At(s, d) * repeats) ELSE NoShape

EvalBroadcast(x, dim, size) ==
    LET y == Reshaped(x, PadLeft(x.shape, Larger(Rank(x), IF dim >= 0 THEN dim + 1 ELSE -dim)))
    IN  Expand(y, SetAt(y.shape, Positive(dim, Rank(y)), size))

BroadcastOpShape(s, dim, size) ==
    LET r == PadLeft(s, Larger(Len(s), IF dim >= 0 THEN dim + 1 ELSE -dim))
    IN  SetAt(r, Positive(dim, Len(r)), size)

EvalConcatenate(xs, dim) == Cat(xs, Positive(dim, Rank(xs[1])))

RECURSIVE TotalSize(_, _)
TotalSize(shapes, d) ==
    IF shapes = <<>> THEN 0 ELSE At(Head(shapes), d) + TotalSize(Tail(shapes), d)
ConcatenateShape(shapes, dim) ==
    LET d == Positive(dim, Len(shapes[1]))
    IN  IF \E i \in DOMAIN shapes :
              \/ Len(shapes[i]) # Len(shapes[1])
              \/ \E e \in DOMAIN shapes[1] \ {d + 1} : shapes[i][e] # shapes[1][e]
        THEN NoShape
        ELSE SetAt(shapes[1], d, TotalSize(shapes, d))

EvalStack(xs, dim) ==
    Cat([i \in DOMAIN xs |-> EvalUnsqueeze(xs[i], dim)], Positive(dim, Rank(xs[1]) + 1))

StackShape(shapes, dim) ==
    LET d == Positive(dim, Len(shapes[1]) + 1)
    IN  IF IsDim(d, Len(shapes[1]) + 1) /\ \A i \in DOMAIN shapes : shapes[i] = shapes[1]
        THEN InsertDim(shapes[1], d, Len(shapes)) ELSE NoShape

\* index: a slice.  The shape counts up to stop, wherever that is; eval clamps it.
EvalIndex(x, dim, start, stop, stride) ==
    IF stride = 0 THEN Rejected ELSE Sliced(x, Positive(dim, Rank(x)), start, stop, stride)

IndexShapeRoundedDown(s, dim, start, stop, stride) ==
    LET d == Positive(dim, Len(s))
    IN  SetAt(s, d, (Positive(stop, At(s, d)) - Positive(start, At(s, d))) \div stride)
IndexShape(s, dim, start, stop, stride) ==
    LET d == Positive(dim, Len(s))
        n == At(s, d)
        step == IF stride = 0 THEN n ELSE stride
    IN  IF ~IsDim(d, Len(s)) THEN NoShape
        ELSE SetAt(s, d, Larger(0, (Positive(stop, n) - Positive(start, n) + step - 1) \div step))

\* select: length elements from begin on, out of every stride elements.
EvalSelect(x, dim, begin, length, stride) ==
    LET d == Positive(dim, Rank(x))
        n == At(x.shape, d)
        windows == Larger(0, (n - begin + stride - 1) \div stride)
        \* the place in x of the result's place i
        From(i) == (i \div length) * stride + begin + (i % length)
    IN  IF stride = n /\ begin + length > n THEN Rejected
        ELSE Make(SetAt(x.shape, d, windows * length),
                  LAMBDA idx : IF From(At(idx, d)) < n THEN El(x, SetAt(idx, d, From(At(idx, d))))
                               ELSE Num(0))

SelectShape(s, dim, begin, length, stride) ==
    LET d == Positive(dim, Len(s))
    IN  IF ~IsDim(d, Len(s)) THEN NoShape
        ELSE SetAt(s, d, length * Larger(0, (At(s, d) - begin + stride - 1) \div stride))

\* adv_index: the elements of dim that the indices, of one or two dimensions, name.
EvalAdvIndex(x, indices, dim) ==
    LET d == Positive(dim, Rank(x))
        at == Reshaped(indices, <<Size(indices.shape)>>).at
    IN  Make(SetAt(x.shape, d, Size(indices.shape)),
             LAMBDA idx : El(x, SetAt(idx, d, at[At(idx, d)][1])))

AdvIndexShape(s, indices, dim) ==
    LET d == Positive(dim, Len(s))
    IN  IF Len(indices) \in {1, 2} /\ d < Len(s) THEN SetAt(s, d, Size(indices)) ELSE NoShape

\* constant_pad: padding is <<low, high>> for every dimension in turn.
EvalConstantPad(x, padding, value) ==
    LET low(i) == padding[2 * i - 1]
        from(idx) == [i \in DOMAIN idx |-> idx[i] - low(i)]
        Within(idx) == \A i \in DOMAIN idx : from(idx)[i] \in 0..(x.shape[i] - 1)
    IN  Make([i \in DOMAIN x.shape |-> x.shape[i] + low(i) + padding[2 * i]],
             LAMBDA idx : IF Within(idx) THEN El(x, from(idx)) ELSE value)

ConstantPadShape(s, padding) ==
    IF Len(padding) # 2 * Len(s) THEN NoShape
    ELSE [i \in DOMAIN s |-> s[i] + padding[2 * i - 1] + padding[2 * i]]

\* pad: padding is <<left, right>> or <<left, right, top, bottom>>, for the width and
\* the height, which the channels follow when channel_last.  Modes: 0 constant,
\* 1 replicate, 2 reflect.
PaddingParams(padding, rank, channel_last) ==
    [left |-> padding[1], right |-> padding[2],
     top |-> IF Len(padding) = 4 THEN padding[3] ELSE 0,
     bottom |-> IF Len(padding) = 4 THEN padding[4] ELSE 0,
     width_dim |-> IF channel_last THEN rank - 2 ELSE rank - 1,
     height_dim |-> IF channel_last THEN rank - 3 ELSE rank - 2]

PadDim(x, d, low, high, mode, value) ==
    LET n == At(x.shape, d)
        Source(i) == CASE mode = 1 -> Larger(0, Smaller(n - 1, i))
                       [] mode = 2 -> IF i < 0 THEN -i ELSE IF i >= n THEN 2 * (n - 1) - i ELSE i
                       [] OTHER -> i
    IN  Make(SetAt(x.shape, d, n + low + high),
             LAMBDA idx : LET i == Source(At(idx, d) - low)
                          IN  IF i \in 0..(n - 1) THEN El(x, SetAt(idx, d, i)) ELSE value)

EvalPad(x, padding, mode, value, channel_last) ==
    LET p == PaddingParams(padding, Rank(x), channel_last)
        wide == PadDim(x, p.width_dim, p.left, p.right, mode, value)
    IN  IF Len(padding) = 2 THEN wide
        ELSE PadDim(wide, p.height_dim, p.top, p.bottom, mode, value)

Grown(s, dim, more) == [s EXCEPT ![dim + 1] = @ + more]
PadShapeOf(s, p) ==
    Grown(Grown(s, p.width_dim, p.left + p.right), p.height_dim, p.top + p.bottom)
PadShape(s, padding, channel_last) ==
    PadShapeOf(s, PaddingParams(padding, Len(s), channel_last))

\* (..., C * r * r, H, W) -> (..., C, H * r, W * r)
PixelShuffleShape(s, r) ==
    LET n == Len(s)
    IN  IF n < 3 THEN NoShape
        ELSE IF s[n - 2] % (r * r) # 0 THEN NoShape
        ELSE SubSeq(s, 1, n - 3) \o <<s[n - 2] \div (r * r), s[n - 1] * r, s[n] * r>>

EvalPixelShuffle(x, r) ==
    LET n == Rank(x)
    IN  Make(PixelShuffleShape(x.shape, r),
             LAMBDA i : El(x, SubSeq(i, 1, n - 3) \o
                              <<i[n - 2] * r * r + (i[n - 1] % r) * r + (i[n] % r),
                                i[n - 1] \div r, i[n] \div r>>))

\* embedding: a row of the weights for every index.
EvalEmbedding(indices, weights) ==
    Make(indices.shape \o <<weights.shape[2]>>,
         LAMBDA idx : El(weights, <<El(indices, Front(idx))[1], idx[Len(idx)]>>))

EmbeddingShape(indices, weights) ==
    IF Len(weights) = 2 THEN indices \o <<weights[2]>> ELSE NoShape

\* embedding_bw: the gradients of the rows, added up where an index repeats.
EvalEmbeddingBw(indices, weights, g) ==
    LET rows == Reshaped(g, <<Size(indices.shape), weights.shape[2]>>)
    IN  Make(weights.shape,
             LAMBDA idx : SumOver({f \in DOMAIN indices.at : indices.at[f][1] = idx[1]},
                                  LAMBDA f : El(rows, <<f, idx[2]>>)))

EmbeddingBwShape(indices, weights) ==
    IF Len(indices) <= 2 /\ Len(weights) = 2 THEN weights ELSE NoShape

\* index_copy: x with the elements of value put, along dim, where the indices say.
EvalIndexCopy(x, indices, value, dim) ==
    LET d == Positive(dim, Rank(x))
        At1(i) == {k \in DOMAIN indices.at : indices.at[k][1] = i}
    IN  Make(x.shape,
             LAMBDA idx : IF At1(At(idx, d)) = {} THEN El(x, idx)
                          ELSE El(value, SetAt(idx, d, Max(At1(At(idx, d))))))

\* The cache is (batch, heads, sequence, dim); the input goes to the start of a sequence.
EvalFillCache(cache, input, batch_offset) ==
    LET c == cache.shape
        n == input.shape
        Filled(idx) == idx[1] - batch_offset \in 0..(n[1] - 1) /\ idx[3] < n[3]
    IN  IF ~(Len(c) = 4 /\ Len(n) = 4) THEN Rejected
        ELSE IF n[2] # c[2] \/ n[4] # c[4] \/ batch_offset + n[1] > c[1] \/ n[3] > c[3]
        THEN Rejected
        ELSE Make(c, LAMBDA idx : IF Filled(idx)
                                  THEN El(input, [idx EXCEPT ![1] = @ - batch_offset])
                                  ELSE El(cache, idx))

\* One place of every sequence, which the update index of its batch names.
EvalUpdateCache(cache, input, update_index, batch_offset) ==
    LET c == cache.shape
        n == input.shape
        at == update_index.at
        Updated(idx) == /\ idx[1] - batch_offset \in 0..(n[1] - 1)
                        /\ at[idx[1] - batch_offset][1] = idx[3]
    IN  IF ~(Len(c) = 4 /\ Len(n) = 4) \/ Rank(update_index) # 1 THEN Rejected
        ELSE IF \/ n[3] # 1 \/ n[2] # c[2] \/ n[4] # c[4]
                \/ update_index.shape[1] # n[1] \/ batch_offset + n[1] > c[1]
                \/ \E b \in DOMAIN at : at[b][1] \notin 0..(c[3] - 1)
        THEN Rejected
        ELSE Make(c, LAMBDA idx : IF Updated(idx)
                                  THEN El(input, [idx EXCEPT ![1] = @ - batch_offset, ![3] = 0])
                                  ELSE El(cache, idx))

=============================================================================
