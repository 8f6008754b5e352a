----------------------------- MODULE Gradients -----------------------------
(***************************************************************************)
(* Op::backward: the graph of an operand's gradient, from the operands x   *)
(* and y of the op (the ends of its edges), their shapes s with the edges' *)
(* broadcasts, the op's output z and the gradient g of z.                  *)
(***************************************************************************)
EXTENDS Terms

\* Builders of one node, named as the ops are, with the shape the op has.
Unary(op, x) == Create(op, None, <<x>>, Announce(x.shape, {}))
Binary(op, x, y) == Create(op, None, <<x, y>>, BinaryShape(x.shape, y.shape))
Multiply(x, y) == Binary("multiply", x, y)
Add(x, y) == Binary("add", x, y)
Subtract(x, y) == Binary("subtract", x, y)
Divide(x, y) == Binary("divide", x, y)
Nop(x) == Unary("nop", x)
Shaped(op, attrs, x, shape) == Create(op, attrs, <<x>>, Announce(shape, {}))
Matmul(x, y) == Create("matmul", None, <<x, y>>, Announce(MatmulShape(x.shape, y.shape), {}))
Embedding(x, y) == Create("embedding", None, <<x, y>>, Announce(EmbeddingShape(x.shape, y.shape), {}))
Transpose(x, d, e) == Shaped("transpose", [dim0 |-> d, dim1 |-> e], x, TransposeShape(x.shape, d, e))
Reshape(x, shape) == Shaped("reshape", [shape |-> shape], x, ReshapeShape(x.shape, shape))
Squeeze(x, dim) == Shaped("squeeze", [dim |-> dim], x, SqueezeShape(x.shape, dim))
Unsqueeze(x, dim) == Shaped("unsqueeze", [dim |-> dim], x, UnsqueezeShape(x.shape, dim))
Repeat(x, repeats) == Shaped("repeat", [repeats |-> repeats], x, RepeatShape(x.shape, repeats))
Slice(x, dim, start, stop) ==
    Shaped("index", [dim |-> dim, start |-> start, stop |-> stop, stride |-> 1], x,
           IndexShape(x.shape, dim, start, stop, 1))
Reduce(op, x, dims, keep) ==
    Shaped(op, [dim_arg |-> dims, keep_dim |-> keep], x, ReduceShape(x.shape, dims, keep))
ReduceSum(x, dims, keep) == Reduce("reduce_sum", x, dims, keep)
ReduceAvg(x, dims, keep) == Reduce("reduce_avg", x, dims, keep)
Concatenate(xs, dim) == Apply("concatenate", [dim |-> dim], xs)
Whole(n) == Const(Num(n))
Quotient(n, d) == Const(Ratio(n, d))

-----------------------------------------------------------------------------
\* Elementwise ops.

\* reduce_broadcast_dimensions: dim_arg is given as an int where a vector is read, so
\* the reduction it would create is refused.
ReduceBroadcastDimensions(g, s, r) ==
    LET n == Larger(Len(s), Len(r))
    IN  IF \A i \in 1..n : PadLeft(s, n)[i] >= PadLeft(r, n)[i] THEN g ELSE NoTerm

AbsBackward(x, g) ==
    Multiply(Multiply(Subtract(Binary("heaviside", x, Quotient(1, 2)), Quotient(1, 2)), Whole(2)), g)

AddBackward(s, g) == IF SameShape(s, g.shape) THEN Nop(g) ELSE ReduceBroadcastDimensions(g, s, g.shape)

AtanBackward(x, g) == Multiply(Divide(Whole(1), Add(Whole(1), Multiply(x, x))), g)

ClipBackward(a, x, g) ==
    Multiply(Multiply(Binary("greater_equal", x, Const(a.min)),
                      Binary("less_equal", x, Const(a.max))), g)

CosineBackward(x, g) == Multiply(Multiply(Unary("sine", x), Whole(-1)), g)

DivideBackward(operand, s, x, y, g) ==
    ReduceBroadcastDimensions(
        IF operand = 0 THEN Divide(g, y)
        ELSE Multiply(Multiply(g, Divide(x, Multiply(y, y))), Whole(-1)),
        s, g.shape)

DropoutBackward(a, g) == Apply("dropout", a, <<g>>)

ErfBackward(x, g) ==
    Multiply(Multiply(Whole(TwoOverSqrtPi), Unary("exp", Multiply(Whole(-1), Multiply(x, x)))), g)

ExpBackward(z, g) == Multiply(z, g)

\* gelu_backward_none
GeluBackwardNone(x, g) ==
    LET cdf == Multiply(Quotient(1, 2),
                        Add(Whole(1), Unary("erf", Multiply(x, Whole(SqrtHalf)))))
        factor == Const(Times(Ratio(1, 2), Num(SqrtHalf * TwoOverSqrtPi)))
        pdf == Multiply(Multiply(x, Unary("exp", Multiply(Quotient(-1, 2), Multiply(x, x)))), factor)
    IN  Multiply(Add(cdf, pdf), g)

\* gelu_backward_tanh
GeluBackwardTanh(x, g) ==
    LET inner == Add(x, Multiply(Const(Cubic), Multiply(x, Multiply(x, x))))
        first == Multiply(Quotient(1, 2),
                          Add(Whole(1), Unary("tanh", Multiply(Const(SqrtTwoOverPi), inner))))
        second == Multiply(Multiply(x, Unary("exp", Multiply(Quotient(-1, 2), Multiply(x, x)))),
                           Const(Times(Ratio(1, 2), SqrtTwoOverPi)))
    IN  Multiply(Add(first, second), g)

GeluBackward(a, x, g) ==
    IF a.approximate = "none" THEN GeluBackwardNone(x, g) ELSE GeluBackwardTanh(x, g)

LeakyReluBackward(a, z, g) ==
    LET below == Multiply(Binary("heaviside", Multiply(z, Whole(-1)), Whole(0)), Const(a.parameter))
    IN  Multiply(Add(Binary("heaviside", z, Whole(0)), below), g)

LogBackward(x, g) == Multiply(Unary("reciprocal", x), g)

MultiplyBackward(s, other, g) ==
    LET grad == Multiply(g, other)
    IN  IF SameShape(s, g.shape) THEN grad ELSE ReduceBroadcastDimensions(grad, s, g.shape)

NopBackward(g) == Nop(g)

PowBackward(a, x, z, g) ==
    Multiply(Multiply(Const(a.exponent), Multiply(z, Unary("reciprocal", x))), g)

PowerBackward(operand, s, x, y, z, g) ==
    ReduceBroadcastDimensions(
        IF operand = 0 THEN Multiply(Multiply(y, Multiply(z, Unary("reciprocal", x))), g)
        ELSE Multiply(Multiply(z, Unary("log", x)), g),
        s, g.shape)

ReciprocalBackward(z, g) == Multiply(Multiply(Multiply(z, z), Whole(-1)), g)
ReluBackward(x, g) == Multiply(Binary("greater_equal", x, Whole(0)), g)
SigmoidBackward(z, g) == Multiply(Multiply(z, Subtract(Whole(1), z)), g)
SineBackward(x, g) == Multiply(Unary("cosine", x), g)
SqrtBackward(z, g) == Multiply(Multiply(Unary("reciprocal", z), Quotient(1, 2)), g)

SubtractBackward(operand, s, g) ==
    ReduceBroadcastDimensions(IF operand = 0 THEN Nop(g) ELSE Multiply(g, Whole(-1)), s, g.shape)

TanhBackward(z, g) == Multiply(Subtract(Whole(1), Multiply(z, z)), g)

-----------------------------------------------------------------------------
\* Ops that move elements.

TransposeBackward(a, g) == Apply("transpose", a, <<g>>)
ReshapeBackward(s, g) == Reshape(g, s)
SqueezeBackward(a, g) == Unsqueeze(g, a.dim)
UnsqueezeBackward(a, g) == Squeeze(g, a.dim)
BroadcastBackward(a, g) == ReduceSum(g, <<a.dim>>, TRUE)

\* The repeated elements are put side by side in a dimension of their own.
RepeatInterleaveBackward(a, s, g) ==
    LET d == Positive(a.dim, Len(s))
        apart == InsertDim(SetAt(s, d, a.repeats), d, At(g.shape, d) \div a.repeats)
    IN  Squeeze(ReduceSum(Reshape(g, apart), <<d + 1>>, TRUE), d + 1)

ConcatenateBackward(a, operand, shapes, g) ==
    LET d == Positive(a.dim, Len(shapes[1]))
        begin == FoldLeft(LAMBDA n, i : n + At(shapes[i], d), 0, [i \in 1..operand |-> i])
    IN  Slice(g, d, begin, begin + At(shapes[operand + 1], d))

\* concat_patches: the parts that are there, side by side.
ConcatPatches(parts, dim) ==
    LET there == SelectSeq(parts, LAMBDA p : p.op # "absent")
    IN  IF Len(there) = 1 THEN there[1] ELSE Concatenate(there, dim)
Absent == Node("absent", None, <<>>, <<>>)

\* create_pad: n elements of value along dim, beside x.
Strip(x, dim, n, value) ==
    IF n > 0 THEN Tensor(Full(SetAt(x.shape, dim, n), value)) ELSE Absent

\* decompose_constant_mode along one dimension.
Padded(x, dim, low, high, value) ==
    ConcatPatches(<<Strip(x, dim, low, value), x, Strip(x, dim, high, value)>>, dim)

IndexBackward(a, s, g) ==
    LET d == Positive(a.dim, Len(s))
        n == At(s, d)
    IN  IF a.stride # 1 THEN NoTerm
        ELSE Padded(g, d, Positive(a.start, n), n - Positive(a.stop, n), Num(0))

\* Window by window: zeros, the window's part of the gradient, zeros.
SelectBackward(a, s, g) ==
    LET d == Positive(a.dim, Len(s))
        n == At(s, d)
        windows == (n + a.stride - 1) \div a.stride
        Zeros(k) == IF k > 0 THEN <<Tensor(Full(SetAt(s, d, k), Num(0)))>> ELSE <<>>
        Window(w) ==
            LET offset == w * a.stride
                part == Apply("select", [dim |-> d, begin |-> w * a.length, length |-> a.length,
                                         stride |-> At(g.shape, d)], <<g>>)
            IN  Zeros(IF a.begin > 0 THEN Smaller(a.begin, n - offset) ELSE 0)
                \o (IF offset + a.begin >= n THEN <<>>
                    ELSE <<part>> \o Zeros(Smaller(a.stride - a.length - a.begin,
                                                   n - offset - a.begin - a.length)))
        parts == FlattenSeq([w \in 1..windows |-> Window(w - 1)])
    IN  FoldLeft(LAMBDA t, p : Concatenate(<<t, p>>, d), Head(parts), Tail(parts))

ConstantPadBackward(a, g) ==
    FoldLeft(LAMBDA t, i : IF a.padding[2 * i - 1] > 0 \/ a.padding[2 * i] > 0
                           THEN Slice(t, i - 1, a.padding[2 * i - 1],
                                      t.shape[i] - a.padding[2 * i])
                           ELSE t,
             g, [i \in 1..(Len(a.padding) \div 2) |-> i])

EmbeddingBackward(x, y, g) == Apply("embedding_bw", None, <<x, y, g>>)

-----------------------------------------------------------------------------
\* Reductions and the rest.

SortedDims(a, s) == SetToSortSeq(Dims(a.dim_arg, Len(s)), LAMBDA d, e : d < e)

\* t, which lacks the reduced dimensions or has size one there, in the shape s again.
Restored(a, s, t) ==
    LET dims == SortedDims(a, s)
        full == IF a.keep_dim THEN t ELSE FoldLeft(Unsqueeze, t, dims)
    IN  Repeat(full, [i \in DOMAIN s |-> IF i - 1 \in Dims(a.dim_arg, Len(s)) THEN s[i] ELSE 1])

ReduceSumBackward(a, s, g) == Restored(a, s, g)

ReduceAvgBackward(a, s, g) ==
    Multiply(Restored(a, s, g), Quotient(1, Count(s, Dims(a.dim_arg, Len(s)))))

\* The ops that sharpen the difference to the maximum into a mask are one op here.
ReduceMaxBackward(a, s, x, z, g) ==
    Multiply(Restored(a, s, g),
             Apply("sharp_mask", [dim_arg |-> SortedDims(a, s)], <<Subtract(x, Restored(a, s, z))>>))

SoftmaxBackward(a, x, z, g) == Apply("softmax_bw", [dim |-> a.dim], <<x, z, g>>)

MatmulBackward(operand, x, y, g) ==
    IF operand = 0 THEN Matmul(g, Transpose(y, -2, -1)) ELSE Matmul(Transpose(x, -2, -1), g)

LayernormBackward(a, operand, xs, z, g) ==
    Apply("layernorm_bw", [dim |-> a.dim, epsilon |-> a.epsilon, operand |-> operand],
          xs \o <<g, z>>)

-----------------------------------------------------------------------------
\* Op::backward for operand k (from 0) of the node z, whose gradient is g.
UnaryBackward(op, a, x, z, g) ==
    CASE op = "abs" -> AbsBackward(x, g)
      [] op = "atan" -> AtanBackward(x, g)
      [] op = "clip" -> ClipBackward(a, x, g)
      [] op = "cosine" -> CosineBackward(x, g)
      [] op = "dropout" -> DropoutBackward(a, g)
      [] op = "erf" -> ErfBackward(x, g)
      [] op = "exp" -> ExpBackward(z, g)
      [] op = "gelu" -> GeluBackward(a, x, g)
      [] op = "leaky_relu" -> LeakyReluBackward(a, z, g)
      [] op = "log" -> LogBackward(x, g)
      [] op = "nop" -> NopBackward(g)
      [] op = "pow" -> PowBackward(a, x, z, g)
      [] op = "reciprocal" -> ReciprocalBackward(z, g)
      [] op = "relu" -> ReluBackward(x, g)
      [] op = "sigmoid" -> SigmoidBackward(z, g)
      [] op = "sine" -> SineBackward(x, g)
      [] op = "sqrt" -> SqrtBackward(z, g)
      [] op = "tanh" -> TanhBackward(z, g)
      [] OTHER -> NoTerm                  \* the op has no backward

Backward(k, z, g) ==
    LET op == z.op
        a == z.attrs
        xs == [i \in DOMAIN z.ins |-> Producer(z.ins[i])]
        shapes == [i \in DOMAIN z.ins |-> z.ins[i].shape]
        s == shapes[k + 1]
        x == xs[1]
        y == xs[2]
    IN  CASE op = "add" -> AddBackward(s, g)
          [] op = "broadcast" -> BroadcastBackward(a, g)
          [] op = "concatenate" -> ConcatenateBackward(a, k, shapes, g)
          [] op = "constant_pad" -> ConstantPadBackward(a, g)
          [] op = "divide" -> DivideBackward(k, s, x, y, g)
          [] op = "embedding" -> EmbeddingBackward(x, y, g)
          [] op = "index" -> IndexBackward(a, s, g)
          [] op = "layernorm" -> LayernormBackward(a, k, xs, z, g)
          [] op = "matmul" -> MatmulBackward(k, x, y, g)
          [] op = "multiply" -> MultiplyBackward(s, xs[2 - k], g)
          [] op = "power" -> PowerBackward(k, s, x, y, z, g)
          [] op = "reduce_avg" -> ReduceAvgBackward(a, s, g)
          [] op = "reduce_max" -> ReduceMaxBackward(a, s, x, z, g)
          [] op = "reduce_sum" -> ReduceSumBackward(a, s, g)
          [] op = "repeat_interleave" -> RepeatInterleaveBackward(a, s, g)
          [] op = "reshape" -> ReshapeBackward(s, g)
          [] op = "select" -> SelectBackward(a, s, g)
          [] op = "softmax" -> SoftmaxBackward(a, x, z, g)
          [] op = "squeeze" -> SqueezeBackward(a, g)
          [] op = "subtract" -> SubtractBackward(k, s, g)
          [] op = "transpose" -> TransposeBackward(a, g)
          [] op = "unsqueeze" -> UnsqueezeBackward(a, g)
          [] OTHER -> UnaryBackward(op, a, x, z, g)

=============================================================================
