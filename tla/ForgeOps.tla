------------------------------ MODULE ForgeOps ------------------------------
(***************************************************************************)
(* The ops, layers and losses a module is written with in Python           *)
(* (forge/forge/op/*.py).  Each is the graph it traces.  An argument that  *)
(* may be an int or a tuple is a sequence, of length one for an int; the   *)
(* padding "same" is the empty one, and so is an argument that is None.    *)
(***************************************************************************)
EXTENDS Terms

\* ForgeOp(type, operands, attrs).get_tensor(): an assertion that fails traces nothing.
Traced(type, operands, attrs) == Apply(type, attrs, operands)
Checked(condition, t) == IF condition THEN t ELSE NoTerm
Named(type, operands) == Traced(type, operands, None)
Constant(c) == Const(c)

FromFront(dim, x) == IF dim < 0 THEN dim + Len(x.shape) ELSE dim
Pair(n) == IF Len(n) = 1 THEN n \o n ELSE n

-----------------------------------------------------------------------------
\* eltwise_unary.py
Abs(x) == Named("abs", <<x>>)
Cast(x) == Named("cast", <<x>>)
Exp(x) == Named("exp", <<x>>)
Log(x) == Named("log", <<x>>)
Pow(x, exponent) == Traced("pow", <<x>>, [exponent |-> exponent])
Identity(x) == Named("nop", <<x>>)
Reciprocal(x) == Named("reciprocal", <<x>>)
Sqrt(x) == Named("sqrt", <<x>>)
Relu(x) == Named("relu", <<x>>)
LeakyRelu(x, alpha) == Traced("leaky_relu", <<x>>, [parameter |-> alpha])
Gelu(x, approximate) == Traced("gelu", <<x>>, [approximate |-> approximate])
Sigmoid(x) == Named("sigmoid", <<x>>)
Clip(x, min, max) == Traced("clip", <<x>>, [min |-> min, max |-> max])
Sine(x) == Named("sine", <<x>>)
Atan(x) == Named("atan", <<x>>)
Cosine(x) == Named("cosine", <<x>>)
Tanh(x) == Named("tanh", <<x>>)
LogicalNot(x) == Named("logical_not", <<x>>)
Erf(x) == Named("erf", <<x>>)

-----------------------------------------------------------------------------
\* eltwise_binary.py
Add(x, y) == Named("add", <<x, y>>)
Subtract(x, y) == Named("subtract", <<x, y>>)
Multiply(x, y) == Named("multiply", <<x, y>>)
Divide(x, y) == Named("divide", <<x, y>>)
MaxOp(x, y) == Named("maximum", <<x, y>>)
MinOp(x, y) == Named("minimum", <<x, y>>)
Heaviside(x, y) == Named("heaviside", <<x, y>>)
Power(x, y) == Named("power", <<x, y>>)
Equal(x, y) == Named("equal", <<x, y>>)
NotEqual(x, y) == Named("not_equal", <<x, y>>)
Greater(x, y) == Named("greater", <<x, y>>)
Less(x, y) == Named("less", <<x, y>>)
GreaterEqual(x, y) == Named("greater_equal", <<x, y>>)
LessEqual(x, y) == Named("less_equal", <<x, y>>)
LogicalAnd(x, y) == Named("logical_and", <<x, x>>)              \* the second operand is not read
BitwiseAnd(x, y) == Named("bitwise_and", <<x, y>>)
Remainder(x, y) == Named("remainder", <<x, y>>)

-----------------------------------------------------------------------------
\* eltwise_nary.py, embedding.py, kv_cache.py, matmul.py, misc.py
Concatenate(xs, axis) == Traced("concatenate", xs, [dim |-> axis])
Stack(xs, axis) == Traced("stack", xs, [dim |-> axis])
Where(condition, x, y) == Named("where", <<condition, x, y>>)
IndexCopy(x, index, value, dim) == Traced("index_copy", <<x, index, value>>, [dim |-> FromFront(dim, x)])
Embedding(indices, table) == Named("embedding", <<indices, table>>)
FillCache(cache, x, offset) == Traced("fill_cache", <<cache, x>>, [batch_offset |-> offset])
UpdateCache(cache, x, index, offset) ==
    Traced("update_cache", <<cache, x, index>>, [batch_offset |-> offset])
Matmul(x, y, bias) ==
    LET product == Named("matmul", <<x, y>>)
    IN  IF bias = <<>> THEN product ELSE Add(product, bias[1])
CumSum(x, dim) == Traced("cumsum", <<x>>, [dim |-> FromFront(dim, x)])

-----------------------------------------------------------------------------
\* reduce.py
NormalizedDims(dims) == \A i \in DOMAIN dims : dims[i] \in -4..3
Reduced(type, x, dims, keep) ==
    Checked(NormalizedDims(dims), Traced(type, <<x>>, [dim_arg |-> dims, keep_dim |-> keep]))
ReduceSum(x, dims, keep) == Reduced("reduce_sum", x, dims, keep)
ReduceAvg(x, dims, keep) == Reduced("reduce_avg", x, dims, keep)
ReduceMax(x, dims, keep) == Reduced("reduce_max", x, dims, keep)
Argmax(x, dim, keep) == Traced("argmax", <<x>>, [dim_arg |-> <<FromFront(dim, x)>>, keep_dim |-> keep])

-----------------------------------------------------------------------------
\* tm.py

\* Dimensions are counted from the last one, the lower one first.
Transpose(x, dim0, dim1) ==
    LET Low(d) == IF d >= 0 THEN d - Len(x.shape) ELSE d
    IN  Checked(dim0 # dim1 /\ Low(dim0) < 0 /\ Low(dim1) < 0,
                Traced("transpose", <<x>>, [dim0 |-> Smaller(Low(dim0), Low(dim1)),
                                            dim1 |-> Larger(Low(dim0), Low(dim1))]))

\* One dimension may be -1: what the others leave.
Reshape(x, shape) ==
    LET blank == {i \in DOMAIN shape : shape[i] = -1}
        volume == Size([i \in DOMAIN shape |-> IF i \in blank THEN 1 ELSE shape[i]])
        full == [i \in DOMAIN shape |-> IF i \in blank THEN Size(x.shape) \div volume ELSE shape[i]]
    IN  Checked(Cardinality(blank) <= 1 /\ Size(full) = Size(x.shape),
                Traced("reshape", <<x>>, [shape |-> full]))

\* stop is a sequence: empty for the one element at start.  A negative stride is for
\* dimensions of size one.
IndexOp(x, dim, start, stop, stride) ==
    LET d == FromFront(dim, x)
        n == At(x.shape, d)
        given == IF stop = <<>> THEN start + 1 ELSE stop[1]
        flip == stride < 0 /\ start = -1
        begin == IF flip THEN 0 ELSE start
        end == IF flip THEN n ELSE IF given < 0 THEN given + n ELSE given
        step == IF stride < 0 THEN -stride ELSE stride
    IN  Checked((stride < 0 => n = 1) /\ step > 0 /\ begin < n /\ end <= n /\ step <= n,
                Traced("index", <<x>>, [dim |-> d, start |-> begin, stop |-> end, stride |-> step]))

AdvIndex(x, indices, dim) == Traced("adv_index", <<x, indices>>, [dim |-> FromFront(dim, x)])

\* index is <<start>> for one element, or <<start, length>>; a stride of 0 is the whole dimension.
Select(x, dim, index, stride) ==
    LET d == FromFront(dim, x)
        n == At(x.shape, d)
        begin == index[1]
        length == IF Len(index) = 1 THEN 1 ELSE index[2]
        every == IF stride = 0 THEN n ELSE stride
    IN  Checked(/\ d < 4 /\ begin < n /\ begin + length <= n
                /\ every <= n /\ begin + length \in 1..every,
                Traced("select", <<x>>, [dim |-> d, begin |-> begin, length |-> length, stride |-> every]))

PadModes == [constant |-> 0, replicate |-> 1, reflect |-> 2]
Pad(x, pad, mode, value, last) ==
    Checked(Len(pad) \in {2, 4} /\ mode \in DOMAIN PadModes /\ (mode = "constant" \/ Len(x.shape) >= 2),
            Traced("pad", <<x>>, [padding |-> pad, mode |-> PadModes[mode],
                                  value |-> value, channel_last |-> last]))
ConstantPad(x, padding, value) ==
    Checked(Len(padding) = 2 * Len(x.shape),
            Traced("constant_pad", <<x>>, [padding |-> padding, value |-> value]))
Broadcast(x, dim, shape) == Traced("broadcast", <<x>>, [dim |-> dim, size |-> shape])
Repeat(x, repeats) == Traced("repeat", <<x>>, [repeats |-> repeats])
RepeatInterleave(x, repeats, dim) ==
    Traced("repeat_interleave", <<x>>, [repeats |-> repeats, dim |-> dim])
Unsqueeze(x, dim) == Traced("unsqueeze", <<x>>, [dim |-> dim])
Squeeze(x, dim) == Traced("squeeze", <<x>>, [dim |-> dim])
PixelShuffle(x, factor) == Traced("pixel_shuffle", <<x>>, [upscale_factor |-> factor])

-----------------------------------------------------------------------------
\* convolution.py, pooling.py, resize.py

\* conv2d_padding_to_canonical, for a kernel of kH rows and kW columns.
CanonicalPadding(padding, kH, kW) ==
    CASE padding = <<>> -> <<kW \div 2, (kW - 1) \div 2, kH \div 2, (kH - 1) \div 2>>
      [] Len(padding) = 1 -> padding \o padding \o padding \o padding
      [] Len(padding) = 2 -> <<padding[2], padding[2], padding[1], padding[1]>>
      [] OTHER -> padding
Conv2d(x, weights, bias, stride, padding, dilation, groups, last) ==
    Traced("conv2d", <<x, weights>> \o bias,
           [stride |-> Pair(stride), dilation |-> Pair(dilation), groups |-> groups,
            padding |-> CanonicalPadding(padding, weights.shape[3], weights.shape[4]),
            channel_last |-> last])

\* A padding of four is top, left, bottom, right.
Conv2dTranspose(x, weights, bias, stride, padding, dilation, groups, last, output_padding) ==
    LET same == <<weights.shape[4] \div 2, weights.shape[4] \div 2,
                  weights.shape[3] \div 2, weights.shape[3] \div 2>>
        given == CASE padding = <<>> -> same
                   [] Len(padding) = 4 -> SubSeq(padding, 1, 2)
                   [] OTHER -> Pair(padding)
    IN  Checked(Len(padding) = 4 => padding[2] = padding[4] /\ padding[1] = padding[3],
                Traced("conv2d_transpose", <<x, weights>> \o bias,
                       [stride |-> Pair(stride), dilation |-> Pair(dilation), groups |-> groups,
                        padding |-> given, output_padding |-> Pair(output_padding),
                        channel_last |-> last]))

\* From left, right, top, bottom to top, left, bottom, right.
PoolPadding(padding, kernel) ==
    CASE padding = <<>> -> <<kernel[1] \div 2, kernel[2] \div 2, kernel[1] \div 2, kernel[2] \div 2>>
      [] Len(padding) = 1 -> Pair(padding) \o Pair(padding)
      [] OTHER -> <<padding[3], padding[1], padding[4], padding[2]>>
MaxPool1d(x, kernel, stride, padding, dilation, ceil) ==
    Checked(~ceil, Traced("max_pool1d", <<x>>,
                          [kernel_size |-> kernel, stride |-> stride, dilation |-> dilation,
                           ceil_mode |-> ceil, padding |-> padding]))
MaxPool2d(x, kernel, stride, padding, dilation, ceil, last) ==
    Traced("max_pool2d", <<x>>,
           [kernel |-> Pair(kernel), stride |-> Pair(stride), dilation |-> Pair(dilation),
            padding |-> PoolPadding(padding, Pair(kernel)), ceil_mode |-> ceil, channel_last |-> last])
\* The kernel of one dimension has no second size to be padded for.
AvgPool1d(x, kernel, stride, padding, ceil, count) ==
    Checked(padding # <<>> \/ Len(kernel) = 2,
            LET sides == IF padding = <<>> THEN <<kernel[2] \div 2, kernel[1] \div 2>>
                         ELSE Pair(padding)
            IN  Traced("avg_pool1d", <<x>>,
                       [kernel_size |-> kernel[1], stride |-> stride[1], ceil_mode |-> ceil,
                        padding_left |-> sides[1], padding_right |-> sides[2],
                        count_include_pad |-> count]))
AvgPool2d(x, kernel, stride, padding, ceil, count, last) ==
    Traced("avg_pool2d", <<x>>,
           [kernel |-> Pair(kernel), stride |-> Pair(stride),
            padding |-> PoolPadding(padding, Pair(kernel)), ceil_mode |-> ceil,
            count_include_pad |-> count, channel_last |-> last])

Resize1d(x, size, mode, align, last) ==
    Checked(mode \in {"nearest", "linear"},
            Traced("resize1d", <<x>>, [size |-> size, mode |-> mode, align_corners |-> align,
                                       channel_last |-> last]))
Resize2d(x, sizes, mode, align, last) ==
    Checked(Len(sizes) = 2 /\ mode \in {"nearest", "bilinear"},
            Traced("resize2d", <<x>>, [sizes |-> sizes, mode |-> mode, align_corners |-> align,
                                       channel_last |-> last]))
Upsample2d(x, factor, mode, last) ==
    Checked(Len(factor) \in {1, 2} /\ mode \in {"nearest", "bilinear"},
            Traced("upsample2d", <<x>>, [scale_factor |-> Pair(factor), mode |-> mode,
                                         channel_last |-> last]))
\* Its shape and value are not implemented (op_downsample_2d.cpp).
Downsample2d(x, factor, mode, last) == NoTerm

-----------------------------------------------------------------------------
\* nn.py
Softmax(x, dim) == Traced("softmax", <<x>>, [dim |-> dim])
LogSoftmax(x, dim) == Traced("log_softmax", <<x>>, [dim |-> dim])
Layernorm(x, weights, bias, dim, epsilon) ==
    Traced("layernorm", <<x, weights, bias>>, [dim |-> dim, epsilon |-> epsilon])
Batchnorm(x, weights, bias, mean, var, epsilon) ==
    Traced("batchnorm", <<x, weights, bias, mean, var>>, [epsilon |-> epsilon])
Dropout(x, p, training, seed) == Traced("dropout", <<x>>, [p |-> p, training |-> training, seed |-> seed])

\* A layer with a bias has no parameter for it: it cannot be made.
Linear(x, weights, bias) == Checked(~bias, Matmul(x, weights, <<>>))
\* workaround: the image is one row for each channel, turned around.
Conv2dModule(x, weights, bias, stride, padding, dilation, groups, workaround) ==
    LET y == Conv2d(x, weights, bias, stride, padding, dilation, groups, FALSE)
        s == y.shape
        rows == Reshape(y, <<1, 1, s[Len(s) - 2], s[Len(s) - 1] * s[Len(s)]>>)
    IN  IF workaround /\ Built(y) THEN Transpose(rows, -2, -1) ELSE y
ConvTranspose2dModule(x, weights, bias, stride, padding, dilation, groups) ==
    Conv2dTranspose(x, weights, bias, stride, padding, dilation, groups, FALSE, <<0>>)
MaxPool1dModule(x, kernel, stride, padding, dilation, ceil) ==
    MaxPool1d(x, kernel, stride, padding, dilation, ceil)
MaxPool2dModule(x, kernel, stride, padding, dilation, ceil) ==
    MaxPool2d(x, kernel, stride, padding, dilation, ceil, FALSE)
AvgPool2dModule(x, kernel, stride, padding, ceil, count) ==
    AvgPool2d(x, kernel, stride, padding, ceil, count, FALSE)

-----------------------------------------------------------------------------
\* loss.py

\* validate_shapes
Validated(x, y, minDim, maxDim, loss) ==
    Checked(x.shape = y.shape /\ Len(x.shape) \in minDim..maxDim, loss)

\* reduce_loss: one dimension after the other, from the last one, all kept.
RECURSIVE ReducedFrom(_, _, _)
ReducedFrom(reduction, loss, i) ==
    IF i > Len(loss.shape) THEN loss
    ELSE ReducedFrom(reduction, Reduced("reduce_" \o reduction, loss, <<-i>>, TRUE), i + 1)
ReducedBatch(reduction, loss) ==        \* the first dimension alone
    CASE reduction = "none" -> loss
      [] reduction = "mean" -> ReducedFrom("avg", loss, Len(loss.shape))
      [] reduction = "sum" -> ReducedFrom("sum", loss, Len(loss.shape))
ReducedLoss(reduction, loss) ==
    CASE reduction = "none" -> loss
      [] reduction = "mean" -> ReducedFrom("avg", loss, 1)
      [] reduction = "sum" -> ReducedFrom("sum", loss, 1)

\* align_shape: a constant, unsqueezed and broadcast to the shape of the reference.
RECURSIVE Unsqueezed(_, _, _)
Unsqueezed(target, rank, i) ==
    IF Len(target.shape) >= rank THEN target ELSE Unsqueezed(Unsqueeze(target, i), rank, i + 1)
RECURSIVE BroadcastTo(_, _, _)
BroadcastTo(target, shape, i) ==
    IF i = Len(shape) THEN target
    ELSE BroadcastTo(IF At(target.shape, i) = At(shape, i) THEN target
                     ELSE Broadcast(target, i, At(shape, i)),
                     shape, i + 1)
AlignShape(target, reference) ==
    BroadcastTo(Unsqueezed(target, Len(reference.shape), 0), reference.shape, 0)

MinusOne == Constant(Num(-1))

CrossEntropyLoss(predictions, labels) ==
    LET product == Multiply(labels, Log(Softmax(predictions, -1)))
        negative == Multiply(ReduceSum(product, <<-1>>, TRUE), MinusOne)
    IN  Validated(predictions, labels, 2, 2, ReduceAvg(negative, <<0>>, TRUE))

L1Loss(prediction, labels, reduction) ==
    Validated(prediction, labels, 1, 2, ReducedLoss(reduction, Abs(Subtract(prediction, labels))))

MSELoss(predictions, labels, reduction) ==
    LET diff == Subtract(predictions, labels)
    IN  Validated(predictions, labels, 1, 2, ReducedLoss(reduction, Multiply(diff, diff)))

NLLLoss(prediction, labels, reduction) ==
    LET loss == ReduceSum(Multiply(Multiply(prediction, labels), MinusOne), <<-1>>, TRUE)
    IN  Validated(prediction, labels, 1, 2, ReducedLoss(reduction, loss))

\* There is no sum over the last dimension before the reduction.
KLDivLoss(prediction, labels, reduction) ==
    LET product == Multiply(labels, Subtract(Log(labels), prediction))
    IN  Validated(prediction, labels, 1, 2, ReducedLoss(reduction, product))

\* A constant in every element of a tensor of the shape of one or two dimensions.
SpreadRow(row, shape) ==
    IF Len(shape) = 1 THEN row ELSE Broadcast(Unsqueeze(row, 1), 1, shape[2])
Spread(c, shape) == SpreadRow(Broadcast(Constant(c), 0, shape[1]), shape)
HuberSum(diff, size, bound, half) ==
    Add(Multiply(Less(size, bound), Multiply(half, Multiply(diff, diff))),
        Multiply(GreaterEqual(size, bound), Multiply(bound, Subtract(size, Multiply(half, bound)))))
HuberOf(diff, delta) ==
    HuberSum(diff, Abs(diff), Spread(delta, diff.shape), Spread(Ratio(1, 2), diff.shape))
HuberLoss(prediction, labels, delta, reduction) ==
    Validated(prediction, labels, 1, 2,
              ReducedLoss(reduction, HuberOf(Subtract(prediction, labels), delta)))

Negated(sum) == Multiply(sum, AlignShape(MinusOne, sum))
BCESum(prediction, labels, one) ==
    Add(Multiply(labels, Log(prediction)),
        Multiply(Subtract(one, labels), Log(Subtract(one, prediction))))
BCELoss(prediction, labels, reduction) ==
    LET sum == BCESum(prediction, labels, AlignShape(Constant(Num(1)), labels))
    IN  Validated(prediction, labels, 1, 2, ReducedLoss(reduction, Negated(sum)))

BCEWithLogitsLoss(prediction, labels, reduction) ==
    Validated(prediction, labels, 1, 2, BCELoss(Sigmoid(prediction), labels, reduction))

Norm(diff) == Sqrt(ReduceSum(Multiply(diff, diff), <<1>>, TRUE))
Distance(x, y, eps) == Norm(Add(Subtract(x, y), Constant(eps)))
WithMargin(diff, margin) ==
    Add(diff, Broadcast(Broadcast(Unsqueeze(Constant(margin), -1), 0, diff.shape[1]),
                        1, diff.shape[2]))
Infinity == Num(Prime \div 2)
TripletMarginLoss(anchor, positive, negative, margin, reduction, swap, eps) ==
    LET far == Distance(anchor, negative, eps)
        other == IF swap THEN MinOp(Distance(positive, negative, eps), far) ELSE far
        loss == WithMargin(Subtract(Distance(anchor, positive, eps), other), margin)
    IN  Validated(anchor, positive, 2, 2, ReducedLoss(reduction, Clip(loss, Num(0), Infinity)))

=============================================================================
