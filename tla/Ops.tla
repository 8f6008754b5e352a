-------------------------------- MODULE Ops --------------------------------
(***************************************************************************)
(* Ops by name, as forge/csrc/ops/op.cpp dispatches them.                  *)
(***************************************************************************)
EXTENDS EvalWindow

\* Op::eval.  a are the attributes, t the operands.
EvalUnary(op, a, x) ==
    CASE op = "abs" -> EvalAbs(x)
      [] op = "atan" -> EvalAtan(x)
      [] op = "cast" -> EvalCast(x)
      [] op = "clip" -> EvalClip(x, a.min, a.max)
      [] op = "cosine" -> EvalCosine(x)
      [] op = "erf" -> EvalErf(x)
      [] op = "exp" -> EvalExp(x)
      [] op = "gelu" -> EvalGelu(x, a.approximate)
      [] op = "leaky_relu" -> EvalLeakyRelu(x, a.parameter)
      [] op = "log" -> EvalLog(x)
      [] op = "logical_not" -> EvalLogicalNot(x)
      [] op = "nop" -> EvalNop(x)
      [] op = "pow" -> EvalPow(x, a.exponent)
      [] op = "reciprocal" -> EvalReciprocal(x)
      [] op = "relu" -> EvalRelu(x)
      [] op = "sigmoid" -> EvalSigmoid(x)
      [] op = "sine" -> EvalSine(x)
      [] op = "sqrt" -> EvalSqrt(x)
      [] op = "tanh" -> EvalTanh(x)
UnaryOps == {"abs", "atan", "cast", "clip", "cosine", "erf", "exp", "gelu", "leaky_relu", "log",
             "logical_not", "nop", "pow", "reciprocal", "relu", "sigmoid", "sine", "sqrt", "tanh"}

EvalBinary(op, x, y) ==
    CASE op = "add" -> EvalAdd(x, y)
      [] op = "bitwise_and" -> EvalBitwiseAnd(x, y)
      [] op = "divide" -> EvalDivide(x, y)
      [] op = "equal" -> EvalEqual(x, y)
      [] op = "greater" -> EvalGreater(x, y)
      [] op = "greater_equal" -> EvalGreaterEqual(x, y)
      [] op = "heaviside" -> EvalHeaviside(x, y)
      [] op = "less" -> EvalLess(x, y)
      [] op = "less_equal" -> EvalLessEqual(x, y)
      [] op = "logical_and" -> EvalLogicalAnd(x, y)
      [] op = "maximum" -> EvalMaximum(x, y)
      [] op = "minimum" -> EvalMinimum(x, y)
      [] op = "multiply" -> EvalMultiply(x, y)
      [] op = "not_equal" -> EvalNotEqual(x, y)
      [] op = "power" -> EvalPower(x, y)
      [] op = "remainder" -> EvalRemainder(x, y)
      [] op = "subtract" -> EvalSubtract(x, y)
BinaryOps == {"add", "bitwise_and", "divide", "equal", "greater", "greater_equal", "heaviside",
              "less", "less_equal", "logical_and", "maximum", "minimum", "multiply", "not_equal",
              "power", "remainder", "subtract"}

EvalOther(op, a, t) ==
    CASE op = "adv_index" -> EvalAdvIndex(t[1], t[2], a.dim)
      [] op = "argmax" -> EvalArgmax(t[1], a.dim_arg, a.keep_dim)
      [] op = "avg_pool1d" -> EvalAvgPool1d(t[1], a.kernel_size, a.stride, a.padding_left, a.ceil_mode,
                                            a.count_include_pad)
      [] op = "avg_pool2d" -> EvalAvgPool2d(t[1], a.kernel, a.stride, a.padding, a.ceil_mode,
                                            a.count_include_pad, a.channel_last)
      [] op = "batchnorm" -> EvalBatchnorm(t[1], t[2], t[3], t[4], t[5], a.epsilon)
      [] op \in {"broadcast", "tm"} -> EvalBroadcast(t[1], a.dim, a.size)
      [] op = "concatenate" -> EvalConcatenate(t, a.dim)
      [] op = "constant_pad" -> EvalConstantPad(t[1], a.padding, a.value)
      [] op = "conv2d" -> EvalConv2d(t[1], t[2], SubSeq(t, 3, Len(t)), a.stride, a.dilation,
                                     a.padding, a.groups, a.channel_last)
      [] op = "conv2d_transpose" ->
            EvalConv2dTranspose(t[1], t[2], SubSeq(t, 3, Len(t)), a.stride, a.dilation, a.padding,
                                a.output_padding, a.groups, a.channel_last)
      [] op = "cumsum" -> EvalCumulativeSum(t[1], a.dim)
      [] op = "dropout" -> EvalDropout(t[1], a.p, a.training, a.seed)
      [] op = "embedding" -> EvalEmbedding(t[1], t[2])
      [] op = "embedding_bw" -> EvalEmbeddingBw(t[1], t[2], t[3])
      [] op = "fill_cache" -> EvalFillCache(t[1], t[2], a.batch_offset)
      [] op = "index" -> EvalIndex(t[1], a.dim, a.start, a.stop, a.stride)
      [] op = "index_copy" -> EvalIndexCopy(t[1], t[2], t[3], a.dim)
      [] op = "layernorm" -> EvalLayernorm(t[1], t[2], t[3], a.dim, a.epsilon)
      [] op = "layernorm_bw" -> EvalLayernormBw(t[1], t[2], t[3], t[4], a.dim, a.epsilon, a.operand)
      [] op = "log_softmax" -> EvalLogSoftmax(t[1], a.dim)
      [] op = "mask" -> EvalMask(t[1], t[2], a.dim)
      [] op = "matmul" -> EvalMatmul(t[1], t[2])
      [] op = "max_pool1d" -> EvalMaxPool1d(t[1], a.kernel_size, a.stride, a.padding, a.ceil_mode)
      [] op = "max_pool2d" -> EvalMaxPool2d(t[1], a.kernel, a.stride, a.padding, a.ceil_mode,
                                            a.channel_last)
      [] op = "pad" -> EvalPad(t[1], a.padding, a.mode, a.value, a.channel_last)
      [] op = "pixel_shuffle" -> EvalPixelShuffle(t[1], a.upscale_factor)
      [] op = "reduce_avg" -> EvalReduceAvg(t[1], a.dim_arg, a.keep_dim)
      [] op = "reduce_max" -> EvalReduceMax(t[1], a.dim_arg, a.keep_dim)
      [] op = "reduce_sum" -> EvalReduceSum(t[1], a.dim_arg, a.keep_dim)
      [] op = "repeat" -> EvalRepeat(t[1], a.repeats)
      [] op = "repeat_interleave" -> EvalRepeatInterleave(t[1], a.repeats, a.dim)
      [] op = "reshape" -> EvalReshape(t[1], a.shape)
      [] op = "resize1d" -> EvalResize1d(t[1], a.size, a.mode, a.align_corners, a.channel_last)
      [] op = "resize2d" -> EvalResize2d(t[1], a.sizes, a.mode, a.align_corners, a.channel_last)
      [] op = "select" -> EvalSelect(t[1], a.dim, a.begin, a.length, a.stride)
      [] op = "sharp_mask" -> EvalSharpMask(t[1], a.dim_arg)
      [] op = "softmax" -> EvalSoftmax(t[1], a.dim)
      [] op = "softmax_bw" -> EvalSoftmaxBw(t[1], t[3], a.dim)
      [] op = "squeeze" -> EvalSqueeze(t[1], a.dim)
      [] op = "stack" -> EvalStack(t, a.dim)
      [] op = "transpose" -> EvalTranspose(t[1], a.dim0, a.dim1)
      [] op = "unsqueeze" -> EvalUnsqueeze(t[1], a.dim)
      [] op = "update_cache" -> EvalUpdateCache(t[1], t[2], t[3], a.batch_offset)
      [] op = "upsample2d" -> EvalUpsample2d(t[1], a.scale_factor, a.mode, a.channel_last)
      [] op = "where" -> EvalWhere(t[1], t[2], t[3])

Eval(op, a, t) ==
    IF \E i \in DOMAIN t : ~Accepted(t[i]) THEN Rejected
    ELSE CASE op \in UnaryOps -> EvalUnary(op, a, t[1])
           [] op \in BinaryOps -> EvalBinary(op, t[1], t[2])
           [] OTHER -> EvalOther(op, a, t)

-----------------------------------------------------------------------------
\* Op::shape, for ops with no broadcasts; s are the operands' shapes.
PlainShape(op, a, s) ==
    CASE op = "adv_index" -> AdvIndexShape(s[1], s[2], a.dim)
      [] op = "argmax" -> ArgmaxShape(s[1], a.dim_arg, a.keep_dim)
      [] op = "avg_pool1d" -> AvgPool1dShape(s[1], a.kernel_size, a.stride, a.padding_left,
                                             a.padding_right, a.ceil_mode)
      [] op = "avg_pool2d" -> AvgPool2dShape(s[1], a.kernel, a.stride, a.padding, a.ceil_mode,
                                             a.channel_last)
      [] op \in {"broadcast", "tm"} -> BroadcastOpShape(s[1], a.dim, a.size)
      [] op = "concatenate" -> ConcatenateShape(s, a.dim)
      [] op = "constant_pad" -> ConstantPadShape(s[1], a.padding)
      [] op = "conv2d" -> Conv2dShape(s[1], s[2], a.stride, a.dilation, a.padding, a.channel_last)
      [] op = "conv2d_transpose" ->
            Conv2dTransposeShape(s[1], s[2], a.stride, a.dilation, a.padding, a.output_padding,
                                 a.groups, a.channel_last)
      [] op = "embedding" -> EmbeddingShape(s[1], s[2])
      [] op = "embedding_bw" -> EmbeddingBwShape(s[1], s[2])
      [] op = "index" -> IndexShape(s[1], a.dim, a.start, a.stop, a.stride)
      [] op = "layernorm_bw" -> s[a.operand + 1]
      [] op = "log_softmax" -> LogSoftmaxShape(s[1], a.dim)
      [] op = "matmul" -> MatmulShape(s[1], s[2])
      [] op = "max_pool1d" -> MaxPool1dShape(s[1], a.kernel_size, a.stride, a.padding, a.ceil_mode)
      [] op = "max_pool2d" -> MaxPool2dShape(s[1], a.kernel, a.stride, a.padding, a.ceil_mode,
                                             a.channel_last)
      [] op = "pad" -> PadShape(s[1], a.padding, a.channel_last)
      [] op = "pixel_shuffle" -> PixelShuffleShape(s[1], a.upscale_factor)
      [] op \in {"reduce_avg", "reduce_max", "reduce_sum"} -> ReduceShape(s[1], a.dim_arg, a.keep_dim)
      [] op = "repeat" -> RepeatShape(s[1], a.repeats)
      [] op = "repeat_interleave" -> RepeatInterleaveShape(s[1], a.repeats, a.dim)
      [] op = "reshape" -> ReshapeShape(s[1], a.shape)
      [] op = "resize1d" -> Resize1dShape(s[1], a.size, a.channel_last)
      [] op = "resize2d" -> Resize2dShape(s[1], a.sizes, a.channel_last)
      [] op = "select" -> SelectShape(s[1], a.dim, a.begin, a.length, a.stride)
      [] op = "squeeze" -> SqueezeShape(s[1], a.dim)
      [] op = "stack" -> StackShape(s, a.dim)
      [] op = "transpose" -> TransposeShape(s[1], a.dim0, a.dim1)
      [] op = "unsqueeze" -> UnsqueezeShape(s[1], a.dim)
      [] op = "upsample2d" -> Upsample2dShape(s[1], a.scale_factor, a.channel_last)
      [] OTHER -> s[1]                   \* the shape of the first operand

ShapeOf(op, a, s) ==
    CASE op \in BinaryOps -> BinaryShape(s[1], s[2])
      [] op = "where" -> NaryShape(s)
      [] OTHER -> Announce(PlainShape(op, a, s), {})

\* Op::is_tm and Op::is_eltwise.
TmOps == {"adv_index", "broadcast", "constant_pad", "index", "pad", "pixel_shuffle", "repeat",
          "repeat_interleave", "reshape", "select", "squeeze", "transpose", "unsqueeze"}
EltwiseOps == UnaryOps \union BinaryOps \union {"concatenate", "index_copy", "stack", "where"}

=============================================================================
