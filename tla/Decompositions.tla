--------------------------- MODULE Decompositions ---------------------------
(***************************************************************************)
(* Op::decompose: the graph a node is replaced by in each epoch, or the    *)
(* node itself where the op leaves it alone.  x, y, w ... are the operands *)
(* (with the broadcasts on their edges) and z is the node.                 *)
(***************************************************************************)
EXTENDS Gradients

Asserted(condition, t) == IF condition THEN t ELSE NoTerm

\* One transpose after the other.
Swapped(x, pairs) == FoldLeft(LAMBDA t, p : Transpose(t, p[1], p[2]), x, pairs)
ToChannelLast(x) == Swapped(x, <<<<-3, -2>>, <<-2, -1>>>>)
ToChannelFirst(x) == Swapped(x, <<<<-2, -1>>, <<-3, -2>>>>)

-----------------------------------------------------------------------------
\* Ops that move elements.

\* The dimension to the front, the rest flattened, and an embedding.
DecomposeAdvIndex(a, data, indices) ==
    LET dim == Positive(a.dim, Len(data.shape))
        rest == EraseDim(data.shape, dim)
        front == Swapped(data, [i \in 1..dim |-> <<dim + 1 - i, dim - i>>])
        flat == Len(data.shape) = 2
        table == IF flat THEN front ELSE Reshape(front, <<At(data.shape, dim), Size(rest)>>)
        total == Size(indices.shape)
        row == IF Len(indices.shape) = 2 THEN Reshape(indices, <<total>>) ELSE indices
        chosen == Embedding(row, table)
        back == IF flat THEN chosen ELSE Reshape(chosen, <<total>> \o rest)
    IN  Asserted(Len(indices.shape) \in {1, 2}, Swapped(back, [i \in 1..dim |-> <<i - 1, i>>]))

DecomposeBroadcast(z) == IF z.attrs.size = 1 THEN Nop(z.ins[1]) ELSE z
DecomposeConcatenate(z) == IF Len(z.ins) = 1 THEN Nop(z.ins[1]) ELSE z

DecomposeStack(a, xs) ==
    LET dim == Positive(a.dim, Len(xs[1].shape) + 1)
    IN  Concatenate([i \in DOMAIN xs |-> Unsqueeze(xs[i], dim)], dim)

DecomposePixelShuffle(a, x) ==
    LET n == Len(x.shape)
        r == a.upscale_factor
        lead == SubSeq(x.shape, 1, n - 3)
        C == x.shape[n - 2] \div (r * r)
        H == x.shape[n - 1]
        W == x.shape[n]
        b == n - 3
        apart == Reshape(x, lead \o <<C, r, r, H, W>>)
        woven == Swapped(apart, <<<<b + 1, b + 3>>, <<b + 2, b + 3>>, <<b + 3, b + 4>>>>)
    IN  Reshape(woven, lead \o <<C, H * r, W * r>>)

\* decompose_replicate_mode along one dimension: the edge, repeated.
Replicated(x, dim, low, high) ==
    LET Edge(start, times) ==
            IF times <= 0 THEN Absent
            ELSE Repeat(Slice(x, dim, start, start + 1), SetAt(Ones(Len(x.shape)), dim, times))
    IN  ConcatPatches(<<Edge(0, low), x, Edge(At(x.shape, dim) - 1, high)>>, dim)

\* extract_and_mirror, and decompose_reflect_mode along one dimension.
ExtractAndMirror(x, dim, start, stop) ==
    LET backwards == Tensor(Make(<<stop - start>>, LAMBDA i : Num(stop - start - 1 - i[1])))
    IN  Apply("adv_index", [dim |-> dim], <<Slice(x, dim, start, stop), backwards>>)

Reflected(x, dim, low, high) ==
    LET n == At(x.shape, dim)
        Mirror(start, stop) ==
            IF stop <= start THEN Absent ELSE ExtractAndMirror(x, dim, start, stop)
    IN  Asserted(low <= n - 1 /\ high <= n - 1,
                 ConcatPatches(<<Mirror(1, low + 1), x, Mirror(n - high - 1, n - 1)>>, dim))

DecomposePad(a, x) ==
    LET p == PaddingParams(a.padding, Len(x.shape), a.channel_last)
        Along(t, dim, low, high) ==
            CASE a.mode = 0 -> Padded(t, dim, low, high, a.value)
              [] a.mode = 1 -> Replicated(t, dim, low, high)
              [] a.mode = 2 -> Reflected(t, dim, low, high)
        wide == Along(x, p.width_dim, p.left, p.right)
    IN  IF \A i \in DOMAIN a.padding : a.padding[i] = 0 THEN Nop(x)
        ELSE IF ~Built(wide) \/ (p.top = 0 /\ p.bottom = 0) THEN wide
        ELSE Along(wide, p.height_dim, p.top, p.bottom)

DecomposeRepeatToBroadcast(z) ==
    LET r == z.attrs.repeats
        s == z.ins[1].shape
        more == SelectSeq([i \in DOMAIN r |-> i], LAMBDA i : r[i] > 1)
        Spread(t, i) == Apply("broadcast", [dim |-> i - 1, size |-> r[i]], <<t>>)
    IN  IF Len(s) = Len(r) /\ \A k \in DOMAIN more : s[more[k]] = 1
        THEN FoldLeft(Spread, z.ins[1], more) ELSE z
DecomposeRepeat(z) ==
    LET x == z.ins[1]
    IN  IF Len(x.shape) < Len(z.attrs.repeats)
        THEN Repeat(Reshape(x, PadLeft(x.shape, Len(z.attrs.repeats))), z.attrs.repeats) ELSE z

\* decompose_reshape: only leading ones come or go.
DecomposeReshape(z) ==
    LET x == z.ins[1]
        more == Len(z.attrs.shape) - Len(x.shape)
        Times1(n) == [i \in 1..n |-> 0]
    IN  IF more > 0 /\ z.attrs.shape = Ones(more) \o x.shape
        THEN FoldLeft(Unsqueeze, x, Times1(more))
        ELSE IF more < 0 /\ x.shape = Ones(-more) \o z.attrs.shape
        THEN FoldLeft(Squeeze, x, Times1(-more))
        ELSE z

\* decompose_initial of the three reductions: of sizes of one only.
DecomposeReduce(z) ==
    LET x == z.ins[1]
        D == Dims(z.attrs.dim_arg, Len(x.shape))
    IN  IF \E d \in D : At(x.shape, d) # 1 THEN z
        ELSE IF z.attrs.keep_dim THEN Nop(x)
        ELSE FoldLeft(Squeeze, x, SetToSortSeq(D, LAMBDA d, e : d > e))

\* Into a key-value cache: whole sequences, or one place of each.
DecomposeIndexCopy(z) ==
    LET x == z.ins[1]
        dim == IF z.attrs.dim > 0 THEN z.attrs.dim - Len(x.shape) ELSE z.attrs.dim
        offset == [batch_offset |-> 0]
    IN  IF dim # -2 \/ Len(x.shape) # 4 \/ Len(z.ins[3].shape) # 4 THEN z
        ELSE IF z.ins[2].shape[1] > 1 THEN Apply("fill_cache", offset, <<x, z.ins[3]>>)
        ELSE Apply("update_cache", offset, <<x, z.ins[3], z.ins[2]>>)

-----------------------------------------------------------------------------
\* Ops with windows.  The device convolves, pools and resizes channel-last images only.

\* decompose_initial of both convolutions; c_out is the channel count its weights give.
ToChannelLastConvolution(z, c_out) ==
    LET a == z.attrs
        bias == IF Len(z.ins) = 3 THEN <<z.ins[3]>> ELSE <<>>
        missing == IF bias = <<>> THEN <<>>
                   ELSE [i \in 1..(Len(z.ins[1].shape) - Len(bias[1].shape)) |-> 0]
        turned == bias # <<>> /\ ~a.channel_last /\ Last(bias[1].shape) # c_out
        Aligned(b) == LET full == FoldLeft(Unsqueeze, b, missing)
                      IN  IF turned THEN ToChannelLast(full) ELSE full
        new == Apply(z.op, [a EXCEPT !.channel_last = TRUE],
                     <<IF a.channel_last THEN z.ins[1] ELSE ToChannelLast(z.ins[1]), z.ins[2]>>
                     \o [i \in DOMAIN bias |-> Aligned(bias[i])])
    IN  IF a.channel_last /\ missing = <<>> THEN z
        ELSE IF a.channel_last THEN new ELSE ToChannelFirst(new)

DecomposeConv2d(z) == ToChannelLastConvolution(z, z.ins[2].shape[1])
DecomposeConv2dTranspose(z) == ToChannelLastConvolution(z, z.ins[2].shape[2])

DecomposeMaxPool2d(z) ==
    IF z.attrs.channel_last THEN z
    ELSE ToChannelFirst(Apply("max_pool2d", [z.attrs EXCEPT !.channel_last = TRUE],
                              <<ToChannelLast(z.ins[1])>>))

DecomposeAvgPool1d(a, x) == Asserted(a.kernel_size = Last(x.shape), ReduceAvg(x, <<-1>>, TRUE))

\* calculate_ceil_pad
CeilPad(n, kernel, stride, low, high) ==
    LET out == (n + low + high - kernel + stride - 1) \div stride + 1
    IN  IF high >= kernel THEN 0
        ELSE Larger(0, stride * (out - 1) - n + kernel - low - high)

\* The image as a matrix with a row for every place, and back.
Rows(t, n, channels, places, channel_last) ==
    IF channel_last THEN Reshape(t, <<n, 1, places, channels>>)
    ELSE Transpose(Reshape(t, <<n, 1, channels, places>>), 2, 3)
FromRows(t, s, channel_last) == Reshape(IF channel_last THEN t ELSE Transpose(t, 2, 3), s)

\* The diagonal matrix of what makes up, in each window of an image of the given height
\* and width, for the places of the padding (torch: left, right, top, bottom) in it.
CorrectionMatrix(height, width, padding, kernel, stride) ==
    LET mask == EvalConstantPad(Full(<<1, 1, height, width>>, Num(0)),
                                <<0, 0, 0, 0, padding[3], padding[4], padding[1], padding[2]>>, Num(1))
        picker == EvalConv2d(mask, Full(<<1, 1, kernel[1], kernel[2]>>, Num(1)), <<>>, stride,
                             <<1, 1>>, <<0, 0, 0, 0>>, 1, FALSE)
        volume == kernel[1] * kernel[2]
        n == Size(picker.shape)
    IN  Make(<<n, n>>, LAMBDA i : IF i[1] # i[2] THEN Num(0)
                                  ELSE Over(Num(volume), Minus(Num(volume), picker.at[i[1]])))

\* The average of all of the image, or a convolution with equal weights: the padding is
\* <<top, left, bottom, right>>, what rounding up adds goes to its second and fourth.
DecomposeAvgPool2d(z) ==
    LET a == z.attrs
        x == z.ins[1]
        hw == Spatial(x.shape, a.channel_last)
        cin == IF a.channel_last THEN x.shape[4] ELSE x.shape[2]
        given == a.padding
        right == CeilPad(hw[2], a.kernel[2], a.stride[2], given[2], given[4])
        bottom == CeilPad(hw[1], a.kernel[1], a.stride[1], given[1], given[3])
        ceil == a.ceil_mode /\ ~(right = 0 /\ bottom = 0)
        padding == IF ceil THEN [given EXCEPT ![2] = @ + right, ![4] = @ + bottom] ELSE given
        padded == \E i \in 1..4 : padding[i] # 0
        whole == hw = a.kernel /\ (a.stride = a.kernel \/ ~padded)
        average == ReduceAvg(Rows(x, x.shape[1], cin, hw[1] * hw[2], a.channel_last), <<-2>>, TRUE)
        weight == Tensor(Full(<<cin, 1, a.kernel[1], a.kernel[2]>>, Ratio(1, Size(a.kernel))))
        conv == Apply("conv2d", [stride |-> a.stride, dilation |-> <<1, 1>>, groups |-> cin,
                                 padding |-> padding, channel_last |-> a.channel_last], <<x, weight>>)
        out == Spatial(conv.shape, a.channel_last)
        matrix == IF ~a.count_include_pad
                  THEN CorrectionMatrix(hw[1], hw[2], padding, a.kernel, a.stride)
                  ELSE CorrectionMatrix(hw[1] + given[3] + given[4], hw[2] + given[1] + given[2],
                                        <<0, padding[2] - given[2], 0, padding[4] - given[4]>>,
                                        a.kernel, a.stride)
        rows == Rows(conv, x.shape[1], cin, out[1] * out[2], a.channel_last)
    IN  CASE whole -> FromRows(average, Image(x.shape[1], cin, <<1, 1>>, a.channel_last),
                               a.channel_last)
          [] ~whole /\ (~padded \/ (~ceil /\ a.count_include_pad)) -> conv
          [] OTHER -> FromRows(Matmul(Tensor(matrix), rows), conv.shape, a.channel_last)

\* decompose_nearest_interpolation, along dimension dim of size n: every element size / g
\* times, and every n / g-th of them, which a convolution picks.
Gcd(m, n) == Max({g \in 1..Smaller(m, n) : m % g = 0 /\ n % g = 0})
RepeatedTo(x, dim, size) ==
    LET up == size \div Gcd(size, At(x.shape, dim))
    IN  IF up > 1 THEN Apply("repeat_interleave", [repeats |-> up, dim |-> dim], <<x>>) ELSE x

Picked(x, down, channel_last) ==
    LET c == IF channel_last THEN Last(x.shape) ELSE x.shape[2]
        first == Make(<<c, 1, down[1], down[2]>>, LAMBDA i : Truth(i[3] = 0 /\ i[4] = 0))
    IN  IF down = <<1, 1>> THEN x
        ELSE Apply("conv2d", [stride |-> down, dilation |-> <<1, 1>>, groups |-> c,
                              padding |-> <<0, 0, 0, 0>>, channel_last |-> channel_last],
                   <<x, Tensor(first)>>)

DecomposeNearest(x, sizes, channel_last) ==
    LET w == IF channel_last THEN Len(x.shape) - 2 ELSE Len(x.shape) - 1
        h == w - 1
        Down(dim, size) == At(x.shape, dim) \div Gcd(size, At(x.shape, dim))
    IN  IF Len(sizes) = 1
        THEN LET wide == RepeatedTo(x, w, sizes[1])
             IN  IF Down(w, sizes[1]) = 1 THEN wide
                 ELSE Squeeze(Picked(Unsqueeze(wide, w), <<1, Down(w, sizes[1])>>, channel_last), w)
        ELSE LET larger == RepeatedTo(RepeatedTo(x, h, sizes[1]), w, sizes[2])
                 narrow == Picked(larger, <<1, Down(w, sizes[2])>>, channel_last)
             IN  Picked(narrow, <<Down(h, sizes[1]), 1>>, channel_last)

Upsampled(x, scale_factor, mode, channel_last) ==
    LET Up(t) == Apply("upsample2d", [scale_factor |-> scale_factor, mode |-> mode,
                                      channel_last |-> TRUE], <<t>>)
    IN  IF channel_last THEN Up(x) ELSE ToChannelFirst(Up(ToChannelLast(x)))

DecomposeResize1d(a, x) ==
    LET w == IF a.channel_last THEN Len(x.shape) - 2 ELSE Len(x.shape) - 1
        n == At(x.shape, w)
    IN  IF a.size = n THEN Nop(x)
        ELSE IF a.mode = "nearest" /\ (a.size % n # 0 \/ a.size < n)
        THEN DecomposeNearest(x, <<a.size>>, a.channel_last)
        ELSE Asserted(a.size >= n /\ (a.mode = "nearest" \/ ~a.align_corners),
                      Squeeze(Upsampled(Unsqueeze(x, w), <<1, a.size \div n>>,
                                        IF a.mode = "linear" THEN "bilinear" ELSE a.mode,
                                        a.channel_last), w))

DecomposeResize2d(a, x) ==
    LET hw == Spatial(x.shape, a.channel_last)
        up == [i \in 1..2 |-> a.sizes[i] >= hw[i]]
        whole == \A i \in 1..2 : a.sizes[i] % hw[i] = 0
    IN  IF a.sizes = hw THEN Nop(x)
        ELSE IF a.mode = "nearest" /\ (~whole \/ up # <<TRUE, TRUE>>)
        THEN DecomposeNearest(x, a.sizes, a.channel_last)
        ELSE Asserted(up = <<TRUE, TRUE>> /\ whole /\ (a.mode = "nearest" \/ ~a.align_corners),
                      Upsampled(x, [i \in 1..2 |-> a.sizes[i] \div hw[i]], a.mode, a.channel_last))

-----------------------------------------------------------------------------
\* Ops that become arithmetic.

DecomposeLogSoftmax(a, x) == Unary("log", Apply("softmax", [dim |-> a.dim], <<x>>))

DecomposeHeaviside(x, y) ==
    Add(Multiply(Binary("equal", x, Whole(0)), y), Binary("greater", x, Whole(0)))

DecomposeSoftmaxBw(a, z, g) ==
    LET dot == ReduceSum(Multiply(g, z), <<a.dim>>, TRUE)
    IN  Asserted((IF a.dim >= 0 THEN a.dim ELSE -a.dim - 1) < Len(z.shape),
                 Multiply(Subtract(g, dot), z))

DecomposeLayernorm(a, x, weights, bias) ==
    LET dim == Positive(a.dim, Len(x.shape))
        per == Ratio(1, Last(x.shape))
        mean == Multiply(Tensor(Full(x.shape, per)), ReduceSum(x, <<dim>>, TRUE))
        off == Subtract(x, mean)
        sum == ReduceSum(Multiply(off, off), <<dim>>, TRUE)
        var == Multiply(Tensor(Full(sum.shape, per)), sum)
        std == Unary("sqrt", Add(var, Tensor(Full(sum.shape, a.epsilon))))
        xhat == Multiply(off, Unary("reciprocal", std))
    IN  Asserted(/\ dim = Len(x.shape) - 1
                 /\ Last(weights.shape) = Last(x.shape) /\ Last(bias.shape) = Last(x.shape),
                 Add(Multiply(xhat, weights), bias))

\* It reads the normalized input and the inverse deviation out of the decomposed output.
DecomposeLayernormBw(a, x, gamma, g, z) ==
    LET dim == Positive(a.dim, Len(x.shape))
        xhat == Producer(Producer(z.ins[1]).ins[1])
        ivar == Producer(xhat.ins[2])
        PerColumn(t) ==
            LET batch == IF Len(t.shape) = 3 /\ t.shape[1] # 1 THEN ReduceSum(t, <<0>>, TRUE) ELSE t
            IN  ReduceSum(batch, <<-2>>, TRUE)
        dxhat == Multiply(g, gamma)
        both == Add(ReduceSum(dxhat, <<dim>>, TRUE),
                    Multiply(xhat, ReduceSum(Multiply(dxhat, xhat), <<dim>>, TRUE)))
        mean == Multiply(Tensor(Full(both.shape, Ratio(1, Last(x.shape)))), both)
    IN  CASE a.operand = 2 -> PerColumn(g)
          [] a.operand # 2 /\ z.op # "add" -> NoTerm
          [] a.operand = 1 /\ z.op = "add" -> PerColumn(Multiply(xhat, g))
          [] a.operand = 0 /\ z.op = "add" -> Multiply(ivar, Subtract(dxhat, mean))

-----------------------------------------------------------------------------
\* Op::decompose in each epoch.
DecomposeInitial(z) ==
    LET a == z.attrs
        x == z.ins[1]
    IN  CASE z.op = "adv_index" -> DecomposeAdvIndex(a, x, z.ins[2])
          [] z.op = "avg_pool1d" -> DecomposeAvgPool1d(a, x)
          [] z.op = "avg_pool2d" -> DecomposeAvgPool2d(z)
          [] z.op = "broadcast" -> DecomposeBroadcast(z)
          [] z.op = "concatenate" -> DecomposeConcatenate(z)
          [] z.op = "conv2d" -> DecomposeConv2d(z)
          [] z.op = "conv2d_transpose" -> DecomposeConv2dTranspose(z)
          [] z.op = "index_copy" -> DecomposeIndexCopy(z)
          [] z.op = "log_softmax" -> DecomposeLogSoftmax(a, x)
          [] z.op = "max_pool2d" -> DecomposeMaxPool2d(z)
          [] z.op = "pad" -> DecomposePad(a, x)
          [] z.op = "pixel_shuffle" -> DecomposePixelShuffle(a, x)
          [] z.op \in {"reduce_avg", "reduce_max", "reduce_sum"} -> DecomposeReduce(z)
          [] z.op = "repeat" -> DecomposeRepeat(z)
          [] z.op = "reshape" -> DecomposeReshape(z)
          [] z.op = "resize1d" -> DecomposeResize1d(a, x)
          [] z.op = "resize2d" -> DecomposeResize2d(a, x)
          [] z.op = "stack" -> DecomposeStack(a, z.ins)
          [] OTHER -> z

\* No op has anything to do here, but the dispatch knows no conv2d_transpose.
DecomposePostOptimize(z) == Asserted(z.op # "conv2d_transpose", z)

DecomposeTrainingOps(z) ==
    LET xs == z.ins
    IN  CASE z.op = "softmax_bw" -> DecomposeSoftmaxBw(z.attrs, xs[2], xs[3])
          [] z.op = "layernorm" -> DecomposeLayernorm(z.attrs, xs[1], xs[2], xs[3])
          [] OTHER -> z

DecomposePostAutograd(z) ==
    LET a == z.attrs
        xs == z.ins
    IN  CASE z.op = "heaviside" -> DecomposeHeaviside(xs[1], xs[2])
          [] z.op = "layernorm" -> DecomposeLayernorm(a, xs[1], xs[2], xs[3])
          [] z.op = "layernorm_bw" -> DecomposeLayernormBw(a, xs[1], xs[2], xs[4], Producer(xs[5]))
          [] z.op = "reshape" -> DecomposeReshape(z)
          [] z.op = "softmax_bw" -> DecomposeSoftmaxBw(a, xs[2], xs[3])
          [] OTHER -> z

=============================================================================
