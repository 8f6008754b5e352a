----------------------------- MODULE EvalWindow -----------------------------
(***************************************************************************)
(* The ops that slide a window over an image, or resize it: EvalX is the   *)
(* tensor op X computes, XShape the shape it announces.  An image is       *)
(* (N, C, H, W), or (N, H, W, C) when channel_last.                        *)
(***************************************************************************)
EXTENDS EvalReduce

ChannelFirst(t, channel_last) == IF channel_last THEN Permuted(t, <<0, 3, 1, 2>>) ELSE t
ChannelLast(t, channel_last) == IF channel_last THEN Permuted(t, <<0, 2, 3, 1>>) ELSE t

\* The height and the width of an image, and the shape of one with other ones.
Spatial(s, channel_last) ==
    LET n == Len(s) IN IF channel_last THEN <<s[n - 2], s[n - 1]>> ELSE <<s[n - 1], s[n]>>
Image(batch, channels, hw, channel_last) ==
    IF channel_last THEN <<batch, hw[1], hw[2], channels>> ELSE <<batch, channels, hw[1], hw[2]>>

PaddedImage(x, padding, value) ==            \* padding is <<top, left, bottom, right>>
    EvalConstantPad(x, <<0, 0, 0, 0, padding[1], padding[3], padding[2], padding[4]>>, value)

-----------------------------------------------------------------------------
\* Convolution.  The weights are (C_out, C_in / groups, kH, kW).

\* The number of places of the kernel along each side; it fits at least once.
ConvSize(hw, kernel, stride, dilation, padding) ==
    [i \in 1..2 |-> (hw[i] + padding[i] + padding[i + 2] - dilation[i] * (kernel[i] - 1) - 1)
                        \div stride[i] + 1]

Conv2dShape(x, w, stride, dilation, padding, channel_last) ==
    Image(x[1], w[1],
          ConvSize(Spatial(x, channel_last), <<w[Len(w) - 1], w[Len(w)]>>,
                   stride, dilation, padding),
          channel_last)

\* biases is <<>> or <<bias>>.
EvalConv2d(activations, w, biases, stride, dilation, padding, groups, channel_last) ==
    LET x == PaddedImage(ChannelFirst(activations, channel_last), padding, Num(0))
        c_out == w.shape[1]
        c_in == w.shape[2]
        s == Conv2dShape(x.shape, w.shape, stride, dilation, <<0, 0, 0, 0>>, FALSE)
        Channel(o, c) == (o \div (c_out \div groups)) * c_in + c
        Taps == {<<c, u, v>> : c \in 0..(c_in - 1), u \in 0..(w.shape[3] - 1),
                               v \in 0..(w.shape[4] - 1)}
        Tap(i, t) == Times(El(w, <<i[2], t[1], t[2], t[3]>>),
                           El(x, <<i[1], Channel(i[2], t[1]),
                                   i[3] * stride[1] + t[2] * dilation[1],
                                   i[4] * stride[2] + t[3] * dilation[2]>>))
        Bias(o) == IF biases = <<>> THEN Num(0) ELSE biases[1].at[o]
    IN  IF \/ x.shape[2] # c_in * groups
           \/ biases # <<>> /\ (biases[1].shape[Rank(biases[1])] # c_out
                                \/ Size(biases[1].shape) # c_out)
        THEN Rejected
        ELSE ChannelLast(Make(s, LAMBDA i : Plus(Bias(i[2]), SumOver(Taps, LAMBDA t : Tap(i, t)))),
                         channel_last)

\* The weights of the transposed convolution are (C_in, C_out / groups, kH, kW).
Conv2dTransposeShape(x, w, stride, dilation, padding, output_padding, groups, channel_last) ==
    LET hw == Spatial(x, channel_last)
    IN  Image(x[1], w[2] * groups,
              [i \in 1..2 |-> (hw[i] - 1) * stride[i] - 2 * padding[i]
                              + dilation[i] * (w[Len(w) - 2 + i] - 1) + output_padding[i] + 1],
              channel_last)

EvalConv2dTranspose(t, w, biases, stride, dilation, padding, out_padding, groups, channel_last) ==
    LET x == ChannelFirst(t, channel_last)
        s == Conv2dTransposeShape(x.shape, w.shape, stride, dilation, padding, out_padding,
                                  groups, FALSE)
        c_in == w.shape[1] \div groups
        \* the input places (of channel c) a tap of the kernel carries to i
        Taps(i) == {p \in (0..(c_in - 1)) \X (0..(x.shape[3] - 1)) \X (0..(x.shape[4] - 1))
                          \X (0..(w.shape[3] - 1)) \X (0..(w.shape[4] - 1)) :
                        /\ i[3] = p[2] * stride[1] - padding[1] + p[4] * dilation[1]
                        /\ i[4] = p[3] * stride[2] - padding[2] + p[5] * dilation[2]}
        Tap(i, p) == LET c == (i[2] \div w.shape[2]) * c_in + p[1]
                     IN  Times(El(x, <<i[1], c, p[2], p[3]>>),
                               El(w, <<c, i[2] % w.shape[2], p[4], p[5]>>))
        Bias(o) == IF biases = <<>> THEN Num(0) ELSE biases[1].at[o]
    IN  IF x.shape[2] # w.shape[1] \/ (biases # <<>> /\ Size(biases[1].shape) # s[2]) THEN Rejected
        ELSE ChannelLast(Make(s, LAMBDA i : Plus(Bias(i[2]),
                                                 SumOver(Taps(i), LAMBDA p : Tap(i, p)))),
                         channel_last)

-----------------------------------------------------------------------------
\* Pools, which all ask for a dilation of one and for symmetric padding.

PoolSize(n, kernel, stride, pad, ceil_mode) ==
    (n + 2 * pad - kernel + (IF ceil_mode THEN stride - 1 ELSE 0)) \div stride + 1

\* torch leaves out a last window that starts past the input and its left padding.
TorchPoolSize(n, kernel, stride, pad, ceil_mode) ==
    LET out == PoolSize(n, kernel, stride, pad, ceil_mode)
    IN  IF ceil_mode /\ (out - 1) * stride >= n + pad THEN out - 1 ELSE out

MaxPool1dShape(s, kernel, stride, pad, ceil_mode) ==
    IF Len(s) < 3 THEN NoShape
    ELSE SetAt(s, Len(s) - 1, PoolSize(s[Len(s)], kernel, stride, pad, ceil_mode))
AvgPool1dShape(s, kernel, stride, left, right, ceil_mode) ==
    IF left # right THEN NoShape ELSE MaxPool1dShape(s, kernel, stride, left, ceil_mode)

Pool2dShape(s, kernel, stride, padding, ceil_mode, channel_last) ==
    LET hw == Spatial(s, channel_last)
    IN  IF padding[1] # padding[3] \/ padding[2] # padding[4] THEN NoShape
        ELSE Image(s[1], IF channel_last THEN s[Len(s)] ELSE s[Len(s) - 2],
                   [i \in 1..2 |-> PoolSize(hw[i], kernel[i], stride[i], padding[i], ceil_mode)],
                   channel_last)
MaxPool2dShape(s, kernel, stride, padding, ceil_mode, channel_last) ==
    Pool2dShape(s, kernel, stride, padding, ceil_mode, channel_last)
AvgPool2dShape(s, kernel, stride, padding, ceil_mode, channel_last) ==
    Pool2dShape(s, kernel, stride, padding, ceil_mode, channel_last)

\* The image of the windows of x: Cell(c, h, w) is made of the places of a window, which
\* begins at <<h, w>> and may reach out of x.
Pooled(x, kernel, stride, pad, ceil_mode, Cell(_, _, _)) ==
    LET Out(i) == TorchPoolSize(x.shape[i + 2], kernel[i], stride[i], pad[i], ceil_mode)
    IN  Make(<<x.shape[1], x.shape[2], Out(1), Out(2)>>,
             LAMBDA i : Cell(<<i[1], i[2]>>, i[3] * stride[1] - pad[1], i[4] * stride[2] - pad[2]))

Inside(x, h, w, kernel) ==
    {p \in (h..(h + kernel[1] - 1)) \X (w..(w + kernel[2] - 1)) :
        p[1] \in 0..(x.shape[3] - 1) /\ p[2] \in 0..(x.shape[4] - 1)}

Lowest == <<(Prime + 1) \div 2, 0>>              \* minus infinity

EvalMaxPool2d(activations, kernel, stride, padding, ceil_mode, channel_last) ==
    LET x == PaddedImage(ChannelFirst(activations, channel_last), padding, Lowest)
        Cell(c, h, w) ==
            LET P == Inside(x, h, w, kernel)
                top == CHOOSE p \in P : \A q \in P :
                          Signed(El(x, c \o p)) >= Signed(El(x, c \o q))
            IN  El(x, c \o top)
    IN  ChannelLast(Pooled(x, kernel, stride, <<0, 0>>, ceil_mode, Cell), channel_last)

\* The padding is given to torch as <<left, top>>, where it takes height and width.
EvalAvgPool2d(activations, kernel, stride, padding, ceil_mode, count_include_pad, channel_last) ==
    LET x == ChannelFirst(activations, channel_last)
        pad == <<padding[2], padding[1]>>
        Side(from, i) == Smaller(from + kernel[i], x.shape[i + 2] + pad[i]) - from
        Cell(c, h, w) ==
            LET P == Inside(x, h, w, kernel)
                n == IF count_include_pad THEN Side(h, 1) * Side(w, 2) ELSE Cardinality(P)
            IN  Over(SumOver(P, LAMBDA p : El(x, c \o p)), Num(n))
    IN  IF padding[1] # padding[3] \/ padding[2] # padding[4] \/ \E i \in 1..2 : 2 * pad[i] > kernel[i]
        THEN Rejected
        ELSE ChannelLast(Pooled(x, kernel, stride, pad, ceil_mode, Cell), channel_last)

\* The pools of one dimension are those of two with a height of one.
Flatly(x) == Reshaped(x, <<x.shape[1], x.shape[2], 1, x.shape[3]>>)
Unflatly(x) == Reshaped(x, <<x.shape[1], x.shape[2], x.shape[4]>>)

EvalMaxPool1d(x, kernel, stride, pad, ceil_mode) ==
    Unflatly(EvalMaxPool2d(Flatly(x), <<1, kernel>>, <<1, stride>>, <<0, pad, 0, pad>>, ceil_mode,
                           FALSE))

EvalAvgPool1d(x, kernel, stride, pad, ceil_mode, count_include_pad) ==
    LET y == Flatly(x)
    IN  Unflatly(EvalAvgPool2d(Reshaped(y, SwapDims(y.shape, 2, 3)), <<kernel, 1>>, <<stride, 1>>,
                               <<0, pad, 0, pad>>, ceil_mode, count_include_pad, FALSE))

-----------------------------------------------------------------------------
\* Resizing.

\* t with dimension d interpolated to size n: the element at a / b lies a % b / b of the
\* way from element a \div b to the next one.
Interpolated(t, d, n, mode, align_corners) ==
    LET m == At(t.shape, d)
        Num1(i) == IF mode = "nearest" THEN i * m
                   ELSE IF align_corners THEN i * (m - 1)
                   ELSE Larger(0, (2 * i + 1) * m - n)
        Den == IF mode = "nearest" THEN n
               ELSE IF align_corners THEN Larger(1, n - 1) ELSE 2 * n
        Point(idx, a) ==
            LET low == El(t, SetAt(idx, d, a \div Den))
                high == El(t, SetAt(idx, d, Smaller(a \div Den + 1, m - 1)))
            IN  IF mode = "nearest" THEN low
                ELSE Plus(low, Times(Ratio(a % Den, Den), Minus(high, low)))
    IN  Make(SetAt(t.shape, d, n), LAMBDA idx : Point(idx, Num1(At(idx, d))))

EvalResize1d(x, size, mode, align_corners, channel_last) ==
    IF mode \notin {"nearest", "linear"} THEN Rejected
    ELSE Interpolated(x, IF channel_last THEN 1 ELSE 2, size, mode, align_corners)
Resize1dShape(s, size, channel_last) ==
    IF Len(s) # 3 THEN NoShape ELSE SetAt(s, IF channel_last THEN 1 ELSE 2, size)

EvalResize2d(x, sizes, mode, align_corners, channel_last) ==
    LET h == IF channel_last THEN 1 ELSE 2
    IN  IF mode \notin {"nearest", "bilinear"} THEN Rejected
        ELSE Interpolated(Interpolated(x, h, sizes[1], mode, align_corners),
                          h + 1, sizes[2], mode, align_corners)
Resize2dShape(s, sizes, channel_last) ==
    LET h == IF channel_last THEN 1 ELSE 2
    IN  IF Len(s) # 4 THEN NoShape ELSE SetAt(SetAt(s, h, sizes[1]), h + 1, sizes[2])

Upsample2dShape(s, scale_factor, channel_last) ==
    LET hw == Spatial(s, channel_last)
    IN  IF Len(s) # 4 THEN NoShape
        ELSE Resize2dShape(s, [i \in 1..2 |-> hw[i] * scale_factor[i]], channel_last)
EvalUpsample2d(x, scale_factor, mode, channel_last) ==
    LET hw == Spatial(x.shape, channel_last)
    IN  EvalResize2d(x, [i \in 1..2 |-> hw[i] * scale_factor[i]], mode, FALSE, channel_last)

=============================================================================
