---------------------------- MODULE MCOpCompiler ----------------------------
(***************************************************************************)
(* Graphs of every op, small enough to compute, and what they are given.   *)
(***************************************************************************)
EXTENDS OpCompiler

forge == INSTANCE ForgeOps

\* Odd numbers, small ones of both signs, all different in a tensor of up to 23 elements.
Data(shape, k) ==
    [shape |-> shape, at |-> [f \in 0..(Size(shape) - 1) |-> Num(2 * ((5 * f + k) % 23) - 23)]]
Counting(shape, n) == [shape |-> shape, at |-> [f \in 0..(Size(shape) - 1) |-> Num(f % n)]]

X(shape) == Input("x", shape)
Y(shape) == Input("y", shape)
W(shape) == Input("w", shape)

\* A module of one input, of two and of three; trained in the inputs of the given names.
Call(outputs, inputs, trained) ==
    [outputs |-> outputs, inputs |-> inputs, trained |-> trained, parameters |-> {"w"},
     optimizer |-> [type |-> "none"], torch |-> <<>>]
OnX(outputs, shape, trained) == Call(outputs, [x |-> Data(shape, 3)], trained)
OnXY(outputs, s, r, trained) == Call(outputs, [x |-> Data(s, 3), y |-> Data(r, 8)], trained)
OnXW(outputs, s, r, trained) == Call(outputs, [x |-> Data(s, 3), w |-> Data(r, 8)], trained)

\* A call whose outputs torch computes, too.
Checks(alone, torch) == [alone EXCEPT !.torch = torch]
SliceOf(dim, start, end) == [fn |-> "slice", reduction |-> "none", dim |-> dim, start |-> start, end |-> end]

Square == <<2, 3>>
Cube == <<1, 2, 3>>
Image3 == <<1, 2, 3, 4>>        \* batch, channels, height, width

-----------------------------------------------------------------------------
UnaryOf(x) == <<forge!Abs(x), forge!Atan(x), forge!Cosine(x), forge!Erf(x), forge!Exp(x), forge!Log(x),
                forge!Identity(x), forge!Reciprocal(x), forge!Relu(x), forge!Sigmoid(x),
                forge!Sine(x), forge!Sqrt(x), forge!Tanh(x), forge!Clip(x, Num(-9), Num(9)),
                forge!Gelu(x, "none"), forge!LeakyRelu(x, Num(3)), forge!Pow(x, Num(3)),
                forge!Dropout(x, Ratio(1, 2), TRUE, 1)>>
UnaryCalls ==
    LET ops == UnaryOf(X(Square))
    IN  [i \in DOMAIN ops |-> OnX(<<ops[i]>>, Square, {"x"})]
        \o <<OnX(<<forge!Cast(X(Square)), forge!LogicalNot(X(Square)), forge!CumSum(X(Square), -1)>>,
                 Square, {})>>

BinaryOf(x, y) == <<forge!Add(x, y), forge!Subtract(x, y), forge!Multiply(x, y), forge!Divide(x, y),
                    forge!Power(x, y)>>
NoGradientOf(x, y) ==
    <<forge!BitwiseAnd(x, y), forge!Equal(x, y), forge!Greater(x, y), forge!GreaterEqual(x, y),
      forge!Heaviside(x, y), forge!Less(x, y), forge!LessEqual(x, y), forge!MaxOp(x, y),
      forge!MinOp(x, y), forge!NotEqual(x, y), forge!Remainder(x, y)>>
BinaryCalls ==
    LET same == BinaryOf(X(Square), Y(Square))
        down == BinaryOf(X(Square), W(<<1, 3>>))        \* broadcast along the first dimension
        up == BinaryOf(W(<<1, 3>>), X(Square))
    IN  [i \in DOMAIN same |-> OnXY(<<same[i]>>, Square, Square, {"x", "y"})]
        \o [i \in DOMAIN same |-> OnXW(<<down[i], up[i]>>, Square, <<1, 3>>, {"w"})]
        \o <<OnXW(<<forge!Add(X(<<2, 1>>), W(<<3>>))>>, <<2, 1>>, <<3>>, {"x", "w"}),
             OnXY(NoGradientOf(X(Square), Y(Square)), Square, Square, {}),
             OnXY(<<forge!Where(forge!Greater(X(Square), Whole(0)), X(Square), Y(<<1, 3>>))>>,
                  Square, <<1, 3>>, {}),
             \* the output of an op is unsqueezed to the rank of the other operand
             OnXY(<<forge!Add(forge!Exp(X(<<3>>)), Y(Square))>>, <<3>>, Square, {"y"}),
             \* the gradient of an activation has a leading dimension more
             OnXY(<<forge!Multiply(X(<<3>>), Y(Square))>>, <<3>>, Square, {"x"})>>

-----------------------------------------------------------------------------
MoveCalls == <<
    OnX(<<forge!Transpose(X(Cube), 1, -1), forge!Transpose(X(Cube), 0, 2)>>, Cube, {"x"}),
    OnX(<<forge!Reshape(X(Square), <<-1, 2>>), forge!Exp(forge!Reshape(X(Square), <<1, 2, 3>>))>>,
        Square, {"x"}),
    OnX(<<forge!Reshape(forge!Exp(X(Square)), Square),
          forge!Squeeze(forge!Unsqueeze(X(Square), 1), 1)>>, Square, {"x"}),
    \* a reshape that only drops a leading one
    LET flat == forge!Reshape(forge!Exp(X(<<1, 3>>)), <<3>>)
    IN  OnX(<<flat, forge!Sine(flat)>>, <<1, 3>>, {"x"}),
    OnX(<<forge!RepeatInterleave(X(Square), 2, 0)>>, Square, {"x"}),
    OnXY(<<forge!Multiply(forge!Broadcast(X(<<1, 3>>), -2, 2), Y(Square))>>, <<1, 3>>, Square, {"x"}),
    OnX(<<forge!Repeat(X(Square), <<2, 1, 2>>)>>, Square, {}),
    OnX(<<forge!Repeat(X(<<1, 3>>), <<2, 1>>)>>, <<1, 3>>, {}),
    OnXY(<<forge!Concatenate(<<X(Square), Y(<<2, 2>>)>>, -1), forge!Concatenate(<<X(Square)>>, 0)>>,
         Square, <<2, 2>>, {"x", "y"}),
    OnXY(<<forge!Stack(<<X(Square), Y(Square)>>, -1)>>, Square, Square, {"x", "y"}),
    Checks(OnX(<<forge!IndexOp(X(<<2, 5>>), -1, 1, <<-1>>, 1), forge!IndexOp(X(<<2, 5>>), -1, -2, <<5>>, 1)>>,
               <<2, 5>>, {"x"}),
           <<SliceOf(1, 1, 4), SliceOf(1, 3, 5)>>),
    OnX(<<forge!IndexOp(X(<<2, 5>>), 1, 0, <<5>>, 2)>>, <<2, 5>>, {}),
    Checks(OnX(<<forge!IndexOp(X(<<1, 5>>), 0, -1, <<-9>>, -1), forge!IndexOp(X(<<1, 5>>), 1, 2, <<>>, 1)>>,
               <<1, 5>>, {}),
           <<SliceOf(0, 0, 1), SliceOf(1, 2, 3)>>),
    OnX(<<forge!Select(X(<<2, 6>>), 1, <<1, 2>>, 3)>>, <<2, 6>>, {}),
    Checks(OnX(<<forge!Select(X(<<2, 6>>), -1, <<4>>, 0)>>, <<2, 6>>, {}),
           <<SliceOf(1, 4, 5)>>),
    OnX(<<forge!ConstantPad(X(Square), <<0, 1, 2, 0>>, Num(4))>>, Square, {"x"}),
    OnX(<<forge!PixelShuffle(X(<<1, 4, 2, 1>>), 2)>>, <<1, 4, 2, 1>>, {"x"}),
    Call(<<forge!Embedding(X(<<1, 4>>), W(<<3, 2>>))>>,
         [x |-> Counting(<<1, 4>>, 3), w |-> Data(<<3, 2>>, 8)], {"w"}),
    Call(<<forge!AdvIndex(Y(<<3, 2>>), X(<<4>>), -2)>>,
         [x |-> Counting(<<4>>, 3), y |-> Data(<<3, 2>>, 8)], {}),
    Call(<<forge!AdvIndex(Y(<<2, 3, 2>>), X(<<2>>), 1)>>,
         [x |-> Counting(<<2>>, 3), y |-> Data(<<2, 3, 2>>, 8)], {}),
    OnX(<<forge!Pad(X(Square), <<1, 1, 0, 1>>, "constant", Num(4), FALSE),
          forge!Pad(X(Square), <<1, 1, 0, 1>>, "replicate", Num(4), FALSE),
          forge!Pad(X(Square), <<1, 1, 0, 1>>, "reflect", Num(4), FALSE)>>, Square, {}),
    \* one place of each dimension of a reshape that splits one
    LET split(x) == forge!Reshape(x, <<2, 2, 3>>)
        one(x, i) == forge!Reshape(forge!IndexOp(split(x), 1, i, <<i + 1>>, 1), Square)
    IN  OnX(<<one(X(<<2, 6>>), 0), one(X(<<2, 6>>), 1)>>, <<2, 6>>, {"x"}),
    \* into a cache, that is read by another op before it is written to
    Call(<<forge!Sine(X(<<1, 1, 3, 2>>)),
           forge!Exp(forge!IndexCopy(X(<<1, 1, 3, 2>>), Y(<<2>>), W(<<1, 1, 2, 2>>), -2))>>,
         [x |-> Data(<<1, 1, 3, 2>>, 3), y |-> Counting(<<2>>, 3), w |-> Data(<<1, 1, 2, 2>>, 8)], {}),
    \* into a cache
    Call(<<forge!IndexCopy(X(<<1, 1, 3, 2>>), Y(<<2>>), W(<<1, 1, 2, 2>>), -2)>>,
         [x |-> Data(<<1, 1, 3, 2>>, 3), y |-> Counting(<<2>>, 3), w |-> Data(<<1, 1, 2, 2>>, 8)], {}),
    Call(<<forge!IndexCopy(X(<<1, 1, 3, 2>>), Y(<<1>>), W(<<1, 1, 1, 2>>), 2)>>,
         [x |-> Data(<<1, 1, 3, 2>>, 3), y |-> Full(<<1>>, Num(2)), w |-> Data(<<1, 1, 1, 2>>, 8)],
         {})
    >>

-----------------------------------------------------------------------------
ReducedOf(x, dims, keep) ==
    <<forge!ReduceSum(x, dims, keep), forge!ReduceAvg(x, dims, keep), forge!ReduceMax(x, dims, keep)>>
Layernorm(x, w, b) == forge!Layernorm(x, w, b, -1, Num(1))
ReduceCalls ==
    [k \in 1..3 |-> OnX(<<ReducedOf(X(Cube), <<-1>>, TRUE)[k], ReducedOf(X(Cube), <<1>>, FALSE)[k]>>,
                        Cube, {"x"})]
    \o <<OnX(<<forge!ReduceSum(forge!Exp(X(Cube)), <<0>>, FALSE), forge!ReduceAvg(X(Cube), <<0>>, TRUE)>>,
             Cube, {"x"}),
         OnX(<<forge!Argmax(X(Square), -1, FALSE), forge!Argmax(X(Square), 0, TRUE)>>, Square, {}),
         OnX(<<forge!Softmax(X(Square), -1)>>, Square, {"x"}),
         OnX(<<forge!LogSoftmax(X(Square), -1)>>, Square, {"x"}),
         OnXY(<<forge!Matmul(X(Square), Y(<<3, 2>>), <<>>)>>, Square, <<3, 2>>, {"x", "y"}),
         OnXW(<<forge!Linear(X(<<2, 1, 3>>), W(<<2, 3, 2>>), FALSE)>>, <<2, 1, 3>>, <<2, 3, 2>>, {"x", "w"}),
         Call(<<Layernorm(X(<<2, 2>>), Y(<<2>>), W(<<2>>))>>,
              [x |-> Data(<<2, 2>>, 3), y |-> Data(<<2>>, 4), w |-> Data(<<2>>, 8)], {"x", "w"}),
         Call(<<forge!Batchnorm(X(<<1, 2, 2, 1>>), Y(<<2>>), W(<<2>>), Y(<<2>>), W(<<2>>), Num(1))>>,
              [x |-> Data(<<1, 2, 2, 1>>, 3), y |-> Data(<<2>>, 4), w |-> Data(<<2>>, 8)], {})>>

-----------------------------------------------------------------------------
Conv(x, w, bias, stride, padding, groups, last) ==
    forge!Conv2d(x, w, bias, stride, padding, <<1>>, groups, last)

WindowCalls == <<
    OnXW(<<Conv(X(Image3), W(<<2, 2, 2, 2>>), <<>>, <<1, 2>>, <<1, 0, 0, 1>>, 1, FALSE)>>,
         Image3, <<2, 2, 2, 2>>, {}),
    OnXW(<<Conv(X(<<1, 3, 4, 2>>), W(<<2, 1, 2, 2>>), <<>>, <<1>>, <<0>>, 2, TRUE)>>,
         <<1, 3, 4, 2>>, <<2, 1, 2, 2>>, {}),
    \* with a bias: of rank one, and added with a broadcast
    Call(<<Conv(X(Image3), W(<<2, 2, 2, 2>>), <<Y(<<2>>)>>, <<1>>, <<0>>, 1, FALSE)>>,
         [x |-> Data(Image3, 3), w |-> Data(<<2, 2, 2, 2>>, 8), y |-> Data(<<2>>, 5)], {}),
    Call(<<forge!Add(Conv(X(Image3), W(<<3, 2, 2, 2>>), <<>>, <<1>>, <<0>>, 1, FALSE), Y(<<1, 3, 1, 1>>))>>,
         [x |-> Data(Image3, 3), w |-> Data(<<3, 2, 2, 2>>, 8), y |-> Data(<<1, 3, 1, 1>>, 5)], {}),
    \* the image keeps its size
    Checks(OnXW(<<forge!Conv2dModule(X(<<1, 1, 2, 3>>), W(<<1, 1, 3, 3>>), <<>>, <<1>>, <<>>, <<1>>, 1, FALSE)>>,
                <<1, 1, 2, 3>>, <<1, 1, 3, 3>>, {}),
           <<[fn |-> "conv2d", reduction |-> "none", padding |-> <<1, 1, 1, 1>>]>>),
    OnX(<<forge!MaxPool2dModule(X(Image3), <<2>>, <<1, 2>>, <<0>>, <<1>>, FALSE)>>, Image3, {}),
    OnX(<<forge!AvgPool2dModule(X(Image3), <<2>>, <<1, 2>>, <<0>>, FALSE, TRUE),
          forge!AvgPool2dModule(X(Image3), <<3, 4>>, <<3, 4>>, <<0>>, FALSE, TRUE)>>, Image3, {}),
    OnX(<<forge!AvgPool2d(X(<<1, 2, 2, 1>>), <<2>>, <<1>>, <<1>>, FALSE, FALSE, TRUE),
          forge!AvgPool2d(X(<<1, 2, 2, 1>>), <<2, 2>>, <<1>>, <<1, 1, 1, 1>>, FALSE, TRUE, TRUE)>>,
        <<1, 2, 2, 1>>, {}),
    \* windows that leave places out, at borders that do not count
    OnX(<<forge!AvgPool2d(X(<<1, 1, 4, 4>>), <<3>>, <<2>>, <<1>>, FALSE, FALSE, FALSE),
          forge!AvgPool2d(X(<<1, 1, 4, 4>>), <<3, 2>>, <<2, 3>>, <<1>>, FALSE, FALSE, FALSE)>>,
        <<1, 1, 4, 4>>, {}),
    OnX(<<forge!AvgPool2d(X(<<1, 2, 4, 1>>), <<2>>, <<2, 3>>, <<1>>, FALSE, FALSE, TRUE)>>,
        <<1, 2, 4, 1>>, {}),
    \* rounded up, where nothing is left over
    OnX(<<forge!AvgPool2d(X(<<1, 1, 4, 4>>), <<2>>, <<2>>, <<0>>, TRUE, TRUE, FALSE)>>,
        <<1, 1, 4, 4>>, {}),
    OnX(<<forge!AvgPool2d(X(<<1, 1, 5, 3>>), <<3>>, <<2>>, <<1>>, TRUE, FALSE, FALSE)>>,
        <<1, 1, 5, 3>>, {}),
    OnX(<<forge!AvgPool1d(X(Cube), <<3>>, <<3>>, <<0>>, FALSE, TRUE)>>, Cube, {}),
    OnX(<<forge!Upsample2d(X(<<1, 2, 1, 2>>), <<2, 1>>, "nearest", TRUE)>>, <<1, 2, 1, 2>>, {}),
    OnX(<<forge!Resize1d(X(<<1, 1, 3>>), 6, "nearest", FALSE, FALSE),
          forge!Resize1d(X(<<1, 1, 3>>), 2, "nearest", FALSE, FALSE),
          forge!Resize1d(X(<<1, 1, 3>>), 3, "linear", FALSE, FALSE)>>, <<1, 1, 3>>, {}),
    OnX(<<forge!Resize2d(X(<<1, 1, 2, 2>>), <<4, 2>>, "nearest", FALSE, FALSE),
          forge!Resize2d(X(<<1, 1, 2, 2>>), <<1, 3>>, "nearest", FALSE, FALSE),
          forge!Resize2d(X(<<1, 1, 2, 2>>), <<2, 2>>, "nearest", FALSE, FALSE)>>, <<1, 1, 2, 2>>, {})
    >>

-----------------------------------------------------------------------------
\* Losses, trained but for those whose gradient goes through a comparison or a minimum.
Pairs == <<2, 2>>
Loss(shape, loss, trained, fn, reduction) ==
    Checks(OnXY(<<loss>>, shape, shape, trained), <<[fn |-> fn, reduction |-> reduction]>>)
HuberLoss(shape, reduction) ==
    Checks(OnXY(<<forge!HuberLoss(X(shape), Y(shape), Num(9), reduction)>>, shape, shape, {}),
           <<[fn |-> "huber_loss", delta |-> Num(9), reduction |-> reduction]>>)
TripletLoss(swap, trained) ==
    Checks(Call(<<forge!TripletMarginLoss(X(Pairs), Y(Pairs), W(Pairs), Num(4), "mean", swap, Num(2))>>,
                [x |-> Data(Pairs, 3), y |-> Data(Pairs, 8), w |-> Data(Pairs, 5)], trained),
           <<[fn |-> "triplet_margin_loss", margin |-> Num(4), eps |-> Num(2), swap |-> swap,
              reduction |-> "mean"]>>)
LossCalls == <<
    Loss(Pairs, forge!CrossEntropyLoss(X(Pairs), Y(Pairs)), {"x"}, "cross_entropy", "mean"),
    Loss(Pairs, forge!L1Loss(X(Pairs), Y(Pairs), "mean"), {"x"}, "l1_loss", "mean"),
    Loss(Pairs, forge!MSELoss(X(Pairs), Y(Pairs), "sum"), {"x", "y"}, "mse_loss", "sum"),
    Loss(Pairs, forge!NLLLoss(X(Pairs), Y(Pairs), "mean"), {"x"}, "nll_loss", "mean"),
    Loss(Pairs, forge!KLDivLoss(X(Pairs), Y(Pairs), "mean"), {"x", "y"}, "kl_div", "mean"),
    Loss(Pairs, forge!BCELoss(X(Pairs), Y(Pairs), "mean"), {"x"}, "binary_cross_entropy", "mean"),
    Loss(<<3>>, forge!BCEWithLogitsLoss(X(<<3>>), Y(<<3>>), "sum"), {"x"},
         "binary_cross_entropy_with_logits", "sum")>>
    \o [i \in 1..2 |-> HuberLoss(<<Pairs, <<3>>>>[i], <<"mean", "none">>[i])]
    \o [i \in 1..2 |-> TripletLoss(i = 2, IF i = 1 THEN {"x"} ELSE {})]

-----------------------------------------------------------------------------
\* A network of two linear layers.
Layer(x, w, b) == forge!Matmul(x, w, <<b>>)
NetworkCalls == <<
    Call(<<forge!Softmax(Layer(forge!Relu(Layer(X(Square), W(<<3, 2>>), Y(<<2>>))),
                               forge!Transpose(W(<<3, 2>>), 0, 1), Input("b", <<1, 3>>)), -1)>>,
         [x |-> Data(Square, 3), w |-> Data(<<3, 2>>, 8), y |-> Data(<<2>>, 2),
          b |-> Data(<<1, 3>>, 7)], {"w", "b"}),
    OnXW(<<forge!Multiply(X(Square), X(Square)), forge!Add(forge!Exp(X(Square)), W(Square))>>,
         Square, Square, {"x", "w"})
    >>

\* A reshape that splits the last dimension, of which its users pick one place of the first
\* each; in graphs of several shapes.
SplitAtFront(s, t) ==
    LET split == forge!Reshape(X(s), t)
        one(i) == forge!Reshape(forge!IndexOp(split, 0, i, <<i + 1>>, 1), Tail(t))
    IN  OnX(<<one(0), one(1)>>, s, {})
SplitAtFrontCalls ==
    <<SplitAtFront(<<2, 4>>, <<2, 2, 2>>), SplitAtFront(<<2, 6>>, <<2, 2, 3>>),
      SplitAtFront(<<2, 12>>, <<2, 2, 6>>)>>

\* Graphs with parameters that the host computes with: alone, together, forked, broadcast.
Parameters(alone) == [alone EXCEPT !.parameters = {"w", "y"}]
Frozen(outputs, trained) ==
    Parameters(Call(outputs, [x |-> Data(Square, 3), y |-> Data(<<1, 3>>, 5), w |-> Data(Square, 8)],
                    trained))
ConstEvalCalls ==
    LET x == X(Square)
        w == W(Square)
        y == Y(<<1, 3>>)
    IN  <<Frozen(<<forge!Add(x, forge!Exp(forge!Exp(w))), forge!Multiply(x, y)>>, {}),
          Frozen(<<forge!Add(x, forge!Multiply(w, forge!Exp(y)))>>, {}),
          Frozen(<<forge!Add(forge!Exp(w), forge!Multiply(x, forge!Sine(w)))>>, {"x"}),
          Frozen(<<forge!Add(forge!Transpose(forge!Exp(w), 0, 1), forge!Transpose(forge!Multiply(w, w), 0, 1))>>, {}),
          Frozen(<<forge!Add(x, forge!Multiply(y, w)), forge!Exp(y)>>, {}),
          Frozen(<<forge!Add(x, forge!Broadcast(forge!Exp(y), 0, 2)), forge!Exp(w)>>, {"w"}),
          Frozen(<<forge!Add(forge!Transpose(x, 0, 1), forge!Transpose(w, 0, 1))>>, {"w"})>>

\* Trained by an optimizer on the device.
SGD == [type |-> "sgd", lr |-> Num(3), half |-> {}]
AdamOf(adam_w, bias_correction, weight_decay) ==
    [type |-> "adam", lr |-> Num(3), beta1 |-> Ratio(9, 10), beta2 |-> Ratio(99, 100),
     epsilon |-> Ratio(1, 7), weight_decay |-> weight_decay, bias_correction |-> bias_correction,
     adam_w |-> adam_w, half |-> {}]
InHalf(optimizer, half) == [optimizer EXCEPT !.half = half]
Trained2(alone, optimizer) == [alone EXCEPT !.optimizer = optimizer]
OptimizerCalls ==
    LET product == OnXW(<<forge!Multiply(X(Square), W(<<1, 3>>))>>, Square, <<1, 3>>, {"w"})
        layers == [Frozen(<<forge!Add(forge!Multiply(X(Square), W(Square)), Y(<<1, 3>>))>>, {"w", "y"})
                      EXCEPT !.inputs.x = Data(Square, 5)]
    IN  <<Trained2(layers, SGD),
          Trained2(layers, AdamOf(FALSE, TRUE, Num(0))), Trained2(product, AdamOf(FALSE, TRUE, Num(2))),
          Trained2(product, AdamOf(TRUE, TRUE, Num(2))), Trained2(product, AdamOf(FALSE, FALSE, Num(2))),
          Trained2(product, AdamOf(TRUE, FALSE, Num(2))),
          Trained2(product, InHalf(SGD, {"gradient"})),
          Trained2(layers, InHalf(SGD, {"parameter", "gradient"})),
          Trained2(product, InHalf(AdamOf(FALSE, TRUE, Num(2)), {"parameter", "gradient"})),
          Trained2(product, InHalf(AdamOf(TRUE, FALSE, Num(2)), {"parameter"}))>>

AllCalls == UnaryCalls \o BinaryCalls \o MoveCalls \o ReduceCalls \o WindowCalls \o LossCalls
            \o NetworkCalls \o ConstEvalCalls \o OptimizerCalls

=============================================================================
