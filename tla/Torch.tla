------------------------------- MODULE Torch -------------------------------
(***************************************************************************)
(* What torch computes for some of its functions (forge/test/mlir compares *)
(* the compiled models with them), from the elements of the operands.  It  *)
(* is the reference for what the ops and losses of ForgeOps and the        *)
(* optimizers of Optimizers are traced to.                                 *)
(***************************************************************************)
EXTENDS EvalWindow

Negative(a) == Minus(Num(0), a)
Absolute(a) == IF Signed(a) < 0 THEN Negative(a) ELSE a
Squared(a) == Times(a, a)
Hinge(a) == IF Signed(a) > 0 THEN a ELSE Num(0)

\* torch.nn.L1Loss ... of a prediction p and a label y.
L1(p, y) == Absolute(Minus(p, y))
MSE(p, y) == Squared(Minus(p, y))
Weight(p, y) == Negative(Times(p, y))
KLDiv(p, y) == Times(y, Minus(Log1(y), p))
BCE(p, y) == Negative(Plus(Times(y, Log1(p)), Times(Minus(Num(1), y), Log1(Minus(Num(1), p)))))
BCEWithLogits(p, y) == BCE(Sigmoid1(p), y)
Huber(p, y, delta) ==
    LET d == L1(p, y)
    IN  IF Signed(d) < Signed(delta) THEN Times(Ratio(1, 2), Squared(d))
        ELSE Times(delta, Minus(d, Times(delta, Ratio(1, 2))))

\* Of the rows of the predictions x and the labels y, where the classes are columns.
RowSums(t) == Summed(t, {Rank(t) - 1})
PairwiseDistance(x, y, eps) ==
    Mapped(Sqrt1, RowSums(Zipped(LAMBDA a, b : Squared(Plus(Minus(a, b), eps)), x, y)))
TripletMargin(x, y, z, margin, eps, swap) ==
    LET far == PairwiseDistance(x, z, eps)
        other == IF swap THEN Zipped(LAMBDA a, b : IF Signed(a) <= Signed(b) THEN a ELSE b, far,
                                     PairwiseDistance(y, z, eps))
                 ELSE far
    IN  Zipped(LAMBDA p, n : Hinge(Plus(Minus(p, n), margin)), PairwiseDistance(x, y, eps), other)

TotalOf(t) == SumOver(DOMAIN t.at, LAMBDA f : t.at[f])
TorchReduced(reduction, t) ==
    CASE reduction = "none" -> t
      [] reduction = "sum" -> Scalar(TotalOf(t))
      [] reduction = "mean" -> Scalar(Over(TotalOf(t), Num(Size(t.shape))))

\* The result of function r of torch for the operands in.
TorchTensor(r, in) ==
    CASE r.fn = "l1_loss" -> Zipped(L1, in.x, in.y)
      [] r.fn = "mse_loss" -> Zipped(MSE, in.x, in.y)
      [] r.fn = "nll_loss" -> RowSums(Zipped(Weight, in.x, in.y))
      [] r.fn = "cross_entropy" -> RowSums(Zipped(Weight, Mapped(Log1, SoftmaxOf(in.x, Rank(in.x) - 1)), in.y))
      [] r.fn = "kl_div" -> Zipped(KLDiv, in.x, in.y)
      [] r.fn = "binary_cross_entropy" -> Zipped(BCE, in.x, in.y)
      [] r.fn = "binary_cross_entropy_with_logits" -> Zipped(BCEWithLogits, in.x, in.y)
      [] r.fn = "huber_loss" -> Zipped(LAMBDA p, y : Huber(p, y, r.delta), in.x, in.y)
      [] r.fn = "triplet_margin_loss" -> TripletMargin(in.x, in.y, in.w, r.margin, r.eps, r.swap)
      [] r.fn = "slice" -> Sliced(in.x, r.dim, r.start, r.end, 1)
      [] r.fn = "conv2d" -> EvalConv2d(in.x, in.w, <<>>, <<1, 1>>, <<1, 1>>, r.padding, 1, FALSE)
TorchResult(r, in) == TorchReduced(r.reduction, TorchTensor(r, in))

-----------------------------------------------------------------------------
\* torch.optim.SGD, Adam and AdamW, which get_pytorch_optimizer names as the equivalent ones,
\* and adam_no_bias_correction: step n from the element s.p of a parameter, whose averages
\* are s.m and s.v.
RECURSIVE ToThe(_, _)
ToThe(n, x) == IF n = 0 THEN Num(1) ELSE Times(x, ToThe(n - 1, x))

TorchSGD(o, s, g) == [s EXCEPT !.p = Minus(@, Times(o.lr, g))]

TorchAdam(o, s, gradient, n) ==
    LET decay == Times(o.weight_decay, s.p)
        g == IF o.adam_w THEN gradient ELSE Plus(gradient, decay)
        p == IF o.adam_w THEN Minus(s.p, Times(o.lr, decay)) ELSE s.p
        Mixed(beta, x, y) == Plus(Times(beta, x), Times(Minus(Num(1), beta), y))
        m == Mixed(o.beta1, s.m, g)
        v == Mixed(o.beta2, s.v, Squared(g))
        Correction(beta) == Minus(Num(1), ToThe(n, beta))
        size == IF o.bias_correction THEN Over(o.lr, Correction(o.beta1)) ELSE o.lr
        root == IF o.bias_correction THEN Over(Sqrt1(v), Sqrt1(Correction(o.beta2))) ELSE Sqrt1(v)
    IN  [p |-> Minus(p, Times(size, Over(m, Plus(root, o.epsilon)))), m |-> m, v |-> v]

TorchStep(o, s, g, n) == IF o.type = "sgd" THEN TorchSGD(o, s, g) ELSE TorchAdam(o, s, g, n)

=============================================================================
