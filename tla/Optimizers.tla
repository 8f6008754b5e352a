----------------------------- MODULE Optimizers -----------------------------
(***************************************************************************)
(* The optimizers that run on the device (forge/forge/optimizers.py): the  *)
(* graph that updates a parameter p from its gradient g and from the state *)
(* the optimizer o keeps for p.                                            *)
(***************************************************************************)
EXTENDS Gradients

\* AutogradContext.input and .tensor: a tensor kept in the pool, a constant of p's shape.
StateName(name, key) == name \o "." \o key
State(p, key, shape) == Input(StateName(p.attrs.name, key), shape)
Filled(p, c) == Tensor(Full(p.shape, c))
OneMinus(c) == Minus(Num(1), c)

\* generate_op_trace: the graphs of the new parameter, "updated", and of the new state, which
\* is looped back to its old one after the run.
SGDTrace(p, g) == "updated" :> Subtract(p, Multiply(g, State(p, "lr", <<1>>)))

Decays(o) == Signed(o.weight_decay) > 0
DecayOf(o, p) == Multiply(Filled(p, o.weight_decay), p)

\* beta * average + (1 - beta) * x
Averaged(p, key, beta, x) ==
    Add(Multiply(State(p, key, p.shape), Filled(p, beta)), Multiply(x, Filled(p, OneMinus(beta))))

\* beta ** step, and 1 - beta ** step
BetaPower(p, key, beta) == Multiply(State(p, key, p.shape), Filled(p, beta))
BiasCorrection(p, key, beta) == Subtract(Filled(p, Num(1)), BetaPower(p, key, beta))

\* What Adam loops back.  The powers count the steps for the correction of the bias.
MeansLoopedBack(o, p, means) == means
LoopedBack(o, p, means) ==
    means @@ IF o.bias_correction
             THEN "beta1_pow" :> BetaPower(p, "beta1_pow", o.beta1)
                  @@ "beta2_pow" :> BetaPower(p, "beta2_pow", o.beta2)
             ELSE <<>>

Root(o, p, variance) ==
    IF o.bias_correction
    THEN Multiply(Unary("sqrt", variance),
                  Unary("reciprocal", Unary("sqrt", BiasCorrection(p, "beta2_pow", o.beta2))))
    ELSE Unary("sqrt", variance)
Unbiased(o, p, mean) ==
    IF o.bias_correction
    THEN Multiply(mean, Unary("reciprocal", BiasCorrection(p, "beta1_pow", o.beta1)))
    ELSE mean

AdamUpdate(o, p, mean, variance) ==
    LET step == Multiply(Unbiased(o, p, mean),
                         Unary("reciprocal", Add(Root(o, p, variance), Filled(p, o.epsilon))))
        delta == IF Decays(o) /\ o.adam_w THEN Add(step, DecayOf(o, p)) ELSE step
    IN  "updated" :> Subtract(p, Multiply(delta, State(p, "lr", p.shape)))
        @@ LoopedBack(o, p, "mean" :> mean @@ "variance" :> variance)

AdamGradient(o, p, g) == IF Decays(o) /\ ~o.adam_w THEN Add(g, DecayOf(o, p)) ELSE g
AdamAverages(o, p, g) ==
    AdamUpdate(o, p, Averaged(p, "mean", o.beta1, g),
                     Averaged(p, "variance", o.beta2, Multiply(g, g)))
AdamTrace(o, p, gradient) == AdamAverages(o, p, AdamGradient(o, p, gradient))

-----------------------------------------------------------------------------
\* The data formats: of the parameter and of its gradient, o.half names those of 16 bits; all
\* that the optimizer keeps is Float32.  A node has the format of its first operand
\* (set_output_df_from_operands), a cast the one it casts to.
Halves(o, p, g) == {x \in {p, g} : (x = p /\ "parameter" \in o.half) \/ (x = g /\ "gradient" \in o.half)}

RECURSIVE Format(_, _)
Format(t, halves) ==
    CASE t \in halves -> "Float16_b"
      [] t.op = "cast" -> t.attrs.dtype
      [] t \notin halves /\ t.ins = <<>> -> "Float32"
      [] OTHER -> Format(t.ins[1], halves)

CastTo(x, format) == Create("cast", [dtype |-> format], <<x>>, Announce(x.shape, {}))

\* create_optimizer_op: computed in Float32, from operands that are cast to it.
RECURSIVE InFloat32(_, _)
InFloat32(t, halves) ==
    IF t.ins # <<>> THEN [t EXCEPT !.ins = [i \in DOMAIN @ |-> InFloat32(@[i], halves)]]
    ELSE IF Format(t, halves) = "Float32" THEN t ELSE CastTo(t, "Float32")

\* create_optimizer_graph: the new parameter is cast back to the format of p.
LeftInFloat32(t, p, halves) == t
CastBack(t, p, halves) ==
    IF Format(p, halves) = "Float32" THEN t ELSE CastTo(t, Format(p, halves))

Cast(traced, p, halves) ==
    LET computed == [key \in DOMAIN traced |-> InFloat32(traced[key], halves)]
    IN  [computed EXCEPT !.updated = CastBack(@, p, halves)]
Trace(o, p, g) ==
    Cast(IF o.type = "sgd" THEN SGDTrace(p, g) ELSE AdamTrace(o, p, g), p, Halves(o, p, g))

\* get_param_dict: the state the optimizer starts with for a parameter of the given shape.
InitialState(o, shape) ==
    IF o.type = "sgd" THEN "lr" :> Full(<<1>>, o.lr)
    ELSE "lr" :> Full(shape, o.lr) @@ "mean" :> Full(shape, Num(0)) @@ "variance" :> Full(shape, Num(0))
         @@ IF o.bias_correction
            THEN "beta1_pow" :> Full(shape, Num(1)) @@ "beta2_pow" :> Full(shape, Num(1))
            ELSE <<>>

=============================================================================
