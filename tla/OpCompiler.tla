----------------------------- MODULE OpCompiler -----------------------------
(***************************************************************************)
(* The compilation of a graph of ops, from the graph of the module to the  *)
(* one that is lowered to MLIR (forge/csrc/forge_passes.cpp, in the order  *)
(* of forge/forge/compile.py): passes, epochs of decompositions and, in    *)
(* training, the gradients.  One step is one node of one pass.             *)
(*                                                                         *)
(* The stages are those of the default configuration (forge/config.py):    *)
(* enable_optimization_passes is off, enable_consteval is on.              *)
(***************************************************************************)
EXTENDS Lowering, Optimizers, Torch

CONSTANT
    Calls   \* what is compiled: a sequence of records with the outputs of a graph, the
            \* tensors of its inputs, the inputs to train, which of them are parameters, the
            \* optimizer of these and, if there are, the functions of torch that compute the
            \* outputs

ASSUME CallsAssumption ==
    \A i \in DOMAIN Calls :
        /\ DOMAIN Calls[i] = {"outputs", "inputs", "trained", "parameters", "optimizer", "torch"}
        /\ Calls[i].trained \subseteq DOMAIN Calls[i].inputs

VARIABLES
    call,       \* what is compiled, one of Calls
    epoch,      \* where the compilation is
    graph,      \* its outputs; a gradient is named as its input is, a result of the optimizer
                \* as the parameter and its state are
    todo,       \* the nodes the epoch has still to visit
    removed,    \* whether this sweep over the nodes has replaced one
    inserted,   \* what nodes were replaced by in this epoch
    gradients   \* fwd_to_out_gradient_map: a sequence of <<node, gradient>>

vars == <<call, epoch, graph, todo, removed, inserted, gradients>>

Passing == {"split", "fuse_pad", "unsqueeze", "fuse_bias", "bypass"}
Decomposing == {"initial", "post_autograd"}
Epochs == Passing \cup Decomposing \cup {"autograd", "consteval", "pre_lowering", "done", "rejected"}

Outputs(c) == [i \in DOMAIN c.outputs |-> Output("out" \o ToString(i), c.outputs[i])]
Training == call.trained # {}

IsOneOf(calls) == \E i \in DOMAIN calls : call = calls[i]

Init ==
    /\ IsOneOf(Calls)
    /\ epoch = "split"
    /\ graph = Outputs(call)
    /\ todo = <<>>
    /\ removed = FALSE
    /\ inserted = {}
    /\ gradients = <<>>

Reject ==
    /\ epoch' = "rejected"
    /\ UNCHANGED <<call, graph, todo, removed, inserted, gradients>>

-----------------------------------------------------------------------------
\* requires_grad: of an input to train, and of all that is computed from one.
RECURSIVE RequiresGrad(_)
RequiresGrad(t) ==
    IF t.op = "input" THEN t.attrs.name \in call.trained
    ELSE \E i \in DOMAIN t.ins : RequiresGrad(t.ins[i])

\* The gradient inputs of the outputs that require one.
LossGradients(g) ==
    LET out == SelectSeq(g, RequiresGrad)
    IN  [i \in DOMAIN out |-> <<Producer(out[i].ins[1]),
                                Input("gradient_" \o out[i].attrs.name, out[i].shape)>>]

BackwardOrder(g) ==
    Reverse(SelectSeq(TopologicalSort(g), LAMBDA t : t.op \notin {"output", "tm"}))

\* The inputs run_consteval_graph_pass looks at, the last one first.
NeedsVisit(g) ==
    Reverse(SelectSeq(TopologicalSort(g), LAMBDA t : IsConstant(t, call.parameters)))

EnterRemembering(e, g) ==
    /\ epoch' = e
    /\ graph' = g
    /\ todo' = IF e \in Decomposing THEN OpNodes(g) ELSE <<>>
    /\ removed' = FALSE
    /\ gradients' = <<>>
    /\ UNCHANGED <<call, inserted>>

Enter(e, g) ==
    /\ epoch' = e
    /\ graph' = g
    /\ todo' = CASE e \in Decomposing -> OpNodes(g)
                 [] e = "autograd" -> BackwardOrder(g)
                 [] e = "consteval" -> NeedsVisit(g)
                 [] OTHER -> <<>>
    /\ removed' = FALSE
    /\ inserted' = {}
    /\ gradients' = IF e = "autograd" THEN LossGradients(g) ELSE <<>>
    /\ UNCHANGED call

-----------------------------------------------------------------------------
\* A pass over the graph: the first node it matches, until it matches none.
RunPass(pass, Matches(_, _), Rewritten(_, _), next) ==
    /\ epoch = pass
    /\ LET found == SelectSeq(OpNodes(graph), LAMBDA z : Matches(graph, z))
       IN  IF found = <<>> THEN Enter(next, graph)
           ELSE \E new \in {Rewritten(graph, found[1])} :
                   IF Unbuildable(new) THEN Reject
                   ELSE /\ graph' = new
                        /\ UNCHANGED <<call, epoch, todo, removed, inserted, gradients>>

DecomposeReshapeSplit == RunPass("split", SplitMatches, SplitRewritten, "fuse_pad")
FusePadConv2d == RunPass("fuse_pad", PadMatches, PadRewritten, "unsqueeze")
ExplicateUnsqueeze == RunPass("unsqueeze", UnsqueezeMatches, UnsqueezeRewritten, "fuse_bias")
FuseConv2dBias == RunPass("fuse_bias", BiasMatches, BiasRewritten, "initial")
BypassNopTms ==
    RunPass("bypass", NopMatches, NopRewritten, IF Training THEN "autograd" ELSE "post_autograd")

\* decompose_tt_forge_graph: the next node of the sweep.
Decomposed(z) ==
    CASE epoch = "initial" -> DecomposeInitial(z)
      [] epoch = "post_autograd" -> DecomposePostAutograd(z)

\* replace_with: the users of z read new.
ReplaceWith(z, new) ==
    LET In(t) == Substituted(t, z, new)
    IN  IF new = z
        THEN /\ todo' = Tail(todo)
             /\ UNCHANGED <<call, epoch, graph, removed, inserted, gradients>>
        ELSE IF Broken(new) THEN Reject
        ELSE /\ graph' = Through(In, graph)
             /\ todo' = Through(In, Tail(todo))
             /\ removed' = TRUE
             /\ inserted' = {In(t) : t \in inserted} \cup {Producer(new)}
             /\ UNCHANGED <<call, epoch, gradients>>

DecomposeNode ==
    /\ epoch \in Decomposing /\ todo # <<>>
    /\ ReplaceWith(Head(todo), Decomposed(Head(todo)))

\* Another sweep if this one replaced a node, or the ranks the users read.
NextSweep ==
    /\ epoch \in Decomposing /\ todo = <<>> /\ removed
    /\ todo' = OpNodes(graph)
    /\ removed' = FALSE
    /\ UNCHANGED <<call, epoch, graph, inserted, gradients>>

AfterSweeps == IF epoch = "initial" THEN "bypass" ELSE "consteval"

HandleChangeRank ==
    /\ epoch \in Decomposing /\ todo = <<>> /\ ~removed
    /\ \E new \in {Through(LAMBDA t : RanksChanged(t, inserted), graph)} :
          IF Unbuildable(new) THEN Reject ELSE Enter(AfterSweeps, new)

-----------------------------------------------------------------------------
\* create_backward_graph

\* combine_incoming_gradients
Combined(gs) == FoldLeft(Add, Head(gs), Tail(gs))

\* Shape::broadcast_dims: where s is smaller than r, in dimensions counted from the last one.
FromLast(s, i) == s[Len(s) + 1 - i]
BroadcastDims(s, r) ==
    IF Size(s) = Size(r) THEN {}
    ELSE {i \in 1..Smaller(Len(s), Len(r)) : FromLast(s, i) < FromLast(r, i)}

\* The gradient g of z, broadcast to its shape where it has fewer elements.
BroadcastOut(g, z) ==
    LET low == BroadcastDims(g.shape, z.shape)
        tm(i) == [dim |-> -i, size |-> FromLast(z.shape, i)]
        tms == SetToSortSeq(low, <)
    IN  IF low = {} THEN g
        ELSE Asserted(\A i \in low : FromLast(g.shape, i) = 1,
                      Create("nop", None, <<Rewrapped(g, [k \in DOMAIN tms |-> tm(tms[k])])>>,
                             Announce(z.shape, {})))

\* The gradient of operand i of z, added up over what the edge broadcasts.
UnsummedGradient(z, i, g) == Backward(i - 1, z, g)
OperandGradient(z, i, g) ==
    FoldLeft(LAMBDA t, b : ReduceSum(t, <<b.dim>>, TRUE), Backward(i - 1, z, g),
             Broadcasts(z.ins[i]))

\* What is written out as the gradient of input z: of an activation, in its rank.
InputGradient(z, g) ==
    IF z.attrs.name \in call.parameters \/ Len(z.shape) = Len(g.shape) THEN g
    ELSE Asserted(SameShape(z.shape, g.shape), Reshape(g, z.shape))

Propagate(back) ==
    IF \E k \in DOMAIN back : Broken(back[k][2]) THEN Reject
    ELSE /\ gradients' = gradients \o back
         /\ todo' = Tail(todo)
         /\ UNCHANGED <<call, epoch, graph, removed, inserted>>

Differentiate ==
    /\ epoch = "autograd" /\ todo # <<>>
    /\ LET z == Head(todo)
           incoming == SelectSeq(gradients, LAMBDA p : p[1] = z)
           g == BroadcastOut(Combined([i \in DOMAIN incoming |-> incoming[i][2]]), z)
           operands == SelectSeq([i \in DOMAIN z.ins |-> i], LAMBDA i : RequiresGrad(z.ins[i]))
       IN  IF incoming = <<>> \/ ~RequiresGrad(z)
           THEN /\ todo' = Tail(todo)
                /\ UNCHANGED <<call, epoch, graph, removed, inserted, gradients>>
           ELSE IF ~Built(g) THEN Reject
           ELSE IF z.op = "input"
           THEN \E written \in {InputGradient(z, g)} :
                IF ~Built(written) THEN Reject
                ELSE /\ graph' = Append(graph, Output(z.attrs.name, written))
                     /\ todo' = Tail(todo)
                     /\ UNCHANGED <<call, epoch, removed, inserted, gradients>>
           ELSE Propagate([k \in DOMAIN operands |->
                    <<Producer(z.ins[operands[k]]), OperandGradient(z, operands[k], g)>>])

\* create_optimizer_graph: each trained parameter is updated from the queue that its gradient
\* is written to.
Optimizing == Training /\ call.optimizer.type # "none"
Optimized == IF Optimizing THEN call.trained \cap call.parameters ELSE {}
GradientQueue(n) == "grad_acc_" \o n
QueueOf(x) == Input(GradientQueue(x.attrs.name), x.shape)
Updates(x) ==
    LET update == Trace(call.optimizer, x, QueueOf(x))
        keys == SetToSeq(DOMAIN update)
    IN  [k \in DOMAIN keys |-> Output(StateName(x.attrs.name, keys[k]), update[keys[k]])]

OptimizerOutputs(g) ==
    LET parameters == SelectSeq(TopologicalSort(g),
                                LAMBDA t : t.op = "input" /\ t.attrs.name \in Optimized)
    IN  FlattenSeq([i \in DOMAIN parameters |-> Updates(parameters[i])])

EndAutograd ==
    /\ epoch = "autograd" /\ todo = <<>>
    /\ \E updates \in {OptimizerOutputs(graph)} :
          IF \/ \E n \in Optimized : \A i \in DOMAIN graph : graph[i].attrs.name # n
             \/ Unbuildable(updates)
          THEN Reject
          ELSE Enter("post_autograd", graph \o updates)

-----------------------------------------------------------------------------
\* run_consteval_graph_pass: the input to visit next absorbs the op that reads it, with the
\* other inputs of that op, or is split into one input for each op that reads it.
Grad == IF Training THEN call.trained ELSE {}
Unforked(x) == AbsorbsUnary(graph, x, call.parameters, Grad)
Movable(x) == Absorbs(graph, x, call.parameters, Grad)

Visiting == epoch = "consteval" /\ todo # <<>>
Visited(g, rest) ==
    /\ graph' = g
    /\ todo' = rest
    /\ UNCHANGED <<call, epoch, removed, inserted, gradients>>

Reader(x) == CHOOSE u \in Users(graph, x) : TRUE
Absorb(u, rest) ==
    LET In(t) == Substituted(t, u, Host(u))
    IN  Visited(Through(In, graph), <<Host(u)>> \o rest)

AbsorbUnary == Visiting /\ Unforked(Head(todo)) /\ Absorb(Reader(Head(todo)), Tail(todo))

AbsorbWithOperands ==
    /\ Visiting /\ ~Unforked(Head(todo)) /\ Movable(Head(todo)) /\ ~Forks(graph, Head(todo))
    /\ LET u == Reader(Head(todo))
       IN  Absorb(u, SelectSeq(Tail(todo), LAMBDA t : t \notin Operands(u)))

ForkInput ==
    /\ Visiting /\ Movable(Head(todo)) /\ Forks(graph, Head(todo))
    /\ LET users == SetToSeq(Users(graph, Head(todo)))
           clones == [k \in DOMAIN users |-> Clone(Head(todo), k)]
       IN  Visited(Through(LAMBDA t : Split(t, Head(todo), users), graph),
                   Reverse(clones) \o Tail(todo))

KeepInput ==
    /\ Visiting /\ ~Unforked(Head(todo)) /\ ~Movable(Head(todo))
    /\ Visited(graph, Tail(todo))

EndConstEval == epoch = "consteval" /\ todo = <<>> /\ Enter("pre_lowering", graph)

PreLower ==
    /\ epoch = "pre_lowering"
    /\ \E new \in {PreLowered(graph)} : IF Unbuildable(new) THEN Reject ELSE Enter("done", new)

Next ==
    \/ DecomposeReshapeSplit
    \/ FusePadConv2d
    \/ ExplicateUnsqueeze
    \/ FuseConv2dBias
    \/ DecomposeNode
    \/ NextSweep
    \/ HandleChangeRank
    \/ BypassNopTms
    \/ Differentiate
    \/ EndAutograd
    \/ AbsorbUnary
    \/ AbsorbWithOperands
    \/ ForkInput
    \/ KeepInput
    \/ EndConstEval
    \/ PreLower

\* The compiler is one thread that runs on: weak fairness of Next, which is enabled until
\* the compilation has ended.
Ended == epoch \in {"done", "rejected"}
Fairness == []<>Ended \/ []<><<Next>>_vars
Spec == Init /\ [][Next]_vars /\ Fairness

-----------------------------------------------------------------------------
\* Bound: steps of the optimizer.  What it reads in step k beside parameter n.
NumSteps == 2
GradientIn(n, k) ==
    Make(call.inputs[n].shape, LAMBDA idx : Num(7 * Flat(call.inputs[n].shape, idx) - 4 * k))
StateOf(n) ==
    LET state == InitialState(call.optimizer, call.inputs[n].shape)
        keys == {StateName(n, key) : key \in DOMAIN state}
    IN  GradientQueue(n) :> GradientIn(n, 1)
        @@ [key \in keys |-> state[CHOOSE k \in DOMAIN state : key = StateName(n, k)]]
AllStates == FoldSet(LAMBDA n, f : f @@ StateOf(n), <<>>, Optimized)

\* What the gradients of the outputs are given.
Seed(s) == Make(s, LAMBDA idx : Num(3 * Flat(s, idx) + 5))
Gradient(i) == Seed(call.outputs[i].shape)
OutputGradients ==
    LET out == DOMAIN call.outputs
        names == [i \in out |-> "gradient_out" \o ToString(i)]
    IN  [n \in {names[i] : i \in out} |-> Gradient(CHOOSE i \in out : names[i] = n)]

\* get_graph_input_mapping: the tensors of the inputs and parameters of the module, of the
\* state of its optimizer and of the gradients of its outputs, by name.
InputMapping == call.inputs @@ AllStates @@ OutputGradients

\* The tensors of the terms ts, and those the module's outputs have.
Values(ts, inputs) == [i \in DOMAIN ts |-> Value(ts[i], inputs)]
Expected == Values(call.outputs, call.inputs)
ForwardOf(g) == SubSeq(g, 1, Len(call.outputs))

\* What the function returns that the outputs ts are lowered to.
Lowered(ts) == Returned(EmitFunction(ts, call.parameters))
Final(t) == IF epoch = "done" THEN Lowered(<<t>>)[1] ELSE t

\* What eval_graph returns: the outputs of the module, and the gradients that are written for
\* the trained inputs of the given names, for parameters and for others.
GraphOutputs == Values(ForwardOf(graph), InputMapping)
Written(names) ==
    FoldLeft(LAMBDA f, t : t.attrs.name :> Value(Final(t), InputMapping) @@ f, <<>>,
             SelectSeq(graph, LAMBDA t : t.attrs.name \in names))
FwdToGradient == Written(call.trained \cap call.parameters)
BwdGradients == Written(call.trained \ call.parameters)

\* The outputs are the expected ones, but for the layout of a bias (see OutputsKept).
Agree(are, expected) ==
    \A i \in DOMAIN expected :
        are[i] = expected[i] \/ (epoch \in {"fuse_bias", "initial"} /\ ~Accepted(are[i]))

\* g is the derivative of the outputs, weighed by their gradients, by input n, which is x.
WeighedSum(ts) == SumOver(DOMAIN ts, LAMBDA j : Weighed(Gradient(j), ts[j]))
IsDerivative(g, x, n) ==
    /\ DOMAIN g.at = DOMAIN x.at
    /\ \A f \in DOMAIN x.at :
          g.at[f] = WeighedSum(Values(call.outputs, [call.inputs EXCEPT ![n] = Seeded(x, f)]))

\* What a run of the optimizer's program loops back: "updated" to the parameter n, the other
\* results to the state of their name.
LoopedBackTo(n, t) == IF t.attrs.name = StateName(n, "updated") THEN n ELSE t.attrs.name
ResultsFor(n, state) ==
    SelectSeq(graph, LAMBDA t : t.attrs.name # n /\ LoopedBackTo(n, t) \in DOMAIN state)
UpdatedParameters(n, state) ==
    FoldLeft(LAMBDA f, t : LoopedBackTo(n, t) :> Value(Final(t), state) @@ f, <<>>,
             ResultsFor(n, state))
RunOptimizer(n, state) == Computed(UpdatedParameters(n, state) @@ state)

\* The parameter n and its state after k runs.
Steps(k) == [i \in 1..k |-> i]
Stepped(n, k) ==
    FoldLeft(LAMBDA state, i : RunOptimizer(n, [state EXCEPT ![GradientQueue(n)] = GradientIn(n, i)]),
             n :> call.inputs[n] @@ StateOf(n), Steps(k))
TorchStepped(n, f, k) ==
    FoldLeft(LAMBDA s, i : TorchStep(call.optimizer, s, GradientIn(n, i).at[f], i),
             [p |-> call.inputs[n].at[f], m |-> Num(0), v |-> Num(0)], Steps(k))

TypeOK ==
    /\ call.trained \subseteq DOMAIN call.inputs
    /\ epoch \in Epochs
    /\ Len(graph) >= Len(call.outputs)
    /\ \A i \in DOMAIN graph : graph[i].op = "output"
    /\ removed \in BOOLEAN
    /\ epoch \in Passing => todo = <<>> /\ inserted = {}
    /\ epoch \notin {"autograd", "rejected"} => gradients = <<>>

\* The graph a module is traced to computes what torch computes for the same op or loss.
TracesAreTorch ==
    epoch = "split" =>
        \A i \in DOMAIN call.torch : Value(call.outputs[i], call.inputs).at = TorchResult(call.torch[i], call.inputs).at

\* No step of the compilation changes what the module computes: after every replaced
\* node the outputs have the tensors of the graph the module was traced to.  (A bias that
\* was fused into a convolution has its layout only from the initial epoch on.)
OutputsKept == epoch # "rejected" => Agree(GraphOutputs, Expected)

\* Nor does what is lowered, whose ops broadcast their operands by themselves and know
\* nothing of the broadcasts on the edges (lower_to_mlir.cpp).
LoweredOutputsKept ==
    epoch = "done" => Agree(Values(Lowered(ForwardOf(graph)), InputMapping), Expected)

\* The gradient of every trained input is there in the end, and it is the derivative
\* of the outputs, weighed by their gradients, in every element of the input.  (It may have
\* leading dimensions of one that the input lacks: a queue reads it into its own shape.)
GradientsAreDerivatives ==
    (Training /\ epoch \in {"consteval", "pre_lowering", "done"}) =>
        \E gradient \in {FwdToGradient @@ BwdGradients} :
            /\ DOMAIN gradient = call.trained
            /\ \A n \in call.trained : IsDerivative(gradient[n], call.inputs[n], n)

\* The shape announced for a node is the one of the tensor it computes, when the graph is
\* lowered: tensors are allocated by it (lower_to_mlir.cpp).
ShapesAreComputed ==
    epoch = "done" =>
        \A t \in ToSet(TopologicalSort(graph)) : Value(t, InputMapping).shape = t.shape

\* Nothing that is computed once, when the module is compiled, depends on a parameter that
\* is trained afterwards: the device would go on with the first value.
RECURSIVE InputsOf(_)
InputsOf(t) == CASE t.op = "input" -> {t.attrs.name}
                 [] t.op = "host" -> InputsOf(t.attrs.graph)
                 [] OTHER -> UNION {InputsOf(t.ins[i]) : i \in DOMAIN t.ins}
HostComputesFrozen ==
    Training =>
        \A t \in ToSet(TopologicalSort(graph)) :
            t.op = "host" => InputsOf(t) \subseteq call.parameters \ call.trained

\* As often as the optimizer's program has run, each time on the state it has left, every
\* parameter has the tensor torch's optimizer gives it for the same gradients; and what is
\* looped back has the data format of the parameter or of the state it replaces, which the
\* next run reads it in.
FormatsAreKept(n) ==
    LET p == Input(n, call.inputs[n].shape)
        halves == Halves(call.optimizer, p, QueueOf(p))
        old(t) == IF LoopedBackTo(n, t) = n THEN p ELSE Input(t.attrs.name, p.shape)
    IN  \A t \in ToSet(ResultsFor(n, StateOf(n) @@ n :> call.inputs[n])) :
            Format(Final(t), halves) = Format(old(t), halves)
UpdatesAreTorch ==
    (Optimizing /\ epoch \in {"consteval", "pre_lowering", "done"}) =>
        \A n \in Optimized :
            /\ FormatsAreKept(n)
            /\ \A k \in 0..NumSteps : \A state \in {Stepped(n, k)} :
                  state[n].at = [f \in DOMAIN call.inputs[n].at |-> TorchStepped(n, f, k).p]

\* Every op that decompositions and gradients put into the graph and that is left at the
\* end has a handler in lower_to_mlir.cpp, and every op the attributes the handler converts.
\* (sharp_mask stands for several ops that have.)
LoweredOpsHaveHandlers ==
    LET own == {t.op : t \in ToSet(OpNodes(call.outputs))}
    IN  epoch = "done" =>
            /\ UnsupportedOps(graph, Lowerable \cup own \cup {"sharp_mask"}) = {}
            /\ \A t \in ToSet(OpNodes(graph)) : Converts(t.op, t.attrs)

\* The graphs of these calls all compile: no decomposition, gradient or change of rank
\* runs into an assertion of the code, and the sweeps come to an end.
Compiles == <>(epoch = "done")

=============================================================================
