---------------------------- MODULE TrainingStep ----------------------------
(***************************************************************************)
(* One training step of a compiled module, from its trace to the updated   *)
(* weights: the graphs of SplitGraph become programs whose arguments are   *)
(* known by position only (csrc/passes/lower_to_mlir.cpp, csrc/runtime),   *)
(* and CompiledModel (forge/compiled_graph_state.py) calls them with lists *)
(* it puts together from the names of the graphs.                          *)
(***************************************************************************)
EXTENDS SplitGraph

CONSTANTS
    Point,      \* the element of each activation and parameter
    Seed,       \* the gradient torch has for each output of the module
    Rate        \* the learning rate

ASSUME StepAssumption ==
    /\ Point \in [Leaves -> 0..(Modulus - 1)]
    /\ Seed \in [1..MaxModuleOutputs -> 0..(Modulus - 1)]
    /\ Rate \in 0..(Modulus - 1)

VARIABLES
    results,            \* ProgramState.outputs of each program that ran
    gradient_inputs,    \* CompiledModel.gradient_inputs
    pool                \* the element of each persistent tensor

stepVars == <<splitVars, results, gradient_inputs, pool>>

None == -1      \* a gradient not yet given

Init ==
    /\ SplitInit
    /\ results = [p \in {} |-> p]
    /\ gradient_inputs = <<>>
    /\ pool = Point

Forward == programs["Forward"]
Backward == programs["Backward"]
Optimizer == programs["Optimizer"]

Compile == SplitNext /\ UNCHANGED <<results, gradient_inputs, pool>>

-----------------------------------------------------------------------------
\* A program: what the compiler gives it for arguments, and what it gets.

Persistent(g) == OfRole(g, "parameter") \o OfRole(g, "optimizer_parameter")

\* Mutant of Formals: the persistent tensors come first.
PersistentFirst(g) == Persistent(g) \o OrderedModuleInputs(g)

Formals(g) == OrderedModuleInputs(g) \o Persistent(g)

Element(n) == IF n \in Leaves THEN pool[n] ELSE Rate

Actuals(g, activations) ==
    activations \o [i \in DOMAIN Persistent(g) |-> Element(Persistent(g)[i])]

Bound(g, actuals) ==
    [n \in ToSet(Formals(g)) |-> actuals[CHOOSE i \in DOMAIN Formals(g) : Formals(g)[i] = n]]

OutputsOf(g, actuals) ==
    [i \in DOMAIN g.outputs |-> Values(g, Bound(g, actuals))[g.outputs[i]]]

\* run_program refuses another number of arguments than the program declares.
RunProgram(p, activations, to) ==
    LET actuals == Actuals(programs[p], activations)
    IN  IF Len(actuals) = Len(Formals(programs[p]))
        THEN /\ results' = With(results, p, OutputsOf(programs[p], actuals))
             /\ stage' = to
        ELSE /\ stage' = "refused"
             /\ UNCHANGED results

\* Those of a program's results whose output is among the chosen ones.
Picked(g, values, chosen) ==
    LET at == Only([i \in DOMAIN g.outputs |-> i],
                   {i \in DOMAIN g.outputs : g.outputs[i] \in chosen})
    IN  [i \in DOMAIN at |-> values[at[i]]]

-----------------------------------------------------------------------------
\* CompiledModel

GradientInputs == Only(Backward.inputs, ToSet(OfRole(Backward, "gradient")))
Shown == {o \in DOMAIN Forward.node : IsExternal(Forward, o)}
Externals == Only(Forward.outputs, Shown)

Call ==
    /\ stage = "compiled"
    /\ RunProgram("Forward", [i \in DOMAIN Forward.inputs |-> Point[Forward.inputs[i]]],
                  "called")
    /\ gradient_inputs' = [i \in DOMAIN GradientInputs |-> None]
    /\ UNCHANGED <<model, todo, graph, requires_grad, gradients, loopback, programs, pool>>

\* tie_grad_fn(idx, grad), called by the hook of each output the user was given,
\* with the place of the output among them.
LossBackward ==
    /\ stage = "called"
    /\ IF Len(Externals) > Len(gradient_inputs)
       THEN stage' = "too many gradients" /\ UNCHANGED gradient_inputs
       ELSE /\ gradient_inputs' = [i \in DOMAIN gradient_inputs |->
                                     IF i \in DOMAIN Externals THEN Seed[i] ELSE None]
            /\ stage' = "tied"
    /\ UNCHANGED <<model, todo, graph, requires_grad, gradients, loopback, programs,
                   results, pool>>

BackwardActivations ==
    LET again == Only(Forward.inputs, ToSet(Backward.inputs))
    IN  gradient_inputs
        \o Picked(Forward, results["Forward"],
                  {o \in DOMAIN Forward.node : IsIntermediate(Forward, o)})
        \o [i \in DOMAIN again |-> Point[again[i]]]

RunBackward ==
    /\ stage = "tied"
    /\ RunProgram("Backward", BackwardActivations, "differentiated")
    /\ UNCHANGED <<model, todo, graph, requires_grad, gradients, loopback, programs,
                   gradient_inputs, pool>>

\* The results of the backward pass are the inputs of the optimizer; what it
\* returns goes to the tensor its output is an alias of.
Step ==
    /\ stage = "differentiated" /\ model.optimizer
    /\ "Optimizer" \in DOMAIN programs
    /\ RunProgram("Optimizer", results["Backward"], "stepped")
    /\ pool' = IF stage' = "refused" THEN pool
               ELSE [n \in DOMAIN pool |->
                        IF Updated(n) \in ToSet(Optimizer.outputs)
                        THEN Picked(Optimizer, results'["Optimizer"], {Updated(n)})[1]
                        ELSE pool[n]]
    /\ UNCHANGED <<model, todo, graph, requires_grad, gradients, loopback, programs,
                   gradient_inputs>>

Finished ==
    /\ \/ stage \in {"stepped", "refused", "too many gradients"}
       \/ stage = "differentiated" /\ "Optimizer" \notin DOMAIN programs
    /\ UNCHANGED stepVars

Next == Compile \/ Call \/ LossBackward \/ RunBackward \/ Step \/ Finished

Spec == Init /\ [][Next]_stepVars

-----------------------------------------------------------------------------
\* The module's own mathematics: the element of each of its tensors, and the
\* derivative of each by a leaf, forward along the operations.

Args(val, t) == [i \in DOMAIN model.body[t[2]].args |-> val[model.body[t[2]].args[i]]]
OpOf(t) == model.body[t[2]].op

Exact ==
    LET val[t \in Tensors(Len(model.body))] ==
            IF t \in Leaves THEN Point[t] ELSE Apply(OpOf(t), Args(val, t))
    IN  val

Derivative(leaf) ==
    LET d[t \in Tensors(Len(model.body))] ==
            IF t \in Leaves THEN IF t = leaf THEN 1 ELSE 0
            ELSE LET a == Args(d, t)
                     v == Args(Exact, t)
                 IN  CASE OpOf(t) = "Add" -> (a[1] + a[2]) % Modulus
                       [] OpOf(t) = "Multiply" -> (a[1] * v[2] + v[1] * a[2]) % Modulus
                       [] OpOf(t) = "Exp" -> (a[1] * Exact[t]) % Modulus
                       [] OpOf(t) = "Nop" -> a[1]
    IN  d

\* The gradient of a leaf: over all outputs, the gradient torch has for the
\* output times the output's derivative by the leaf.
Gradient(leaf) ==
    LET d == Derivative(leaf)
        sum[i \in 0..Len(model.outs)] ==
            IF i = 0 THEN 0 ELSE (sum[i - 1] + Seed[i] * d[model.outs[i]]) % Modulus
    IN  sum[Len(model.outs)]

\* What a run of the whole graph is given at an input, and what it computes.
Given(m, n) ==
    IF n \in Leaves THEN Point[n]
    ELSE IF n[1] = "gradient"
    THEN Seed[CHOOSE i \in DOMAIN m.outs : n = <<"gradient", Output(m.outs[i])>>]
    ELSE Rate

Computed(m, g) == Values(g, [n \in ToSet(OfType(g, "input")) |-> Given(m, n)])

-----------------------------------------------------------------------------
\* Every graph on the way lists each of its nodes once, and no list and no operand
\* names a node that is gone: passes remove nodes others hold (remove_nops.cpp:24).
TypeOK ==
    /\ model \in [body : Seq([op : UnaryOps \cup BinaryOps, args : Seq(Tensors(MaxOps))]),
                  outs : Seq(Tensors(MaxOps)), trained : SUBSET Leaves,
                  optimizer : BOOLEAN, recompute : BOOLEAN]
    /\ stage \in {"trace", "propagate", "outputs", "differentiate", "optimizer", "nops",
                  "backward", "update", "compiled", "called", "tied", "differentiated",
                  "stepped", "refused", "too many gradients"}
    /\ \A g \in {graph} \cup {programs[p] : p \in DOMAIN programs} :
          /\ Len(g.nodes) = Cardinality(DOMAIN g.node) /\ ToSet(g.nodes) = DOMAIN g.node
          /\ ToSet(g.inputs) \cup ToSet(g.outputs) \subseteq DOMAIN g.node
          /\ \A n \in DOMAIN g.node : ToSet(g.node[n].ins) \subseteq DOMAIN g.node
    /\ DOMAIN programs \subseteq {"Forward", "Backward", "Optimizer"}
    /\ DOMAIN results \subseteq DOMAIN programs
    /\ requires_grad \subseteq DOMAIN gradients
    /\ DOMAIN loopback \subseteq Weights
    /\ pool \in [Leaves -> 0..(Modulus - 1)]

\* Autograd gives each trained leaf the sum of its gradients over all paths from
\* all outputs (autograd.cpp:112-146 and 207-421).
GradientsAreComplete ==
    stage \in {"optimizer", "nops"} =>
        \A l \in model.trained : HasNode(graph, l) =>
            Len(gradients[l]) = 1 /\ Computed(model, graph)[gradients[l][1]] = Gradient(l)

\* The forward program returns what the module computes, in the user's order,
\* although the values saved for the backward pass are among its outputs
\* (compiled_graph_state.py:343-353).
ForwardReturnsTheOutputs ==
    "Forward" \in DOMAIN results =>
        Picked(Forward, results["Forward"], Shown)
            = [i \in DOMAIN model.outs |-> Exact[model.outs[i]]]

\* The backward program, called by position with lists two components put
\* together, returns the gradient of each parameter and of each input that wants
\* one (split_graph.cpp:290-321, compiled_graph_state.py:372-389).
BackwardReturnsTheGradients ==
    "Backward" \in DOMAIN results =>
        \A l \in {l \in model.trained : HasNode(graph, l)} :
            LET sink == gradients[l][1]
                shown == IF l \in Weights THEN <<"grad_output", sink>> ELSE sink
            IN  Picked(Backward, results["Backward"], {shown})
                    = <<Gradient(l)>>

\* After a step of the optimizer each trained weight has moved down its own
\* gradient (split_graph.cpp:351-395, compiled_graph_state.py:434-478).
StepDescends ==
    stage = "stepped" =>
        \A w \in model.trained \cap Weights : HasNode(graph, w) =>
            pool[w] = (Point[w] - Rate * Gradient(w)) % Modulus

\* No program is handed another number of inputs than it declares: the lists that
\* CompiledModel puts together are as long as those the graphs were lowered with
\* ("Input count mismatch", runtime.cpp:44-47).
CallsAreAccepted == stage # "refused"

\* Every output the user was given has a place among the gradient inputs, at which
\* its hook can leave the gradient ("More gradients than expected.",
\* compiled_graph_state.py:277).
GradientsHaveSlots == stage # "too many gradients"

\* The split gives every backward op as many operands as it had, whatever the forward
\* graph shows of them: "Verify that all nodes from the backward graph have the same
\* number of operands as in the original graph" (test_split_graph.cpp:130-131).
OperandsKept ==
    "Backward" \in DOMAIN programs =>
        \A n \in DOMAIN graph.node :
            graph.node[n].type = "op" /\ graph.node[n].epoch = "bwd" =>
                /\ HasNode(Backward, n)
                /\ Len(Backward.node[n].ins) = Len(graph.node[n].ins)
=============================================================================
