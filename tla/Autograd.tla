------------------------------ MODULE Autograd ------------------------------
(***************************************************************************)
(* From a traced module to the graph of a training step: generate_graph    *)
(* (forge/compile.py), which builds the graph breadth first from the       *)
(* outputs, and the autograd engine (csrc/autograd/autograd.cpp), which    *)
(* adds the backward pass, the optimizer and the recomputed operations.    *)
(***************************************************************************)
EXTENDS TensorGraph

CONSTANTS
    Activations,    \* sequence of the module's inputs
    Weights,        \* its parameters
    UnaryOps, BinaryOps,
    Families,       \* families of modules, and how they are compiled
    Awkward,        \* kinds of modules taken in, see Kinds
    MaxOps,         \* bound: operations of a module
    MaxModuleOutputs \* bound: outputs of a module

Leaves == ToSet(Activations) \cup Weights

\* A leaf is known by its name, which no other node has.
ASSUME AutogradAssumption ==
    /\ Activations \in Seq(Seq(STRING)) /\ Weights \subseteq Seq(STRING)
    /\ \A l \in Leaves : Len(l) = 1
    /\ ToSet(Activations) \cap Weights = {}
    /\ \A i, j \in DOMAIN Activations : Activations[i] = Activations[j] => i = j
    /\ UnaryOps \subseteq {"Exp", "Nop"} /\ BinaryOps \subseteq {"Add", "Multiply"}
    /\ MaxOps \in Nat \ {0} /\ MaxModuleOutputs \in Nat \ {0}
    /\ \A f \in Families : /\ f.weights \subseteq Weights /\ f.trained \subseteq Leaves
                           /\ f.ops \subseteq UnaryOps \cup BinaryOps
                           /\ f.size \in 1..MaxOps
                           /\ f.optimizer \in BOOLEAN /\ f.recompute \in BOOLEAN

VARIABLES
    model,          \* the traced module and how it is compiled
    stage,          \* what runs next
    todo,           \* what the loop of the stage still has to visit
    graph,
    requires_grad,  \* requires_grad_map, by the producer of the edge
    gradients,      \* fwd_to_out_gradient_map
    loopback        \* kDataLoopback: parameter -> its updated value

autogradVars == <<model, stage, todo, graph, requires_grad, gradients, loopback>>

-----------------------------------------------------------------------------
\* Traced modules: each operation reads leaves and results of earlier ones.

Result(i) == <<"op", i>>
Tensors(i) == Leaves \cup {Result(j) : j \in 1..i}

OpsAt(f, i) ==
    LET at == (ToSet(Activations) \cup f.weights) \cup {Result(j) : j \in 1..(i - 1)}
    IN  {[op |-> o, args |-> <<a>>] : o \in UnaryOps \cap f.ops, a \in at}
        \cup {[op |-> o, args |-> <<a, b>>] : o \in BinaryOps \cap f.ops, a \in at, b \in at}

Longer(bodies, ops) == {Append(b, o) : b \in bodies, o \in ops}

Bodies(f) ==
    LET ofSize[k \in 0..f.size] ==
            IF k = 0 THEN {<<>>} ELSE Longer(ofSize[k - 1], OpsAt(f, k))
    IN  UNION {ofSize[k] : k \in 1..f.size}

OutputLists(k) ==
    {s \in UNION {[1..m -> Tensors(k) \ Weights] : m \in 1..MaxModuleOutputs} :
        \A i, j \in DOMAIN s : s[i] = s[j] => i = j}

AllUsed(b, outs) ==
    \A i \in DOMAIN b :
        \/ Contains(outs, Result(i))
        \/ \E j \in DOMAIN b : Contains(b[j].args, Result(i))

\* The tensor left of t when Nops are gone.
Source(m) ==
    LET src[t \in Tensors(Len(m.body))] ==
            IF t \in Leaves \/ m.body[t[2]].op # "Nop" THEN t
            ELSE src[m.body[t[2]].args[1]]
    IN  src

Differentiable(m) ==
    LET need[t \in Tensors(Len(m.body))] ==
            IF t \in Leaves THEN t \in m.trained
            ELSE \E i \in DOMAIN m.body[t[2]].args : need[m.body[t[2]].args[i]]
    IN  need

\* What the programs and their callers do not agree on, see the README.
Kinds(m) ==
    LET src == Source(m)
        Computing == {i \in DOMAIN m.body : m.body[i].op # "Nop"}
        Read == UNION {{src[m.body[i].args[j]] : j \in DOMAIN m.body[i].args} : i \in Computing}
    IN  {k \in {"constant output", "input as output", "result twice", "input gradient"} :
            CASE k = "constant output" ->
                    \E i \in DOMAIN m.outs : ~Differentiable(m)[m.outs[i]]
              [] k = "input as output" ->
                    \E i \in DOMAIN m.outs : src[m.outs[i]] \in Leaves \cap Read
              [] k = "result twice" ->
                    \E i, j \in DOMAIN m.outs :
                        i # j /\ src[m.outs[i]] = src[m.outs[j]]
              [] k = "input gradient" ->
                    m.optimizer /\ m.trained \cap ToSet(Activations) # {}}

IsModel(m) ==
    /\ AllUsed(m.body, m.outs)
    /\ \E i \in DOMAIN m.outs : Differentiable(m)[m.outs[i]]
    /\ Kinds(m) \subseteq Awkward

-----------------------------------------------------------------------------
\* generate_graph: tensors wait with the node, made before them, that uses them.

Output(t) == <<"output", t>>

Outputs == [i \in DOMAIN model.outs |-> Output(model.outs[i])]

Use(t, user, port) == [tensor |-> t, user |-> user, port |-> port]

PassThroughs == ToSet(model.outs) \cap Leaves

AutogradInit ==
    /\ \E f \in Families : \E b \in Bodies(f) : \E s \in OutputLists(Len(b)) :
          model = [body |-> b, outs |-> s, trained |-> f.trained,
                   optimizer |-> f.optimizer, recompute |-> f.recompute]
    /\ IsModel(model)
    /\ stage = "trace"
    /\ graph = AddNodes(EmptyGraph, Outputs,
                        [o \in ToSet(Outputs) |-> Node("output", "external", "fwd", <<>>)])
    /\ todo = [i \in DOMAIN model.outs |-> Use(model.outs[i], Output(model.outs[i]), 1)]
    /\ requires_grad = {} /\ gradients = [n \in {} |-> n] /\ loopback = [n \in {} |-> n]

LeafNode(t) ==
    Node("input", IF t \in Weights THEN "parameter" ELSE "activation", "fwd", <<>>)

Pending(op, user) == [i \in DOMAIN op.args |-> Use(op.args[i], user, i)]

VisitTensor ==
    /\ stage = "trace" /\ todo # <<>>
    /\ LET t == Head(todo).tensor
           user == Head(todo).user
       IN  \/ /\ HasNode(graph, t)
              /\ graph' = AddEdge(graph, t, user)
              /\ todo' = Tail(todo)
           \/ /\ ~HasNode(graph, t) /\ t \in PassThroughs
              /\ LET nop == <<"nop", user>>
                 IN  graph' = AddEdge(AddNode(AddNode(graph, t, LeafNode(t)), nop,
                                              Node("op", "Nop", "fwd", <<t>>)),
                                      nop, user)
              /\ todo' = Tail(todo)
           \/ /\ ~HasNode(graph, t) /\ t \in Leaves \ PassThroughs
              /\ graph' = AddEdge(AddNode(graph, t, LeafNode(t)), t, user)
              /\ todo' = Tail(todo)
           \/ /\ ~HasNode(graph, t) /\ t \notin Leaves
              /\ LET op == model.body[t[2]]
                 IN  /\ graph' = AddEdge(AddNode(graph, t, Node("op", op.op, "fwd", <<>>)),
                                         t, user)
                     /\ todo' = Tail(todo) \o Pending(op, t)
    /\ UNCHANGED <<model, stage, requires_grad, gradients, loopback>>

RegisterModule ==
    /\ stage = "trace" /\ todo = <<>>
    /\ graph' = [graph EXCEPT
                    !.inputs = Named(graph, Activations),
                    !.outputs = Outputs]
    /\ stage' = "propagate"
    /\ UNCHANGED <<model, todo, requires_grad, gradients, loopback>>

-----------------------------------------------------------------------------
\* autograd_engine

NeedGrad(g) ==
    LET need[n \in DOMAIN g.node] ==
            IF g.node[n].type = "input" THEN n \in model.trained
            ELSE \E i \in DOMAIN g.node[n].ins : need[g.node[n].ins[i]]
    IN  {n \in DOMAIN g.node : need[n]}

PropagateRequiresGrad ==
    /\ stage = "propagate"
    /\ requires_grad' = NeedGrad(graph)
    /\ gradients' = [n \in DOMAIN graph.node |-> <<>>]
    /\ todo' = OfType(graph, "output")
    /\ stage' = "outputs"
    /\ UNCHANGED <<model, graph, loopback>>

\* The gradient of an output comes in from outside.
CreateGradientInput ==
    /\ stage = "outputs" /\ todo # <<>>
    /\ LET o == Head(todo)
           p == graph.node[o].ins[1]
           grad == <<"gradient", o>>
       IN  \/ p \notin requires_grad /\ UNCHANGED <<graph, gradients>>
           \/ /\ p \in requires_grad
              /\ graph' = [AddNode(graph, grad, Node("input", "gradient", "bwd", <<>>))
                              EXCEPT !.inputs = Append(@, grad)]
              /\ gradients' = [gradients EXCEPT ![p] = Append(@, grad)]
    /\ todo' = Tail(todo)
    /\ UNCHANGED <<model, stage, requires_grad, loopback>>

\* Mutant of BackwardOrder: users may come after their operands.
ForwardOrder(g) == OfEpoch(g, TopologicalSort(g), "fwd")

BackwardOrder(g) == Reverse(OfEpoch(g, TopologicalSort(g), "fwd"))

StartDifferentiation ==
    /\ stage = "outputs" /\ todo = <<>>
    /\ todo' = BackwardOrder(graph)
    /\ stage' = "differentiate"
    /\ UNCHANGED <<model, graph, requires_grad, gradients, loopback>>

\* The sum of the first i gradients of n.
Sum(n, i) == IF i = 1 THEN gradients[n][1] ELSE <<"combine", n, i>>

\* combine_incoming_gradients: a chain of Adds over all gradients of n.
Combined(n) ==
    LET sums == [i \in 1..(Len(gradients[n]) - 1) |-> Sum(n, i + 1)]
    IN  AddNodes(graph, sums,
                 [s \in ToSet(sums) |->
                     Node("op", "Add", "bwd", <<Sum(n, s[3] - 1), gradients[n][s[3]]>>)])

\* One backward op for each operand that needs a gradient.
BackwardOps(n) ==
    LET ins == graph.node[n].ins
        ports == Only([i \in DOMAIN ins |-> i], {i \in DOMAIN ins : ins[i] \in requires_grad})
    IN  [i \in DOMAIN ports |-> <<"bw", n, ports[i]>>]

Differentiated(n, g, gradient) ==
    AddNodes(g, BackwardOps(n),
             [b \in ToSet(BackwardOps(n)) |->
                 BackwardOp(graph.node[n].role, b[3], graph.node[n].ins, n, gradient)])

\* The gradients of each node after those of n are combined and handed on.
HandedOn(n, gradient) ==
    [m \in DOMAIN gradients |->
        IF m = n THEN <<gradient>>
        ELSE gradients[m] \o Only(BackwardOps(n), {b \in ToSet(BackwardOps(n)) :
                                                      graph.node[n].ins[b[3]] = m})]

Differentiate ==
    /\ stage = "differentiate" /\ todo # <<>>
    /\ LET n == Head(todo)
           gradient == Sum(n, Len(gradients[n]))
           leaf == graph.node[n].role
       IN  \/ /\ \/ graph.node[n].type = "output"
                 \/ graph.node[n].type = "input" /\ n \notin model.trained
                 \/ gradients[n] = <<>>
              /\ UNCHANGED <<graph, gradients>>
           \/ /\ graph.node[n].type = "op" /\ gradients[n] # <<>>
              /\ graph' = Differentiated(n, Combined(n), gradient)
              /\ gradients' = HandedOn(n, gradient)
           \/ /\ n \in model.trained /\ gradients[n] # <<>>
              /\ LET sink == IF leaf = "parameter" THEN <<"grad_acc", n>>
                                                   ELSE <<"output_grad", n>>
                 IN  /\ graph' = AddNode(Combined(n), sink,
                            IF leaf = "parameter"
                            THEN Node("queue", "grad_accumulator", "bwd", <<gradient>>)
                            ELSE Node("output", "external", "bwd", <<gradient>>))
                     /\ gradients' = [gradients EXCEPT ![n] = <<sink>>]
    /\ todo' = Tail(todo)
    /\ UNCHANGED <<model, stage, requires_grad, loopback>>

StartOptimizer ==
    /\ stage = "differentiate" /\ todo = <<>>
    /\ todo' = IF model.optimizer THEN TopologicalSort(graph) ELSE <<>>
    /\ stage' = "optimizer"
    /\ UNCHANGED <<model, graph, requires_grad, gradients, loopback>>

\* create_optimizer_graph with SGD: parameter - gradient * lr, looped back.
OptimizeParameter ==
    /\ stage = "optimizer" /\ todo # <<>>
    /\ LET w == Head(todo)
           lr == <<"lr", w>>
           step == <<"opt_multiply", w>>
           new == <<"opt_subtract", w>>
       IN  IF w \in Weights \cap model.trained
           THEN /\ Len(gradients[w]) = 1        \* asserted
                /\ graph' = AddNode(AddNode(AddNode(graph,
                        lr, Node("input", "optimizer_parameter", "opt", <<>>)),
                        step, Node("op", "Multiply", "opt", <<gradients[w][1], lr>>)),
                        new, Node("op", "Subtract", "opt", <<w, step>>))
                /\ loopback' = With(loopback, w, new)
           ELSE UNCHANGED <<graph, loopback>>
    /\ todo' = Tail(todo)
    /\ UNCHANGED <<model, stage, requires_grad, gradients>>

\* g without those of s that nobody reads when their turn comes.
Pruned(g, s) ==
    LET left[i \in 0..Len(s)] ==
            IF i = 0 THEN g
            ELSE IF Users(left[i - 1], s[i]) = <<>> THEN RemoveNode(left[i - 1], s[i])
                                                    ELSE left[i - 1]
    IN  left[Len(s)]

\* insert_recompute_ops: every forward op is cloned behind its operands' clones,
\* backward nodes read the clones, and clones nobody reads go, from the last.
Recomputed(g) ==
    LET ops == OfEpoch(g, Only(TopologicalSort(g), ToSet(OfType(g, "op"))), "fwd")
        Clone(n) == <<"recompute", n>>
        Clones(ins) == [i \in DOMAIN ins |->
                           IF ins[i] \in ToSet(ops) THEN Clone(ins[i]) ELSE ins[i]]
        clones == Clones(ops)
        cloned == AddNodes(g, clones,
                      [c \in ToSet(clones) |->
                          Node("op", g.node[c[2]].role, "bwd", Clones(g.node[c[2]].ins))])
        rewired == [cloned EXCEPT !.node = [n \in DOMAIN cloned.node |->
                      IF HasNode(g, n) /\ g.node[n].epoch = "bwd"
                      THEN [g.node[n] EXCEPT !.ins = Clones(g.node[n].ins)] ELSE cloned.node[n]]]
    IN  Pruned(rewired, Reverse(clones))

InsertRecomputeOps ==
    /\ stage = "optimizer" /\ todo = <<>>
    /\ graph' = IF model.recompute THEN Recomputed(graph) ELSE graph
    /\ stage' = "nops"
    /\ todo' = Only(TopologicalSort(graph'), ToSet(OfRole(graph', "Nop")))
    /\ UNCHANGED <<model, requires_grad, gradients, loopback>>

AutogradNext ==
    \/ VisitTensor \/ RegisterModule
    \/ PropagateRequiresGrad
    \/ CreateGradientInput \/ StartDifferentiation \/ Differentiate
    \/ StartOptimizer \/ OptimizeParameter
    \/ InsertRecomputeOps
=============================================================================
