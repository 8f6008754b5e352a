----------------------------- MODULE SplitGraph -----------------------------
(***************************************************************************)
(* remove_nops (csrc/passes/remove_nops.cpp) and split_graph               *)
(* (csrc/passes/split_graph.cpp): one graph becomes the forward, backward  *)
(* and optimizer graphs, which refer to each other by the names of their   *)
(* boundary nodes and are called by the order of their lists.              *)
(***************************************************************************)
EXTENDS Autograd

VARIABLE
    programs        \* ForgeGraphModule: the graphs extracted so far

splitVars == <<autogradVars, programs>>

NoPrograms == [p \in {} |-> p]

-----------------------------------------------------------------------------
\* Mutant of Bypassed: the users still read the node that is gone.
Removed(g, n) == RemoveNode(g, n)

\* bypass_node: the users of n read its operand, at their ports.
Bypassed(g, n) == RemoveNode(Redirect(g, n, g.node[n].ins[1]), n)

RemoveNop ==
    /\ stage = "nops" /\ todo # <<>>
    /\ graph' = Bypassed(graph, Head(todo))
    /\ todo' = Tail(todo)
    /\ UNCHANGED <<model, stage, requires_grad, gradients, loopback, programs>>

-----------------------------------------------------------------------------
\* extract_forward_graph

\* Mutants of NeedsIntermediateOutput: outputs, and backward users, are not
\* looked for.
AnyUserInBackward(g, n) ==
    /\ g.node[n].epoch = "fwd" /\ g.node[n].type = "op"
    /\ HasUsersIn(g, n, "bwd")
AnyUnshownOp(g, n) ==
    /\ g.node[n].epoch = "fwd" /\ g.node[n].type = "op"
    /\ \A m \in ToSet(Users(g, n)) : g.node[m].type # "output"

NeedsIntermediateOutput(g, n) ==
    /\ g.node[n].epoch = "fwd" /\ g.node[n].type = "op"
    /\ HasUsersIn(g, n, "bwd")
    /\ \A m \in ToSet(Users(g, n)) : g.node[m].type # "output"

\* An output of the module is shared when the backward pass reads it too.
Marked(g, rec) ==
    IF rec.type = "output" /\ HasUsersIn(g, rec.ins[1], "bwd")
    THEN [rec EXCEPT !.role = "shared"] ELSE rec

\* The forward nodes with their operands, and an internal output for each op that
\* only the backward pass will read again.
ForwardGraph(g) ==
    LET saved == Only(g.nodes, {n \in DOMAIN g.node : NeedsIntermediateOutput(g, n)})
        names == [i \in DOMAIN saved |-> <<"intermediate", saved[i]>>]
        order == OfEpoch(g, TopologicalSort(g), "fwd")
        fwd == AddNodes(EmptyGraph, order, [n \in ToSet(order) |-> Marked(g, g.node[n])])
    IN  [AddNodes(fwd, names, [o \in ToSet(names) |-> Node("output", "internal", "fwd", <<o[2]>>)])
            EXCEPT !.inputs = OfEpoch(g, OrderedModuleInputs(g), "fwd"),
                   !.outputs = g.outputs \o names]

IsIntermediate(fwd, o) == fwd.node[o].role \in {"internal", "shared"}

\* Mutant of IsExternal: every output is for the user.
IsOutput(fwd, o) == fwd.node[o].type = "output"

\* OutputType::External: of all the outputs, those for the user.
IsExternal(fwd, o) == fwd.node[o].role \in {"external", "shared"}

-----------------------------------------------------------------------------
\* extract_backward_graph

\* Mutants of BackwardInputs: the saved values come in another order, or first.
SavedInReverse(g, fwd, bwd) ==
    OfEpoch(g, OrderedModuleInputs(g), "bwd")
    \o Named(bwd, Reverse(fwd.outputs))
    \o Named(bwd, OfEpoch(g, OrderedModuleInputs(g), "fwd"))
IntermediatesFirst(g, fwd, bwd) ==
    Named(bwd, fwd.outputs)
    \o OfEpoch(g, OrderedModuleInputs(g), "bwd")
    \o Named(bwd, OfEpoch(g, OrderedModuleInputs(g), "fwd"))

\* First the inputs exclusive to the backward graph, then what the forward graph
\* saved, then the inputs of the forward graph that are read again.
BackwardInputs(g, fwd, bwd) ==
    OfEpoch(g, OrderedModuleInputs(g), "bwd")
    \o Named(bwd, fwd.outputs)
    \o Named(bwd, OfEpoch(g, OrderedModuleInputs(g), "fwd"))

\* An operand is read from the backward graph itself, or else from every output
\* that shows it.
BackwardOperands(fwd, bwd, ins) ==
    FlattenSeq([i \in DOMAIN ins |->
        IF HasNode(bwd, ins[i]) THEN <<ins[i]>>
        ELSE Only(Users(fwd, ins[i]), ToSet(OfType(fwd, "output")))])

Saved == Node("input", "activation", "fwd", <<>>)

\* n of g added to the backward graph h, behind the saved values it reads that are
\* not there.
Extended(g, fwd, h, n) ==
    LET ins == BackwardOperands(fwd, h, g.node[n].ins)
        missing == Only(ins, ToSet(ins) \ DOMAIN h.node)
    IN  IF g.node[n].type = "queue"
        THEN AddNode(h, <<"grad_output", n>>,
                     Node("output", "internal", "fwd", g.node[n].ins))
        ELSE AddNode(AddNodes(h, missing, [o \in ToSet(missing) |-> Saved]), n,
                     [g.node[n] EXCEPT !.ins = ins])

BackwardGraph(g, fwd) ==
    LET saved == Only(OfType(fwd, "output"), {o \in DOMAIN fwd.node : IsIntermediate(fwd, o)})
        read == OfEpoch(g, Only(OfType(g, "input"),
                                {n \in DOMAIN g.node : HasUsersIn(g, n, "bwd")}), "fwd")
        start == AddNodes(AddNodes(EmptyGraph, saved, [o \in ToSet(saved) |-> Saved]),
                          read, [n \in ToSet(read) |-> g.node[n]])
        order == OfEpoch(g, TopologicalSort(g), "bwd")
        built[i \in 0..Len(order)] ==
            IF i = 0 THEN start ELSE Extended(g, fwd, built[i - 1], order[i])
        bwd == built[Len(order)]
    IN  [bwd EXCEPT !.inputs = BackwardInputs(g, fwd, bwd),
                    !.outputs = OfType(bwd, "output")]

-----------------------------------------------------------------------------
\* extract_optimizer_graph

Accumulators(g) == Only(OfRole(g, "grad_accumulator"),
                        {q \in DOMAIN g.node : HasUsersIn(g, q, "opt")})

\* Mutant of OptimizerInputs: the latest gradient first.
LatestGradientFirst(g) == Reverse(Accumulators(g))

OptimizerInputs(g) == Accumulators(g)

Updated(w) == <<"updated", w>>

\* n of g added to the optimizer graph h behind those of its operands that are there,
\* and the output it is looped back for, if any.
Linked(h, n) ==
    IF \E w \in DOMAIN loopback : loopback[w] = n
    THEN AddEdge(h, n, Updated(CHOOSE w \in DOMAIN loopback : loopback[w] = n))
    ELSE h
Stepped(g, h, n) ==
    Linked(AddNode(h, n, [g.node[n] EXCEPT !.ins = Named(h, g.node[n].ins)]), n)

\* A parameter and the output that updates it, the gradients, then the nodes of
\* the optimizer.
OptimizerGraph(g) ==
    LET params == Only(OfType(g, "input"), DOMAIN loopback)
        pairs == FlattenSeq([i \in DOMAIN params |-> <<params[i], Updated(params[i])>>])
        withParams == AddNodes(EmptyGraph, pairs,
                               [n \in ToSet(pairs) |->
                                   IF n \in ToSet(params) THEN g.node[n]
                                   ELSE Node("output", "internal", "opt", <<>>)])
        withGrads == AddNodes(withParams, Accumulators(g),
                              [q \in ToSet(Accumulators(g)) |->
                                  Node("input", "gradient", "opt", <<>>)])
        order == OfEpoch(g, TopologicalSort(g), "opt")
        built[i \in 0..Len(order)] ==
            IF i = 0 THEN withGrads ELSE Stepped(g, built[i - 1], order[i])
        opt == built[Len(order)]
    IN  [opt EXCEPT !.inputs = OptimizerInputs(g),
                    !.outputs = [i \in DOMAIN params |-> Updated(params[i])]]

-----------------------------------------------------------------------------
\* split_graph: extracts graph p and goes on with the stage "to".
Extract(p, from, to, g) ==
    /\ stage = from /\ todo = <<>>
    /\ programs' = With(programs, p, g)
    /\ stage' = to
    /\ UNCHANGED <<model, todo, graph, requires_grad, gradients, loopback>>

ExtractForward == Extract("Forward", "nops", "backward", ForwardGraph(graph))

\* There is an optimizer graph only if there are nodes for it.
ExtractBackward ==
    Extract("Backward", "backward", IF loopback = NoPrograms THEN "compiled" ELSE "update",
            BackwardGraph(graph, programs["Forward"]))

ExtractOptimizer == Extract("Optimizer", "update", "compiled", OptimizerGraph(graph))

SplitInit == AutogradInit /\ programs = NoPrograms

SplitNext ==
    \/ AutogradNext /\ UNCHANGED programs
    \/ RemoveNop
    \/ ExtractForward \/ ExtractBackward \/ ExtractOptimizer
=============================================================================
