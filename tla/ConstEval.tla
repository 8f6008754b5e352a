----------------------------- MODULE ConstEval -----------------------------
(***************************************************************************)
(* The pass that moves what depends on constants and parameters alone from *)
(* the graph to the host (forge/csrc/passes/consteval.cpp), where it is    *)
(* computed once, when the module is compiled (forge/forge/tensor.py).     *)
(* An input that has absorbed ops is a leaf "host" with their graph; the   *)
(* users of a forked input read clones of it.                              *)
(***************************************************************************)
EXTENDS Passes

Host(t) == Node("host", [graph |-> t], <<>>, t.shape)
Clone(x, k) == [x EXCEPT !.attrs = [fork |-> k] @@ @]

\* is_consteval_capable_input_type, for the parameters of the given names.
IsConstant(x, parameters) ==
    x.op \in {"constant", "tensor", "host"} \/ (x.op = "input" /\ x.attrs.name \in parameters)

\* An input that is trained: its name is in grad.
Trained(x, grad) == x.op = "input" /\ x.attrs.name \in grad

Operands(t) == {Producer(t.ins[i]) : i \in DOMAIN t.ins}
Forks(graph, x) == Cardinality(UserEdges(graph, x)) > 1

\* is_consteval_capable_op: of trained inputs only what moves their elements, and only if
\* nothing else reads them and nothing broadcasts them.
IsCapable(graph, t, parameters, grad) ==
    LET trained == {x \in Operands(t) : Trained(x, grad)}
        Broadcast(x) == \E e \in UserEdges(graph, x) : e[1].ins[e[2]].op = "tm"
    IN  /\ t.op \notin Leaves \cup {"tm", "output"}
        /\ \A x \in Operands(t) : IsConstant(x, parameters)
        /\ \A x \in trained : ~Forks(graph, x) /\ ~Broadcast(x)
        /\ trained = {} \/ t.op \in TmOps

AbsorbsTrained(graph, x, parameters, grad) ==
    /\ ~Forks(graph, x)
    /\ \A u \in Users(graph, x) : Len(u.ins) = 1 /\ IsCapable(graph, u, parameters, grad)

\* is_consteval_capable_input_no_operand_forks.  (Users that are all alike are one node.)
AbsorbsUnary(graph, x, parameters, grad) ==
    LET users == Users(graph, x)
    IN  /\ ~Trained(x, grad)
        /\ ~Forks(graph, x)
        /\ \A u \in users : Len(u.ins) = 1 /\ IsCapable(graph, u, parameters, grad)

\* input_can_consteval: all the users can be absorbed, and none makes copies of the data.
Absorbs(graph, x, parameters, grad) ==
    LET edges == UserEdges(graph, x)
    IN  /\ ~Trained(x, grad)
        /\ Cardinality({e[1] : e \in edges}) = Cardinality(edges)
        /\ \A e \in edges : /\ IsCapable(graph, e[1], parameters, grad)
                            /\ e[1].op \notin {"broadcast", "repeat", "repeat_interleave"}

\* split_consteval_input_forks: the edges from x, each with a clone of x at its start.
RECURSIVE Resourced(_, _, _)
Resourced(e, x, k) ==
    IF e.op = "tm" THEN [e EXCEPT !.ins = <<Resourced(@[1], x, k)>>] ELSE Clone(x, k)

RECURSIVE Split(_, _, _)
Split(t, x, users) ==
    [t EXCEPT !.ins = [i \in DOMAIN @ |->
        IF t.op # "tm" /\ Producer(@[i]) = x THEN Resourced(@[i], x, CHOOSE k \in DOMAIN users : users[k] = t)
        ELSE Split(@[i], x, users)]]

=============================================================================
