------------------------------- MODULE Terms -------------------------------
(***************************************************************************)
(* Graphs of ops.  A graph is a term: a node has an op, attributes,        *)
(* operands (which are terms) and the shape announced for it; equal terms  *)
(* are one node.  The broadcasts on an edge are nodes "tm" between its     *)
(* two ends.                                                               *)
(***************************************************************************)
EXTENDS Ops

Node(op, attrs, ins, shape) == [op |-> op, attrs |-> attrs, ins |-> ins, shape |-> shape]
None == [none |-> 0]                                \* no attributes
Input(name, shape) == Node("input", [name |-> name], <<>>, shape)
Const(c) == Node("constant", [c |-> c], <<>>, <<1>>)
Tensor(t) == Node("tensor", [value |-> t], <<>>, t.shape)
Output(name, t) == Node("output", [name |-> name], <<t>>, t.shape)
NoTerm == Node("rejected", None, <<>>, NoShape)
Built(t) == t.shape # NoShape
Leaves == {"input", "constant", "tensor", "host", "rejected"}     \* host: see ConstEval

\* set_broadcast_dim, for the broadcasts of the i-th operand x.
Wrap(x, dim, size) ==
    Node("tm", [dim |-> dim, size |-> size], <<x>>, BroadcastOpShape(x.shape, dim, size))
RECURSIVE Wrapped(_, _, _)
Wrapped(x, bcast, i) ==
    IF \A b \in bcast : b[1] # i THEN x
    ELSE LET b == CHOOSE b \in bcast : b[1] = i /\ \A c \in bcast : c[1] = i => c[2] <= b[2]
         IN  Wrapped(Wrap(x, b[2], b[3]), bcast \ {b}, i)

\* DecomposingContext::op and create_op: a new node.
Announced(op, attrs, ins, announced) ==
    IF announced.shape = NoShape THEN NoTerm
    ELSE Node(op, attrs, [i \in DOMAIN ins |-> Wrapped(ins[i], announced.bcast, i)],
              announced.shape)
Create(op, attrs, ins, announced) ==
    IF \E i \in DOMAIN ins : ~Built(ins[i]) THEN NoTerm ELSE Announced(op, attrs, ins, announced)
Apply(op, attrs, ins) ==
    Create(op, attrs, ins, ShapeOf(op, attrs, [i \in DOMAIN ins |-> ins[i].shape]))

\* The end of an edge, without the broadcasts on it, and the dimensions these broadcast.
RECURSIVE Producer(_)
Producer(t) == IF t.op = "tm" THEN Producer(t.ins[1]) ELSE t

RECURSIVE Broadcasts(_)
Broadcasts(t) == IF t.op = "tm" THEN Append(Broadcasts(t.ins[1]), t.attrs) ELSE <<>>

\* topological_sort: the nodes of a graph with outputs ts, operands first.
RECURSIVE Visit(_, _)
Visit(t, seen) == IF Contains(seen, t) THEN seen
                  ELSE Append(FoldLeft(LAMBDA s, x : Visit(x, s), seen, t.ins), t)
TopologicalSort(ts) == FoldLeft(LAMBDA s, t : Visit(t, s), <<>>, ts)

\* The graph t with node old replaced by node new for all its users.
RECURSIVE Substituted(_, _, _)
Substituted(t, old, new) ==
    IF t = old THEN new
    ELSE [t EXCEPT !.ins = [i \in DOMAIN @ |-> Substituted(@[i], old, new)]]

\* x with the broadcasts tms on it.
RECURSIVE Rewrapped(_, _)
Rewrapped(x, tms) ==
    IF tms = <<>> THEN x
    ELSE Rewrapped(Wrap(x, Head(tms).dim, Head(tms).size), Tail(tms))

\* handle_change_rank: the edge e of consumer t, squeezed or unsqueezed to the rank t reads.
ConsumerRankOfOutput(t, rank) == Len(t.shape)
ConsumerRank(t, rank) ==
    LET n == Len(t.shape)
    IN  CASE t.op \in {"reshape", "embedding"} -> rank
          [] t.op = "squeeze" -> n + 1
          [] t.op = "unsqueeze" -> n - 1
          [] t.op \in {"reduce_avg", "reduce_max", "reduce_sum"} ->
                IF t.attrs.keep_dim THEN n ELSE n + Len(t.attrs.dim_arg)
          [] OTHER -> n

ChangedRank(t, e) ==
    LET x == Producer(e)
        more == ConsumerRank(t, Len(x.shape)) - Len(x.shape)
        Change(y, i) == Apply(IF more > 0 THEN "unsqueeze" ELSE "squeeze", [dim |-> 0], <<y>>)
        times == [i \in 1..(IF more > 0 THEN more ELSE -more) |-> i]
        Shift(b) == IF b.dim >= 0 THEN [b EXCEPT !.dim = @ + more] ELSE b
        tms == Broadcasts(e)
    IN  IF more = 0 THEN e
        ELSE Rewrapped(FoldLeft(Change, x, times), [i \in DOMAIN tms |-> Shift(tms[i])])

\* The graph t with the ranks of all edges from the nodes in S changed.
RECURSIVE RanksChanged(_, _)
RanksChanged(t, S) ==
    LET e(i) == RanksChanged(t.ins[i], S)
    IN  [t EXCEPT !.ins = [i \in DOMAIN @ |->
            IF t.op # "tm" /\ Producer(@[i]) \in S THEN ChangedRank(t, e(i)) ELSE e(i)]]

\* recalculate_shapes: with the broadcasts that are missing.
RECURSIVE Recalculated(_)
Recalculated(t) ==
    LET ins == [i \in DOMAIN t.ins |-> Recalculated(t.ins[i])]
    IN  IF t.op \in Leaves THEN t ELSE Apply(t.op, t.attrs, ins)

\* bypass_node of a node of one operand, with the ranks its users read.
RECURSIVE Bypassed(_, _)
Bypassed(t, z) ==
    LET e(i) == LET x == t.ins[i] IN
                IF t.op # "tm" /\ Producer(x) = z THEN Rewrapped(z.ins[1], Broadcasts(x))
                ELSE Bypassed(x, z)
    IN  [t EXCEPT !.ins = [i \in DOMAIN @ |->
            IF t.op \notin {"tm", "reshape"} /\ Producer(@[i]) = z THEN ChangedRank(t, e(i)) ELSE e(i)]]

\* The ops of the graphs ts, operands first, and the edges from node z to its users.
OpNodes(ts) == SelectSeq(TopologicalSort(ts), LAMBDA t : t.op \notin Leaves \cup {"tm", "output"})
UserEdges(ts, z) ==
    LET nodes == ToSet(TopologicalSort(ts))
    IN  {e \in {<<t, i>> : t \in {u \in nodes : u.op # "tm"}, i \in 1..5} :
            e[2] \in DOMAIN e[1].ins /\ Producer(e[1].ins[e[2]]) = z}

\* The tensor a graph computes, from the tensors of its inputs: eval_graph.
RECURSIVE Value(_, _)

\* get_constant_input_value: a constant is one number or a tensor.
ConstantValue(t) == IF t.op = "constant" THEN Scalar(t.attrs.c) ELSE t.attrs.value

\* consteval_input: the result of the last op that the input has absorbed.
ConstevalInput(t, inputs) == Value(t.attrs.graph, inputs)

EvalInput(t, inputs) ==
    CASE t.op = "host" -> ConstevalInput(t, inputs)
      [] t.op \in {"constant", "tensor"} -> ConstantValue(t)
      [] t.op = "input" -> inputs[t.attrs.name]
      [] t.op = "rejected" -> Rejected

\* eval_tms, and eval_operand_tms: the tensors t reads through the broadcasts on its edges.
EvalTms(x, tms) == FoldLeft(LAMBDA y, tm : EvalBroadcast(y, tm.dim, tm.size), x, tms)
EvalOperands(t, inputs) ==
    [i \in DOMAIN t.ins |-> EvalTms(Value(Producer(t.ins[i]), inputs), Broadcasts(t.ins[i]))]

\* An output has the tensor of its operand, whatever is on the edge between them.
Value(t, inputs) ==
    CASE t.op \in Leaves -> EvalInput(t, inputs)
      [] t.op = "output" -> Value(Producer(t.ins[1]), inputs)
      [] OTHER -> Eval(t.op, t.attrs, Computed(EvalOperands(t, inputs)))

=============================================================================
