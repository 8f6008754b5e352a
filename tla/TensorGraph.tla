---------------------------- MODULE TensorGraph ----------------------------
(***************************************************************************)
(* The Graph as autograd and split_graph read it: nodes in the order they  *)
(* were added (nodes_), each with its data operands by port, and the       *)
(* ordered lists of the module's inputs and outputs.  A node is its name,  *)
(* a tuple of a kind and of what it was made for.  The edges autograd adds *)
(* from forward nodes to backward ones order nothing and are left out.     *)
(***************************************************************************)
EXTENDS Integers, Sequences, SequencesExt

CONSTANTS
    Modulus,    \* tensors are represented by one element, modulo Modulus
    ExpAt       \* what Exp does to an element

ASSUME TensorAssumption ==
    /\ Modulus \in Nat \ {0}
    /\ ExpAt \in [0..(Modulus - 1) -> 0..(Modulus - 1)]

EmptyGraph == [nodes |-> <<>>, node |-> [n \in {} |-> n],
               inputs |-> <<>>, outputs |-> <<>>]

\* role: the op of an op, the InputNodeType of an input, the OutputType of an
\* output.
Node(type, role, epoch, ins) ==
    [type |-> type, role |-> role, epoch |-> epoch, ins |-> ins]

\* The entries of s that are in S, in their order.  Sets and functions are passed
\* where SelectSeq and FoldLeft take operators, so that lemmas can be cited for them.
Only(s, S) ==
    LET kept[i \in 0..Len(s)] ==
            IF i = 0 THEN <<>>
            ELSE IF s[i] \in S THEN Append(kept[i - 1], s[i]) ELSE kept[i - 1]
    IN  kept[Len(s)]

\* d taken through f[s[1]], f[s[2]] and so on.
Through(f, s, d) ==
    LET after[i \in 0..Len(s)] == IF i = 0 THEN d ELSE f[s[i]][after[i - 1]]
    IN  after[Len(s)]

With(f, x, y) == [z \in DOMAIN f \cup {x} |-> IF z = x THEN y ELSE f[z]]

HasNode(g, n) == n \in DOMAIN g.node

AddNode(g, n, rec) == [g EXCEPT !.nodes = Append(@, n), !.node = With(@, n, rec)]

\* Nodes added one after another, each with its record in rec.
AddNodes(g, s, rec) ==
    [g EXCEPT !.nodes = @ \o s,
              !.node = [n \in DOMAIN @ \cup ToSet(s) |-> IF n \in ToSet(s) THEN rec[n] ELSE @[n]]]

\* Operands arrive in the order of their ports.
AddEdge(g, p, c) == [g EXCEPT !.node[c].ins = Append(@, p)]

RemoveNode(g, n) ==
    [g EXCEPT !.nodes = Only(@, DOMAIN g.node \ {n}),
              !.node = [m \in DOMAIN @ \ {n} |-> @[m]]]

Replaced(s, old, new) == [i \in DOMAIN s |-> IF s[i] = old THEN new ELSE s[i]]

\* The users of old read new, at the same port.
Redirect(g, old, new) ==
    [g EXCEPT !.node =
        [c \in DOMAIN g.node |-> [g.node[c] EXCEPT !.ins = Replaced(g.node[c].ins, old, new)]]]

Users(g, n) == Only(g.nodes, {m \in DOMAIN g.node : n \in ToSet(g.node[m].ins)})

HasUsersIn(g, n, epoch) == \E m \in ToSet(Users(g, n)) : g.node[m].epoch = epoch

Named(g, s) == Only(s, DOMAIN g.node)
OfType(g, type) == Only(g.nodes, {n \in DOMAIN g.node : g.node[n].type = type})
OfRole(g, role) == Only(g.nodes, {n \in DOMAIN g.node : g.node[n].role = role})
OfEpoch(g, s, epoch) == Only(s, {n \in DOMAIN g.node : g.node[n].epoch = epoch})

\* Inputs nobody uses are not handed on to the lowering.
OrderedModuleInputs(g) == Only(g.inputs, {n \in ToSet(g.inputs) : Users(g, n) # <<>>})

\* Depth first from the nodes in the order they were added; the way from an
\* optimizer's result back to its parameter is no operand here.
TopologicalSort(g) ==
    LET visit[n \in DOMAIN g.node] ==
            [done \in Seq(DOMAIN g.node) |->
                IF n \in ToSet(done) THEN done
                ELSE Append(Through(visit, g.node[n].ins, done), n)]
    IN  Through(visit, g.nodes, <<>>)

-----------------------------------------------------------------------------
\* What the ops compute, and the op that carries a gradient from the result of
\* an op back to one of its operands.

Apply(op, args) ==
    CASE op = "Add" -> (args[1] + args[2]) % Modulus
      [] op = "Subtract" -> (args[1] - args[2]) % Modulus
      [] op = "Multiply" -> (args[1] * args[2]) % Modulus
      [] op = "Exp" -> ExpAt[args[1]]
      [] op = "Nop" -> args[1]

BackwardOp(op, port, operands, output, gradient) ==
    CASE op \in {"Add", "Nop"} -> Node("op", "Nop", "bwd", <<gradient>>)
      [] op = "Multiply" ->
            Node("op", "Multiply", "bwd", <<gradient, operands[3 - port]>>)
      [] op = "Exp" -> Node("op", "Multiply", "bwd", <<output, gradient>>)

\* The elements a run of g computes from those of its inputs.
Values(g, env) ==
    LET val[n \in DOMAIN g.node] ==
            IF g.node[n].type = "input" THEN env[n]
            ELSE IF g.node[n].type = "op"
            THEN Apply(g.node[n].role, [i \in DOMAIN g.node[n].ins |-> val[g.node[n].ins[i]]])
            ELSE val[g.node[n].ins[1]]
    IN  val
=============================================================================
