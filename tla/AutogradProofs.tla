--------------------------- MODULE AutogradProofs ---------------------------
(***************************************************************************)
(* What holds of the graph in each stage of autograd: that the trace of    *)
(* the module, up to the propagation of requires_grad, establishes it, and *)
(* that gradients, the optimizer and the recomputed ops keep it.  A node's *)
(* name tells its kind, and its kind what it may read.                     *)
(***************************************************************************)
EXTENDS Autograd, TensorGraphProofs

-----------------------------------------------------------------------------
\* Kinds of nodes.  A leaf is known by its name; every other name starts with the
\* kind of the node and goes on with what the node was made for.

FwdKinds == {"op", "nop", "output"}
GradKinds == {"gradient", "bw", "combine"}
SinkKinds == {"grad_acc", "output_grad"}
OptKinds == {"lr", "opt_multiply", "opt_subtract"}
AllKinds == FwdKinds \cup GradKinds \cup SinkKinds \cup OptKinds \cup {"recompute"}

OneOf(n, kinds) == n \notin Leaves /\ n[1] \in kinds

OnlyKinds(g, kinds) == \A n \in DOMAIN g.node : n \in Leaves \/ n[1] \in kinds

EpochOf(n) ==
    IF n \in Leaves \/ n[1] \in FwdKinds THEN "fwd"
    ELSE IF n[1] \in OptKinds THEN "opt" ELSE "bwd"

TypeOf(n) ==
    IF n \in Leaves \/ n[1] \in {"gradient", "lr"} THEN "input"
    ELSE IF n[1] \in {"output", "output_grad"} THEN "output"
    ELSE IF n[1] = "grad_acc" THEN "queue" ELSE "op"

OpArity ==
    [o \in {"Add", "Multiply", "Subtract", "Exp", "Nop"} |->
        IF o \in {"Exp", "Nop"} THEN 1 ELSE 2]

RolesOf(n) ==
    IF n \in Weights THEN {"parameter"}
    ELSE IF n \in Leaves THEN {"activation"}
    ELSE IF n[1] = "gradient" THEN {"gradient"}
    ELSE IF n[1] = "lr" THEN {"optimizer_parameter"}
    ELSE IF n[1] \in {"output", "output_grad"} THEN {"external"}
    ELSE IF n[1] = "grad_acc" THEN {"grad_accumulator"}
    ELSE IF n[1] \in FwdKinds THEN {"Add", "Multiply", "Exp", "Nop"}
    ELSE DOMAIN OpArity

Ports(nd) ==
    IF nd.type = "input" THEN 0 ELSE IF nd.type = "op" THEN OpArity[nd.role] ELSE 1

\* What a node may read.  Gradients only flow through the ops of GradKinds; the
\* clones of forward ops never read one.
MayRead(n, role, m) ==
    /\ TypeOf(m) \in {"input", "op"} \/ (TypeOf(m) = "queue" /\ EpochOf(n) = "opt")
    /\ EpochOf(n) = "fwd" => EpochOf(m) = "fwd"
    /\ EpochOf(n) = "bwd" => EpochOf(m) # "opt"
    /\ OneOf(n, SinkKinds) \/ (OneOf(n, GradKinds) /\ role = "Nop") => OneOf(m, GradKinds)
    /\ OneOf(n, {"recompute"}) => EpochOf(m) = "fwd" \/ OneOf(m, {"recompute"})

\* A record that goes with its name, operands aside.
Fits(n, nd) ==
    /\ n \in Leaves \/ n[1] \in AllKinds
    /\ nd.type = TypeOf(n) /\ nd.epoch = EpochOf(n) /\ nd.role \in RolesOf(n)
    /\ \A m \in ToSet(nd.ins) : MayRead(n, nd.role, m)

Whole(n, nd) == Fits(n, nd) /\ Len(nd.ins) = Ports(nd)

\* A graph without cycles in which every node is what its name says.
Well(g) ==
    /\ IsGraph(g) /\ Acyclic(g)
    /\ \A n \in DOMAIN g.node : Whole(n, g.node[n])

-----------------------------------------------------------------------------
\* The traced module.

IsOp(i, o) ==
    /\ o \in [op : UnaryOps \cup BinaryOps, args : Seq(Tensors(MaxOps))]
    /\ Len(o.args) = OpArity[o.op] /\ ToSet(o.args) \subseteq Tensors(i - 1)

IsBody(b) ==
    /\ b \in Seq([op : UnaryOps \cup BinaryOps, args : Seq(Tensors(MaxOps))])
    /\ Len(b) <= MaxOps
    /\ \A i \in DOMAIN b : IsOp(i, b[i])

IsTraced(m) ==
    /\ m = [body |-> m.body, outs |-> m.outs, trained |-> m.trained,
            optimizer |-> m.optimizer, recompute |-> m.recompute]
    /\ IsBody(m.body)
    /\ m.outs \in Seq(Tensors(Len(m.body)) \ Weights) /\ Distinct(m.outs)
    /\ m.trained \subseteq Leaves /\ m.optimizer \in BOOLEAN /\ m.recompute \in BOOLEAN
    /\ Len(m.outs) <= MaxModuleOutputs
    /\ Kinds(m) \subseteq Awkward

ModuleOutputs(m) == [i \in DOMAIN m.outs |-> Output(m.outs[i])]
OutputNodes(m) == ToSet(ModuleOutputs(m))

\* The lists of the graph's inputs and outputs.
Listed(m, g) ==
    /\ Distinct(g.inputs) /\ g.outputs = ModuleOutputs(m)
    /\ \A n \in ToSet(g.inputs) : n \in ToSet(Activations) \/ OneOf(n, {"gradient"})
    /\ \A n \in DOMAIN g.node :
          /\ n \in ToSet(Activations) \/ OneOf(n, {"gradient"}) => n \in ToSet(g.inputs)
          /\ OneOf(n, {"output"}) => n \in OutputNodes(m)
          /\ OneOf(n, {"gradient"}) => \E o \in OutputNodes(m) : n = <<"gradient", o>>

-----------------------------------------------------------------------------
\* Tracing: what a node will read, and what it reads so far.

Wanted(m, u) == IF u[1] = "output" THEN <<u[2]>> ELSE m.body[u[2]].args

RankOf(n) ==
    IF n \in Leaves THEN 0
    ELSE IF n[1] = "nop" THEN 1
    ELSE IF n[1] = "op" THEN n[2] + 1 ELSE MaxOps + 2

TraceName(m, g, n) ==
    \/ n \in Leaves
    \/ \E i \in DOMAIN m.body : n = Result(i)
    \/ n \in OutputNodes(m)
    \/ \E t \in ToSet(m.outs) : n = <<"nop", Output(t)>> /\ t \in Leaves \cap DOMAIN g.node

\* The record of n, of whose operands the first ones are there.
ReadsAsTraced(m, n, nd) ==
    /\ OneOf(n, {"op"}) => nd.role = m.body[n[2]].op
    /\ OneOf(n, {"nop"}) => nd.role = "Nop" /\ nd.ins = <<n[2][2]>>
    /\ n \in Leaves => nd.ins = <<>>
    /\ OneOf(n, {"op", "output"}) =>
          /\ Len(nd.ins) <= Len(Wanted(m, n))
          /\ \A p \in DOMAIN nd.ins :
                nd.ins[p] = Wanted(m, n)[p] \/ (nd.ins[p] = <<"nop", n>> /\ n[1] = "output")

\* The operands still to come wait in the order of their ports, those of the
\* outputs before all others.
Waiting(m, g, td) ==
    /\ td \in Seq([tensor : Tensors(Len(m.body)), user : DOMAIN g.node, port : Nat])
    /\ \A i \in DOMAIN td :
          /\ OneOf(td[i].user, {"op", "output"})
          /\ td[i].port \in (Len(g.node[td[i].user].ins) + 1)..Len(Wanted(m, td[i].user))
          /\ td[i].tensor = Wanted(m, td[i].user)[td[i].port]
    /\ \A u \in DOMAIN g.node : OneOf(u, {"op", "output"}) =>
          \A p \in (Len(g.node[u].ins) + 1)..Len(Wanted(m, u)) :
             \E i \in DOMAIN td : td[i].user = u /\ td[i].port = p
    /\ \A i, j \in DOMAIN td : i < j =>
          /\ td[i].user = td[j].user => td[i].port < td[j].port
          /\ td[j].user[1] = "output" => td[i].user[1] = "output"

IsTracing(m, g, td) ==
    /\ IsGraph(g) /\ g.inputs = <<>> /\ g.outputs = <<>>
    /\ OutputNodes(m) \subseteq DOMAIN g.node
    /\ \A n \in DOMAIN g.node : /\ TraceName(m, g, n)
                                /\ Fits(n, g.node[n])
                                /\ ReadsAsTraced(m, n, g.node[n])
    /\ Waiting(m, g, td)
    /\ \A t \in ToSet(m.outs) \cap Leaves :
          t \in DOMAIN g.node \/ \E i \in DOMAIN td : td[i].user = Output(t)

\* The whole trace.
IsTrace(m, g) ==
    /\ OnlyKinds(g, FwdKinds)
    /\ \A n \in DOMAIN g.node : /\ TraceName(m, g, n)
                                /\ ReadsAsTraced(m, n, g.node[n])

-----------------------------------------------------------------------------
\* Differentiation.

Needs(m, g, rg) ==
    /\ rg \subseteq DOMAIN g.node /\ \A n \in rg : EpochOf(n) = "fwd"
    /\ \A n \in DOMAIN g.node : EpochOf(n) = "fwd" =>
          (n \in rg <=> IF n \in Leaves THEN n \in m.trained
                        ELSE \E x \in ToSet(g.node[n].ins) : x \in rg)

\* Gradients are only gathered for nodes that need one.
Gathered(g, rg, gr) ==
    /\ gr \in [{n \in DOMAIN g.node : EpochOf(n) = "fwd"} -> Seq(DOMAIN g.node)]
    /\ \A n \in DOMAIN gr : gr[n] # <<>> => n \in rg /\ TypeOf(n) # "output"

Read(g, b) == \E u \in DOMAIN g.node : b \in ToSet(g.node[u].ins)

\* Every gradient is read, or waits for a node that is still to be visited.
Awaited(g, gr, pending) ==
    \A b \in DOMAIN g.node : OneOf(b, GradKinds) =>
        Read(g, b) \/ \E n \in pending : b \in ToSet(gr[n])

AllRead(g) == \A b \in DOMAIN g.node : OneOf(b, GradKinds) => Read(g, b)

\* Each output that can be differentiated has its gradient input, or will.
Seeded(m, g, pending) ==
    \A i \in DOMAIN m.outs : Differentiable(m)[m.outs[i]] =>
        Output(m.outs[i]) \in pending \/ <<"gradient", Output(m.outs[i])>> \in DOMAIN g.node

IsSeeding(m, g, td, rg, gr) ==
    /\ OnlyKinds(g, FwdKinds \cup {"gradient"})
    /\ Needs(m, g, rg) /\ Gathered(g, rg, gr)
    /\ \A n \in DOMAIN gr : \A b \in ToSet(gr[n]) : OneOf(b, {"gradient"})
    /\ td \in Seq(OutputNodes(m)) /\ Distinct(td)
    /\ \A o \in ToSet(td) : <<"gradient", o>> \notin DOMAIN g.node
    /\ Awaited(g, gr, DOMAIN gr) /\ Seeded(m, g, ToSet(td))
    /\ \A i \in DOMAIN m.outs : Differentiable(m)[m.outs[i]] =>
          g.node[Output(m.outs[i])].ins[1] \in rg

Sink(n) == IF n \in Weights THEN <<"grad_acc", n>> ELSE <<"output_grad", n>>

Sunk(m, gr, done) ==
    \A n \in m.trained \cap done : gr[n] = <<>> \/ gr[n] = <<Sink(n)>>

\* Users are visited before their operands; what a visit adds is named for it.
IsDifferentiating(m, g, td, rg, gr) ==
    /\ OnlyKinds(g, FwdKinds \cup GradKinds \cup SinkKinds)
    /\ Needs(m, g, rg) /\ Gathered(g, rg, gr)
    /\ td \in Seq(DOMAIN gr) /\ Distinct(td)
    /\ \A i \in DOMAIN td : \A x \in ToSet(g.node[td[i]].ins) :
          \E j \in DOMAIN td : i < j /\ td[j] = x
    /\ \A n \in DOMAIN g.node :
          OneOf(n, {"bw", "combine"} \cup SinkKinds) => n[2] \notin ToSet(td)
    /\ \A n \in ToSet(td) : \A b \in ToSet(gr[n]) : OneOf(b, GradKinds)
    /\ Sunk(m, gr, DOMAIN gr \ ToSet(td))
    /\ Awaited(g, gr, ToSet(td)) /\ Seeded(m, g, {})

-----------------------------------------------------------------------------
\* The optimizer: three nodes for each weight it updates.

Updates(m, g, lb) ==
    /\ DOMAIN lb \subseteq m.trained \cap Weights \cap DOMAIN g.node
    /\ \A w \in DOMAIN lb :
          /\ lb[w] = <<"opt_subtract", w>>
          /\ {<<"lr", w>>, <<"opt_multiply", w>>, <<"opt_subtract", w>>, <<"grad_acc", w>>}
                \subseteq DOMAIN g.node
          /\ g.node[<<"opt_multiply", w>>] =
                Node("op", "Multiply", "opt", <<<<"grad_acc", w>>, <<"lr", w>>>>)
          /\ g.node[<<"opt_subtract", w>>] =
                Node("op", "Subtract", "opt", <<w, <<"opt_multiply", w>>>>)
    /\ \A n \in DOMAIN g.node : OneOf(n, OptKinds) => n[2] \in DOMAIN lb /\ n = <<n[1], n[2]>>

IsOptimizing(m, g, td, gr, lb) ==
    /\ OnlyKinds(g, AllKinds \ {"recompute"})
    /\ gr \in [{n \in DOMAIN g.node : EpochOf(n) = "fwd"} -> Seq(DOMAIN g.node)]
    /\ Sunk(m, gr, DOMAIN gr) /\ Updates(m, g, lb)
    /\ td \in Seq(DOMAIN g.node) /\ Distinct(td)
    /\ \A n \in DOMAIN g.node : OneOf(n, OptKinds) => n[2] \notin ToSet(td)
    /\ AllRead(g) /\ Seeded(m, g, {})

\* What is left of all this when the graph is split.
IsTrainable(m, g, lb) ==
    Updates(m, g, lb) /\ AllRead(g) /\ Seeded(m, g, {})

IsRemoving(g, td) ==
    /\ td \in Seq(DOMAIN g.node) /\ Distinct(td)
    /\ \A n \in ToSet(td) : g.node[n].role = "Nop"

\* A name that is a pair or a triple is no leaf's.
LEMMA NotLeaves ==
    /\ \A k, x : <<k, x>> \notin Leaves
    /\ \A k, x, y : <<k, x, y>> \notin Leaves
  <1>1. \A l \in Leaves : Len(l) = 1
    BY AutogradAssumption
  <1>2. \A k, x : Len(<<k, x>>) = 2
    OBVIOUS
  <1>3. \A k, x, y : Len(<<k, x, y>>) = 3
    OBVIOUS
  <1>4. ASSUME NEW k, NEW x, <<k, x>> \in Leaves PROVE FALSE
    <2>1. Len(<<k, x>>) = 1
      BY <1>1, <1>4
    <2> QED
      BY <2>1, <1>2
  <1>5. ASSUME NEW k, NEW x, NEW y, <<k, x, y>> \in Leaves PROVE FALSE
    <2>1. Len(<<k, x, y>>) = 1
      BY <1>1, <1>5
    <2> QED
      BY <2>1, <1>3
  <1> QED
    BY <1>4, <1>5

\* The kinds are told apart.
LEMMA KindsDiffer ==
    /\ \A k, x : <<k, x>>[1] = k /\ <<k, x>>[2] = x
    /\ \A k, x, y : <<k, x, y>>[1] = k /\ <<k, x, y>>[2] = x /\ <<k, x, y>>[3] = y
    /\ \A n, K : OneOf(n, K) => n \notin Leaves /\ n[1] \in K
    /\ \A k, x, K : OneOf(<<k, x>>, K) <=> k \in K
    /\ \A k, x, y, K : OneOf(<<k, x, y>>, K) <=> k \in K
  BY NotLeaves DEF OneOf

\* The tensors of the operations before i.
LEMMA TensorsAre ==
    ASSUME NEW i \in Int
    PROVE  \A t \in Tensors(i) :
              \/ t \in Leaves
              \/ \E j \in 1..i : t = Result(j) /\ t \notin Leaves /\ t[1] = "op" /\ t[2] = j
  BY NotLeaves DEF Tensors, Result

\* A longer body has the tensors of a shorter one.
LEMMA TensorsGrow ==
    ASSUME NEW i \in Int, NEW j \in Int, i <= j
    PROVE  Tensors(i) \subseteq Tensors(j)
  BY DEF Tensors

-----------------------------------------------------------------------------
OfSizeUpTo(f, n, ofSize) ==
    ofSize = [k \in 0..n |->
                 IF k = 0 THEN {<<>>}
                 ELSE Longer(ofSize[k - 1], OpsAt(f, k))]

BodyOps == [op : UnaryOps \cup BinaryOps, args : Seq(Tensors(MaxOps))]

\* The operations that may come at place i read what there is by then.
LEMMA OpsAreOps ==
    ASSUME NEW f \in Families, NEW i \in 1..MaxOps, NEW o \in OpsAt(f, i)
    PROVE  IsOp(i, o)
  <1> DEFINE at == (ToSet(Activations) \cup f.weights) \cup {Result(j) : j \in 1..(i - 1)}
  <1>1. /\ f.weights \subseteq Weights /\ MaxOps \in Nat
        /\ UnaryOps \subseteq {"Exp", "Nop"} /\ BinaryOps \subseteq {"Add", "Multiply"}
    BY AutogradAssumption
  <1>2. at \subseteq Tensors(i - 1) /\ Tensors(i - 1) \subseteq Tensors(MaxOps)
    <2>1. at \subseteq Tensors(i - 1)
      BY <1>1 DEF Tensors, Leaves
    <2>2. i - 1 \in Int /\ MaxOps \in Int /\ i - 1 <= MaxOps
      BY <1>1
    <2> QED
      BY <2>1, <2>2, TensorsGrow
  <1> DEFINE one == {[op |-> p, args |-> <<a>>] : p \in UnaryOps \cap f.ops, a \in at}
             two == {[op |-> p, args |-> <<a, b>>] :
                        p \in BinaryOps \cap f.ops, a \in at, b \in at}
  <1>3. o \in one \cup two
    BY DEF OpsAt
  <1> HIDE DEF at
  <1>4. CASE o \in one
    <2>1. PICK p \in UnaryOps, a \in at : o = [op |-> p, args |-> <<a>>]
      BY <1>4
    <2>2. a \in Tensors(i - 1) /\ a \in Tensors(MaxOps)
      BY <1>2
    <2>3. <<a>> \in Seq(Tensors(MaxOps)) /\ Len(<<a>>) = 1 /\ ToSet(<<a>>) = {a}
      BY <2>2 DEF ToSet
    <2>4. p \in DOMAIN OpArity /\ OpArity[p] = 1
      BY <1>1 DEF OpArity
    <2> QED
      BY <2>1, <2>2, <2>3, <2>4 DEF IsOp
  <1>5. CASE o \in two
    <2>1. PICK p \in BinaryOps, a \in at, b \in at : o = [op |-> p, args |-> <<a, b>>]
      BY <1>5
    <2>2. {a, b} \subseteq Tensors(i - 1) /\ {a, b} \subseteq Tensors(MaxOps)
      BY <1>2
    <2>3. <<a, b>> \in Seq(Tensors(MaxOps)) /\ Len(<<a, b>>) = 2 /\ ToSet(<<a, b>>) = {a, b}
      BY <2>2 DEF ToSet
    <2>4. p \in DOMAIN OpArity /\ OpArity[p] = 2
      BY <1>1 DEF OpArity
    <2> QED
      BY <2>1, <2>2, <2>3, <2>4 DEF IsOp
  <1> QED
    BY <1>3, <1>4, <1>5

\* Every body a family has is one.
LEMMA BodiesAreBodies ==
    ASSUME NEW f \in Families, NEW b \in Bodies(f)
    PROVE  IsBody(b)
  <1>1. MaxOps \in Nat /\ f.size \in 1..MaxOps
    BY AutogradAssumption
  <1>2. f.size \in Nat
    BY <1>1
  <1> DEFINE Good == {n \in Nat : \E ofSize : OfSizeUpTo(f, n, ofSize)}
  <1>3. 0 \in Good
    <2> DEFINE ofSize == [k \in 0..0 |-> {<<>>}]
    <2>1. OfSizeUpTo(f, 0, ofSize)
      BY DEF OfSizeUpTo
    <2> QED
      BY <2>1
  <1>4. ASSUME NEW n \in Nat, n \in Good PROVE n + 1 \in Good
    <2>1. PICK ofSize : OfSizeUpTo(f, n, ofSize)
      BY <1>4
    <2> DEFINE new == Longer(ofSize[n], OpsAt(f, n + 1))
               more == [k \in 0..(n + 1) |-> IF k = n + 1 THEN new ELSE ofSize[k]]
    <2>2. ASSUME NEW k \in 0..(n + 1)
          PROVE  more[k] = IF k = 0 THEN {<<>>}
                           ELSE Longer(more[k - 1], OpsAt(f, k))
      <3>1. CASE k = n + 1
        <4>1. more[k] = new /\ k # 0 /\ k - 1 = n /\ more[n] = ofSize[n]
          BY <3>1
        <4> QED
          BY <4>1, <3>1
      <3>2. CASE k \in 0..n
        <4>1. more[k] = ofSize[k] /\ (k # 0 => k - 1 \in 0..n /\ more[k - 1] = ofSize[k - 1])
          BY <3>2
        <4>2. ofSize[k] = IF k = 0 THEN {<<>>}
                          ELSE Longer(ofSize[k - 1], OpsAt(f, k))
          BY <3>2, <2>1 DEF OfSizeUpTo
        <4> HIDE DEF more
        <4> QED
          BY <4>1, <4>2
      <3> QED
        BY <3>1, <3>2
    <2>3. more = [k \in 0..(n + 1) |-> more[k]]
      OBVIOUS
    <2> HIDE DEF more
    <2>4. OfSizeUpTo(f, n + 1, more)
      BY <2>2, <2>3 DEF OfSizeUpTo
    <2> QED
      BY <2>4
  <1>5. f.size \in Good
    <2> HIDE DEF Good
    <2> QED
      BY <1>2, <1>3, <1>4, SetInduction
  <1> DEFINE ofSize == CHOOSE s : OfSizeUpTo(f, f.size, s)
  <1>6. OfSizeUpTo(f, f.size, ofSize)
    BY <1>5
  <1>7. b \in UNION {ofSize[k] : k \in 1..f.size}
    BY DEF Bodies, OfSizeUpTo
  <1> HIDE DEF ofSize
  <1>13. \A k \in 0..f.size :
           ofSize[k] = IF k = 0 THEN {<<>>}
                       ELSE Longer(ofSize[k - 1], OpsAt(f, k))
    BY <1>6 DEF OfSizeUpTo
  <1> DEFINE Sized(k) == \A c \in ofSize[k] : IsBody(c) /\ Len(c) = k
             Fine == {n \in Nat : n <= f.size => Sized(n)}
  <1>8. 0 \in Fine
    <2>1. ofSize[0] = {<<>>}
      BY <1>2, <1>6 DEF OfSizeUpTo
    <2>2. IsBody(<<>>) /\ Len(<<>>) = 0
      BY <1>1 DEF IsBody
    <2> QED
      BY <2>1, <2>2
  <1>9. ASSUME NEW n \in Nat, n \in Fine, n + 1 <= f.size PROVE Sized(n + 1)
    <2>1. n + 1 \in 0..f.size /\ n + 1 # 0 /\ (n + 1) - 1 = n /\ n + 1 \in 1..MaxOps
      BY <1>1, <1>2, <1>9
    <2>2. ofSize[n + 1] = Longer(ofSize[n], OpsAt(f, n + 1))
      BY <1>13, <2>1
    <2>3. ASSUME NEW c \in ofSize[n], NEW o \in OpsAt(f, n + 1)
          PROVE  IsBody(Append(c, o)) /\ Len(Append(c, o)) = n + 1
      <3> DEFINE d == Append(c, o)
      <3>3. IsBody(c) /\ Len(c) = n
        <4>1. Sized(n)
          BY <1>9, <1>2
        <4> QED
          BY <4>1
      <3>4. IsOp(n + 1, o)
        BY <2>1, OpsAreOps
      <3>5. c \in Seq(BodyOps) /\ o \in BodyOps
        BY <3>3, <3>4 DEF IsBody, IsOp, BodyOps
      <3>6. /\ d \in Seq(BodyOps) /\ Len(d) = n + 1 /\ DOMAIN d = 1..(n + 1) /\ DOMAIN c = 1..n
            /\ \A i \in 1..n : d[i] = c[i]
            /\ d[n + 1] = o
        BY <3>3, <3>5, AppendProperties
      <3> HIDE DEF d
      <3>7. ASSUME NEW i \in DOMAIN d PROVE IsOp(i, d[i])
        <4>1. CASE i \in 1..n
          BY <4>1, <3>3, <3>6 DEF IsBody
        <4>2. CASE i = n + 1
          BY <4>2, <3>4, <3>6
        <4> QED
          BY <4>1, <4>2, <3>6
      <3>8. IsBody(d)
        <4>1. n + 1 <= MaxOps
          BY <2>1, <1>1
        <4> QED
          BY <4>1, <3>6, <3>7 DEF IsBody, BodyOps
      <3> QED
        BY <3>6, <3>8 DEF d
    <2>4. ASSUME NEW d \in ofSize[n + 1] PROVE IsBody(d) /\ Len(d) = n + 1
      <3>1. PICK c \in ofSize[n], o \in OpsAt(f, n + 1) : d = Append(c, o)
        BY <2>2 DEF Longer
      <3> QED
        BY <3>1, <2>3
    <2> QED
      BY <2>4
  <1>10. \A n \in Nat : n \in Fine
    <2>1. ASSUME NEW n \in Nat, n \in Fine PROVE n + 1 \in Fine
      <3>1. CASE n + 1 <= f.size
        BY <3>1, <2>1, <1>9
      <3>2. CASE ~ n + 1 <= f.size
        BY <3>2
      <3> QED
        BY <3>1, <3>2
    <2> HIDE DEF Fine
    <2> QED
      BY <1>8, <2>1, SetInduction
  <1>11. PICK k \in 1..f.size : b \in ofSize[k]
    BY <1>7
  <1>12. Sized(k)
    BY <1>10, <1>11
  <1> QED
    BY <1>11, <1>12

\* The record of a new node, and its fields.
LEMMA NodeIs ==
    ASSUME NEW D, NEW type \in Types, NEW role \in Roles, NEW epoch \in Epochs,
           NEW ins \in Seq(D)
    PROVE  /\ Node(type, role, epoch, ins) \in Records(D)
           /\ Node(type, role, epoch, ins).type = type
           /\ Node(type, role, epoch, ins).role = role
           /\ Node(type, role, epoch, ins).epoch = epoch
           /\ Node(type, role, epoch, ins).ins = ins
  BY DEF Node, Records

\* What a name tells of a leaf and of the nodes of each kind.
LEMMA LeavesAre ==
    ASSUME NEW n \in Leaves
    PROVE  /\ TypeOf(n) = "input" /\ EpochOf(n) = "fwd" /\ RankOf(n) = 0
           /\ RolesOf(n) = IF n \in Weights THEN {"parameter"} ELSE {"activation"}
           /\ \A K : ~OneOf(n, K)
  BY DEF TypeOf, EpochOf, RankOf, RolesOf, OneOf

\* The type, the epoch and the roles of a node, by the kind in its name.
LEMMA NamesAre ==
    ASSUME NEW x, NEW y
    PROVE  /\ /\ TypeOf(<<"output", x>>) = "output" /\ EpochOf(<<"output", x>>) = "fwd"
              /\ RolesOf(<<"output", x>>) = {"external"}
           /\ /\ TypeOf(<<"op", x>>) = "op" /\ EpochOf(<<"op", x>>) = "fwd"
              /\ RolesOf(<<"op", x>>) = {"Add", "Multiply", "Exp", "Nop"}
           /\ /\ TypeOf(<<"nop", x>>) = "op" /\ EpochOf(<<"nop", x>>) = "fwd"
              /\ RolesOf(<<"nop", x>>) = {"Add", "Multiply", "Exp", "Nop"}
           /\ /\ TypeOf(<<"gradient", x>>) = "input" /\ EpochOf(<<"gradient", x>>) = "bwd"
              /\ RolesOf(<<"gradient", x>>) = {"gradient"}
           /\ /\ TypeOf(<<"bw", x, y>>) = "op" /\ EpochOf(<<"bw", x, y>>) = "bwd"
              /\ RolesOf(<<"bw", x, y>>) = DOMAIN OpArity
           /\ /\ TypeOf(<<"combine", x, y>>) = "op" /\ EpochOf(<<"combine", x, y>>) = "bwd"
              /\ RolesOf(<<"combine", x, y>>) = DOMAIN OpArity
           /\ /\ TypeOf(<<"grad_acc", x>>) = "queue" /\ EpochOf(<<"grad_acc", x>>) = "bwd"
              /\ RolesOf(<<"grad_acc", x>>) = {"grad_accumulator"}
           /\ /\ TypeOf(<<"output_grad", x>>) = "output" /\ EpochOf(<<"output_grad", x>>) = "bwd"
              /\ RolesOf(<<"output_grad", x>>) = {"external"}
           /\ /\ TypeOf(<<"lr", x>>) = "input" /\ EpochOf(<<"lr", x>>) = "opt"
              /\ RolesOf(<<"lr", x>>) = {"optimizer_parameter"}
           /\ /\ TypeOf(<<"opt_multiply", x>>) = "op" /\ EpochOf(<<"opt_multiply", x>>) = "opt"
              /\ RolesOf(<<"opt_multiply", x>>) = DOMAIN OpArity
           /\ /\ TypeOf(<<"opt_subtract", x>>) = "op" /\ EpochOf(<<"opt_subtract", x>>) = "opt"
              /\ RolesOf(<<"opt_subtract", x>>) = DOMAIN OpArity
           /\ /\ TypeOf(<<"recompute", x>>) = "op" /\ EpochOf(<<"recompute", x>>) = "bwd"
              /\ RolesOf(<<"recompute", x>>) = DOMAIN OpArity
  <1>1. \A k, z : <<k, z>> \notin Leaves /\ <<k, z>> \notin Weights /\ <<k, z>>[1] = k
    BY NotLeaves DEF Leaves
  <1>2. \A k, z, v : <<k, z, v>> \notin Leaves /\ <<k, z, v>> \notin Weights /\ <<k, z, v>>[1] = k
    BY NotLeaves DEF Leaves
  <1> QED
    BY <1>1, <1>2 DEF TypeOf, EpochOf, RolesOf, FwdKinds, OptKinds

\* An output waits for its tensor, an operation for its operands.
LEMMA WantedIs ==
    /\ \A m, t : Wanted(m, Output(t)) = <<t>>
    /\ \A m, i : Wanted(m, Result(i)) = m.body[i].args
  BY DEF Wanted, Output, Result

\* A graph starts without nodes.
LEMMA EmptyIs ==
    IsGraph(EmptyGraph) /\ DOMAIN EmptyGraph.node = {} /\ Acyclic(EmptyGraph)
  <1>1. DOMAIN EmptyGraph.node = {} /\ EmptyGraph.nodes = <<>>
        /\ EmptyGraph.inputs = <<>> /\ EmptyGraph.outputs = <<>>
    BY DEF EmptyGraph
  <1>2. EmptyGraph.node \in [{} -> Records({})]
    BY DEF EmptyGraph
  <1>3. <<>> \in Seq({}) /\ ToSet(<<>>) = {} /\ Distinct(<<>>)
    BY DEF ToSet, Distinct
  <1>4. EmptyGraph \in [nodes : Seq({}), node : [{} -> Records({})],
                        inputs : Seq({}), outputs : Seq({})]
    BY <1>2, <1>3 DEF EmptyGraph
  <1>5. [n \in {} |-> 0] \in Ranks(EmptyGraph)
    BY <1>1 DEF Ranks
  <1> QED
    BY <1>1, <1>3, <1>4, <1>5 DEF IsGraph, Acyclic

\* The module's outputs as nodes.
LEMMA OutputsAre ==
    ASSUME NEW m, IsTraced(m)
    PROVE  /\ ModuleOutputs(m) \in Seq(OutputNodes(m)) /\ Distinct(ModuleOutputs(m))
           /\ Len(ModuleOutputs(m)) = Len(m.outs) /\ DOMAIN ModuleOutputs(m) = DOMAIN m.outs
           /\ \A i \in DOMAIN m.outs : ModuleOutputs(m)[i] = Output(m.outs[i])
           /\ OutputNodes(m) = {Output(t) : t \in ToSet(m.outs)}
  <1>1. m.outs \in Seq(Tensors(Len(m.body))) /\ Distinct(m.outs)
    BY DEF IsTraced
  <1> DEFINE s == ModuleOutputs(m)
  <1>2. s = [i \in 1..Len(m.outs) |-> Output(m.outs[i])] /\ DOMAIN m.outs = 1..Len(m.outs)
        /\ Len(m.outs) \in Nat
    BY <1>1 DEF ModuleOutputs
  <1>3. DOMAIN s = 1..Len(m.outs) /\ \A i \in DOMAIN s : s[i] = Output(m.outs[i])
    BY <1>2
  <1>4. OutputNodes(m) = {s[i] : i \in DOMAIN s}
    BY DEF OutputNodes, ToSet
  <1>5. s \in Seq(OutputNodes(m)) /\ Len(s) = Len(m.outs)
    BY <1>2, <1>3, <1>4
  <1>6. Distinct(s)
    BY <1>1, <1>2, <1>3 DEF Distinct, Output
  <1>7. OutputNodes(m) = {Output(t) : t \in ToSet(m.outs)}
    BY <1>2, <1>3, <1>4 DEF ToSet
  <1> QED
    BY <1>2, <1>3, <1>5, <1>6, <1>7

\* The module taken in is one.
LEMMA InitIsTraced ==
    ASSUME AutogradInit
    PROVE  IsTraced(model)
  <1>a. PICK f \in Families : \E b \in Bodies(f) : \E s \in OutputLists(Len(b)) :
           model = [body |-> b, outs |-> s, trained |-> f.trained,
                    optimizer |-> f.optimizer, recompute |-> f.recompute]
    BY DEF AutogradInit
  <1>b. PICK b \in Bodies(f) : \E s \in OutputLists(Len(b)) :
           model = [body |-> b, outs |-> s, trained |-> f.trained,
                    optimizer |-> f.optimizer, recompute |-> f.recompute]
    BY <1>a
  <1>1. PICK s \in OutputLists(Len(b)) :
           model = [body |-> b, outs |-> s, trained |-> f.trained,
                    optimizer |-> f.optimizer, recompute |-> f.recompute]
    BY <1>b
  <1>2. IsBody(b)
    BY BodiesAreBodies
  <1>3. s \in Seq(Tensors(Len(b)) \ Weights) /\ Distinct(s) /\ Len(s) <= MaxModuleOutputs
    <2>1. PICK k \in 1..MaxModuleOutputs : s \in [1..k -> Tensors(Len(b)) \ Weights]
      BY DEF OutputLists
    <2>2. \A i, j \in DOMAIN s : s[i] = s[j] => i = j
      BY DEF OutputLists
    <2>3. k \in Nat /\ k <= MaxModuleOutputs
      BY <2>1, AutogradAssumption
    <2> QED
      BY <2>1, <2>2, <2>3 DEF Distinct
  <1>4. f.trained \subseteq Leaves /\ f.optimizer \in BOOLEAN /\ f.recompute \in BOOLEAN
    BY AutogradAssumption
  <1>5. Kinds(model) \subseteq Awkward
    BY DEF AutogradInit, IsModel
  <1> QED
    BY <1>1, <1>2, <1>3, <1>4, <1>5 DEF IsTraced

\* At first there are the outputs only, each waiting for its tensor.
LEMMA InitIsTracing ==
    ASSUME AutogradInit
    PROVE  IsTracing(model, graph, todo) /\ DOMAIN graph.node = OutputNodes(model)
  <1> DEFINE rec == [o \in ToSet(Outputs) |-> Node("output", "external", "fwd", <<>>)]
  <1>1. IsTraced(model)
    BY InitIsTraced
  <1>2. /\ graph = AddNodes(EmptyGraph, Outputs, rec)
        /\ todo = [i \in DOMAIN model.outs |-> Use(model.outs[i], Output(model.outs[i]), 1)]
    BY DEF AutogradInit
  <1>3. /\ Outputs = ModuleOutputs(model) /\ ToSet(Outputs) = OutputNodes(model)
        /\ Outputs \in Seq(OutputNodes(model)) /\ Distinct(Outputs)
        /\ DOMAIN Outputs = DOMAIN model.outs
        /\ \A i \in DOMAIN model.outs : Outputs[i] = Output(model.outs[i])
    BY <1>1, OutputsAre DEF Outputs, ModuleOutputs, OutputNodes
  <1> DEFINE D == OutputNodes(model)
  <1>4. Node("output", "external", "fwd", <<>>) \in Records(D)
    <2>1. <<>> \in Seq(D)
      OBVIOUS
    <2>3. "external" \in Roles
      BY DEF Roles
    <2>2. "output" \in Types /\ "fwd" \in Epochs
      BY DEF Types, Epochs
    <2> HIDE DEF D
    <2> QED
      BY <2>1, <2>2, <2>3, NodeIs
  <1>5. \A o \in D : rec[o] = Node("output", "external", "fwd", <<>>)
    BY <1>3
  <1>6. \A i \in DOMAIN Outputs : rec[Outputs[i]] \in Records(DOMAIN EmptyGraph.node \cup ToSet(Outputs))
    <2>1. \A i \in DOMAIN Outputs : Outputs[i] \in D
      BY <1>3
    <2>2. DOMAIN EmptyGraph.node \cup ToSet(Outputs) = D
      BY <1>3, EmptyIs
    <2> HIDE DEF rec
    <2> QED
      BY <2>1, <2>2, <1>4, <1>5
  <1>7. IsGraph(graph) /\ IsExtension(EmptyGraph, graph, D, rec)
    <2>1. ToSet(Outputs) \cap DOMAIN EmptyGraph.node = {}
      BY EmptyIs
    <2> HIDE DEF rec
    <2> QED
      BY <1>2, <1>3, <1>6, <2>1, EmptyIs, AddNodesIs
  <1>8. /\ DOMAIN graph.node = D /\ graph.inputs = <<>> /\ graph.outputs = <<>>
        /\ \A o \in D : graph.node[o] = Node("output", "external", "fwd", <<>>)
    <2>1. EmptyGraph.inputs = <<>> /\ EmptyGraph.outputs = <<>> /\ DOMAIN EmptyGraph.node = {}
      BY EmptyIs DEF EmptyGraph
    <2> HIDE DEF rec
    <2> QED
      BY <2>1, <1>5, <1>7 DEF IsExtension
  <1>9. \A o \in D : graph.node[o].ins = <<>> /\ graph.node[o].type = "output"
                     /\ graph.node[o].role = "external" /\ graph.node[o].epoch = "fwd"
    BY <1>8 DEF Node
  <1>10. D = {Output(t) : t \in ToSet(model.outs)}
    BY <1>1, OutputsAre
  <1>11. \A o \in D : \E t : o = Output(t) /\ o = <<"output", t>> /\ o \notin Leaves
                             /\ o[1] = "output" /\ o[2] = t
    BY <1>10, NotLeaves DEF Output
  <1>12. ASSUME NEW o \in D
         PROVE  TraceName(model, graph, o) /\ Fits(o, graph.node[o])
                /\ ReadsAsTraced(model, o, graph.node[o])
    <2>1. PICK t : o = <<"output", t>> /\ o = Output(t) /\ o \notin Leaves /\ o[1] = "output"
      BY <1>11
    <2>2. TypeOf(o) = "output" /\ EpochOf(o) = "fwd" /\ RolesOf(o) = {"external"}
      <3>1. /\ TypeOf(<<"output", t>>) = "output" /\ EpochOf(<<"output", t>>) = "fwd"
            /\ RolesOf(<<"output", t>>) = {"external"}
        BY NamesAre
      <3> QED
        BY <2>1, <3>1
    <2>3. ToSet(<<>>) = {} /\ DOMAIN <<>> = {} /\ Len(<<>>) = 0
      BY DEF ToSet
    <2>4. Fits(o, graph.node[o])
      BY <2>1, <2>2, <2>3, <1>9 DEF Fits, AllKinds, FwdKinds
    <2>5. Wanted(model, o) = <<t>>
      BY <2>1, WantedIs
    <2>6. ReadsAsTraced(model, o, graph.node[o])
      BY <2>1, <2>3, <2>5, <1>9 DEF ReadsAsTraced, OneOf
    <2> QED
      BY <2>4, <2>6 DEF TraceName
  <1>13. model.outs \in Seq(Tensors(Len(model.body)))
    BY <1>1 DEF IsTraced
  <1>14. DOMAIN todo = DOMAIN model.outs /\ DOMAIN model.outs = 1..Len(model.outs)
         /\ Len(model.outs) \in Nat
         /\ \A i \in DOMAIN todo : todo[i].tensor = model.outs[i]
                                   /\ todo[i].user = Output(model.outs[i]) /\ todo[i].port = 1
                                   /\ model.outs[i] \in Tensors(Len(model.body))
                                   /\ Output(model.outs[i]) \in D
    BY <1>2, <1>10, <1>13 DEF Use, ToSet
  <1>15. Waiting(model, graph, todo)
    <2>1. todo \in Seq([tensor : Tensors(Len(model.body)), user : DOMAIN graph.node, port : Nat])
      <3>1. \A i \in 1..Len(model.outs) :
               todo[i] \in [tensor : Tensors(Len(model.body)), user : DOMAIN graph.node, port : Nat]
        BY <1>2, <1>8, <1>14 DEF Use
      <3>2. todo = [i \in 1..Len(model.outs) |-> todo[i]] /\ Len(model.outs) \in Nat
        BY <1>2, <1>14
      <3> DEFINE Uses == [tensor : Tensors(Len(model.body)), user : DOMAIN graph.node, port : Nat]
      <3> HIDE DEF Uses
      <3>3. \A i \in 1..Len(model.outs) : todo[i] \in Uses
        BY <3>1 DEF Uses
      <3>4. todo \in Seq(Uses)
        BY <3>2, <3>3
      <3> QED
        BY <3>4 DEF Uses
    <2>2. ASSUME NEW i \in DOMAIN todo
          PROVE  /\ OneOf(todo[i].user, {"op", "output"})
                 /\ todo[i].port \in (Len(graph.node[todo[i].user].ins) + 1)..Len(Wanted(model, todo[i].user))
                 /\ todo[i].tensor = Wanted(model, todo[i].user)[todo[i].port]
                 /\ todo[i].user[1] = "output" /\ todo[i].user[2] = model.outs[i]
      <3>1. todo[i].user = Output(model.outs[i]) /\ todo[i].user \in D /\ todo[i].port = 1
            /\ todo[i].tensor = model.outs[i]
        BY <1>14
      <3>2. Wanted(model, todo[i].user) = <<model.outs[i]>>
        BY <3>1, WantedIs
      <3>3. Len(graph.node[todo[i].user].ins) = 0
        BY <3>1, <1>9
      <3>4. OneOf(todo[i].user, {"op", "output"})
        BY <3>1, NotLeaves DEF OneOf, Output
      <3> QED
        BY <3>1, <3>2, <3>3, <3>4 DEF Output
    <2>3. ASSUME NEW u \in DOMAIN graph.node,
                 NEW p \in (Len(graph.node[u].ins) + 1)..Len(Wanted(model, u))
          PROVE  \E i \in DOMAIN todo : todo[i].user = u /\ todo[i].port = p
      <3>1. PICK i \in DOMAIN model.outs : u = Output(model.outs[i])
        BY <1>8, <1>10 DEF ToSet
      <3>2. Len(graph.node[u].ins) = 0 /\ Len(Wanted(model, u)) = 1
        BY <3>1, <1>8, <1>9, WantedIs
      <3> QED
        BY <3>1, <3>2, <1>14
    <2>4. \A i, j \in DOMAIN todo : todo[i].user = todo[j].user => i = j
      <3>1. \A i, j \in DOMAIN model.outs : model.outs[i] = model.outs[j] => i = j
        BY <1>1 DEF IsTraced, Distinct
      <3> QED
        BY <2>2, <3>1, <1>14
    <2>5. \A i, j \in DOMAIN todo : i < j => todo[i].user # todo[j].user
      BY <2>4, <1>14
    <2> QED
      BY <2>1, <2>2, <2>3, <2>5 DEF Waiting
  <1>16. \A t \in ToSet(model.outs) \cap Leaves : \E i \in DOMAIN todo : todo[i].user = Output(t)
    BY <1>14 DEF ToSet
  <1> QED
    BY <1>7, <1>8, <1>12, <1>15, <1>16 DEF IsTracing

\* A node that waits for operands is an operation of the module or one of its outputs.
LEMMA TracedUser ==
    ASSUME NEW m, IsTraced(m), NEW g, NEW u, TraceName(m, g, u), OneOf(u, {"op", "output"})
    PROVE  /\ EpochOf(u) = "fwd" /\ Wanted(m, u) \in Seq(Tensors(Len(m.body)))
           /\ \/ u[1] = "op" /\ u \notin OutputNodes(m)
                 /\ \E i \in DOMAIN m.body : u = Result(i) /\ Wanted(m, u) = m.body[i].args
                                             /\ ToSet(m.body[i].args) \subseteq Tensors(i - 1)
              \/ u[1] = "output" /\ u \in OutputNodes(m)
                 /\ \E t \in ToSet(m.outs) : u = Output(t) /\ Wanted(m, u) = <<t>>
  <1>1. u \notin Leaves /\ u[1] \in {"op", "output"}
    BY DEF OneOf
  <1>2. m.body \in Seq(BodyOps) /\ \A i \in DOMAIN m.body : IsOp(i, m.body[i])
    BY DEF IsTraced, IsBody, BodyOps
  <1>3. DOMAIN m.body = 1..Len(m.body) /\ Len(m.body) \in Nat
    BY <1>2
  <1>4. \A i \in DOMAIN m.body : m.body[i].args \in Seq(Tensors(MaxOps))
                                 /\ ToSet(m.body[i].args) \subseteq Tensors(i - 1)
    BY <1>2 DEF IsOp
  <1>5. CASE \E i \in DOMAIN m.body : u = Result(i)
    <2>1. PICK i \in DOMAIN m.body : u = Result(i)
      BY <1>5
    <2>2. u = <<"op", i>> /\ u[1] = "op"
      BY <2>1 DEF Result
    <2>3. Tensors(i - 1) \subseteq Tensors(Len(m.body))
      <3>1. i - 1 \in Int /\ Len(m.body) \in Int /\ i - 1 <= Len(m.body)
        BY <1>3
      <3> QED
        BY <3>1, TensorsGrow
    <2>4. Wanted(m, u) = m.body[i].args
      BY <2>1, WantedIs
    <2>5. Wanted(m, u) \in Seq(Tensors(Len(m.body)))
      <3>1. ToSet(m.body[i].args) \subseteq Tensors(Len(m.body))
        BY <1>4, <2>3
      <3> QED
        BY <1>4, <2>4, <3>1, Retyped
    <2>6. EpochOf(u) = "fwd"
      <3>1. EpochOf(<<"op", i>>) = "fwd"
        BY NamesAre
      <3> QED
        BY <3>1, <2>2
    <2>7. u \notin OutputNodes(m)
      <3>1. OutputNodes(m) = {Output(t) : t \in ToSet(m.outs)}
        BY OutputsAre
      <3> QED
        BY <2>2, <3>1 DEF Output
    <2> QED
      BY <1>4, <2>1, <2>2, <2>4, <2>5, <2>6, <2>7
  <1>6. CASE u \in OutputNodes(m)
    <2>1. PICK t \in ToSet(m.outs) : u = Output(t)
      BY <1>6, OutputsAre
    <2>2. u = <<"output", t>> /\ u[1] = "output"
      BY <2>1 DEF Output
    <2>3. Wanted(m, u) = <<t>>
      BY <2>1, WantedIs
    <2>4. t \in Tensors(Len(m.body))
      <3>1. m.outs \in Seq(Tensors(Len(m.body)))
        BY DEF IsTraced
      <3> QED
        BY <3>1, Entries
    <2>5. EpochOf(u) = "fwd"
      <3>1. EpochOf(<<"output", t>>) = "fwd"
        BY NamesAre
      <3> QED
        BY <3>1, <2>2
    <2>6. Wanted(m, u) \in Seq(Tensors(Len(m.body)))
      BY <2>3, <2>4
    <2> QED
      BY <1>6, <2>1, <2>2, <2>3, <2>5, <2>6
  <1>7. \A t : <<"nop", Output(t)>>[1] = "nop"
    OBVIOUS
  <1> QED
    BY <1>1, <1>5, <1>6, <1>7 DEF TraceName

\* The next operand is the next port of its user.
LEMMA HeadOfTodo ==
    ASSUME NEW m, IsTraced(m), NEW g, NEW td, IsTracing(m, g, td), td # <<>>
    PROVE  LET t == Head(td).tensor
               user == Head(td).user
               want == Wanted(m, user)
           IN  /\ user \in DOMAIN g.node /\ OneOf(user, {"op", "output"})
               /\ EpochOf(user) = "fwd"
               /\ t \in Tensors(Len(m.body))
               /\ Len(g.node[user].ins) + 1 <= Len(want)
               /\ t = want[Len(g.node[user].ins) + 1]
               /\ Head(td).port = Len(g.node[user].ins) + 1
               /\ \A x : user = Output(x) => x = t
               /\ t \in ToSet(m.outs) \cap Leaves /\ t \notin DOMAIN g.node => user = Output(t)
  <1> DEFINE t == Head(td).tensor
             user == Head(td).user
             want == Wanted(m, user)
             Uses == [tensor : Tensors(Len(m.body)), user : DOMAIN g.node, port : Nat]
             k == Len(g.node[user].ins)
  <1>1. Waiting(m, g, td) /\ td \in Seq(Uses)
    BY DEF IsTracing, Waiting
  <1>2. Head(td) \in Uses /\ 1 \in DOMAIN td /\ Head(td) = td[1] /\ DOMAIN td = 1..Len(td)
    <2> HIDE DEF Uses
    <2> QED
      BY <1>1
  <1>3. user \in DOMAIN g.node /\ t \in Tensors(Len(m.body))
    BY <1>2
  <1>4. /\ OneOf(user, {"op", "output"})
        /\ td[1].port \in (k + 1)..Len(want)
        /\ t = want[td[1].port]
    BY <1>1, <1>2 DEF Waiting
  <1>5. IsGraph(g) /\ TraceName(m, g, user)
    BY <1>3 DEF IsTracing
  <1>6. k \in Nat
    BY <1>3, <1>5 DEF IsGraph, Records
  <1>7. want \in Seq(Tensors(Len(m.body))) /\ EpochOf(user) = "fwd"
    BY <1>4, <1>5, TracedUser
  <1>8. k + 1 <= Len(want) /\ Len(want) \in Nat
    BY <1>4, <1>6, <1>7
  <1>9. PICK i \in DOMAIN td : td[i].user = user /\ td[i].port = k + 1
    <2>1. k + 1 \in (k + 1)..Len(want)
      BY <1>6, <1>8
    <2> QED
      BY <2>1, <1>1, <1>3, <1>4 DEF Waiting
  <1>10. i = 1
    <2>1. SUFFICES ASSUME 1 < i PROVE FALSE
      BY <1>2
    <2>2. td[1].port < td[i].port
      BY <1>1, <1>2, <1>9, <2>1 DEF Waiting
    <2> QED
      BY <2>2, <1>4, <1>6, <1>8, <1>9
  <1>11. t = want[k + 1]
    BY <1>4, <1>9, <1>10
  <1>14. Head(td).port = k + 1
    BY <1>2, <1>9, <1>10
  <1>12. ASSUME NEW x, user = Output(x) PROVE x = t
    <2>1. want = <<x>>
      BY <1>12, WantedIs
    <2>2. Len(want) = 1
      BY <2>1
    <2>3. k = 0
      <3> HIDE DEF k, want
      <3> QED
        BY <2>2, <1>6, <1>8
    <2> QED
      BY <2>1, <2>3, <1>11
  <1>13. ASSUME t \in ToSet(m.outs) \cap Leaves, t \notin DOMAIN g.node
         PROVE  user = Output(t)
    <2>1. PICK j \in DOMAIN td : td[j].user = Output(t)
      BY <1>13 DEF IsTracing
    <2>2. td[j].user[1] = "output"
      BY <2>1 DEF Output
    <2>3. user[1] = "output"
      <3>1. CASE j = 1
        BY <3>1, <2>2, <1>2
      <3>2. CASE 1 < j
        <4>1. 1 \in DOMAIN td /\ td[1] = Head(td)
          BY <1>2
        <4>2. td[1].user[1] = "output"
          BY <4>1, <3>2, <2>2, <1>1 DEF Waiting
        <4> QED
          BY <4>1, <4>2
      <3>3. j \in 1..Len(td) /\ Len(td) \in Nat
        BY <1>1, <1>2
      <3> QED
        BY <3>1, <3>2, <3>3
    <2>4. PICK x \in ToSet(m.outs) : user = Output(x)
      BY <2>3, <1>4, <1>5, TracedUser
    <2> QED
      BY <2>4, <1>12
  <1> QED
    BY <1>3, <1>4, <1>7, <1>8, <1>11, <1>12, <1>13, <1>14

-----------------------------------------------------------------------------
\* One operand x arrives at the user it waits for, and with it come the nodes of N;
\* fresh are the operands that wait for them.
Arrives(m, g, td, h, N, x, fresh) ==
    LET t == Head(td).tensor
        user == Head(td).user
    IN  /\ IsGraph(h) /\ h.inputs = <<>> /\ h.outputs = <<>>
        /\ DOMAIN h.node = DOMAIN g.node \cup N /\ N \cap DOMAIN g.node = {}
        /\ \A n \in DOMAIN g.node \ {user} : h.node[n] = g.node[n]
        /\ Rereads(h.node[user], g.node[user], Append(g.node[user].ins, x))
        /\ t \in DOMAIN h.node
        /\ x = t \/ (x = <<"nop", user>> /\ user[1] = "output")
        /\ \A n \in N : /\ TraceName(m, h, n) /\ Fits(n, h.node[n])
                        /\ ReadsAsTraced(m, n, h.node[n]) /\ Read(h, n)
        /\ \/ /\ fresh = <<>>
              /\ \A n \in N : ~OneOf(n, {"op", "output"})
           \/ /\ N = {t} /\ OneOf(t, {"op"}) /\ h.node[t].ins = <<>>
              /\ fresh = [i \in DOMAIN Wanted(m, t) |-> Use(Wanted(m, t)[i], t, i)]

\* What waits next after a tensor came: the operands of its operation, none of
\* which has been given yet.
LEMMA FreshIs ==
    ASSUME NEW m, IsTraced(m), NEW g, NEW td, IsTracing(m, g, td), td # <<>>,
           NEW h, NEW N, NEW x, NEW fresh, Arrives(m, g, td, h, N, x, fresh)
    PROVE  LET t == Head(td).tensor
           IN  /\ fresh \in Seq([tensor : Tensors(Len(m.body)), user : DOMAIN h.node, port : Nat])
               /\ \A i \in DOMAIN fresh :
                     /\ N = {t} /\ OneOf(t, {"op"}) /\ t[1] = "op" /\ h.node[t].ins = <<>>
                     /\ i \in DOMAIN Wanted(m, t) /\ Wanted(m, t) \in Seq(Tensors(Len(m.body)))
                     /\ fresh[i].tensor = Wanted(m, t)[i]
                     /\ fresh[i].user = t /\ fresh[i].port = i
               /\ \A u \in N : OneOf(u, {"op", "output"}) =>
                     u = t /\ DOMAIN fresh = DOMAIN Wanted(m, t) /\ h.node[u].ins = <<>>
                     /\ Wanted(m, t) \in Seq(Tensors(Len(m.body)))
  <1> DEFINE t == Head(td).tensor
             Uses == [tensor : Tensors(Len(m.body)), user : DOMAIN h.node, port : Nat]
  <1>1. CASE fresh = <<>> /\ \A n \in N : ~OneOf(n, {"op", "output"})
    <2>1. fresh \in Seq(Uses) /\ DOMAIN fresh = {}
      BY <1>1
    <2> QED
      BY <2>1, <1>1
  <1>2. CASE /\ N = {t} /\ OneOf(t, {"op"}) /\ h.node[t].ins = <<>>
             /\ fresh = [i \in DOMAIN Wanted(m, t) |-> Use(Wanted(m, t)[i], t, i)]
    <2>1. t[1] = "op" /\ OneOf(t, {"op", "output"})
      BY <1>2 DEF OneOf
    <2>2. TraceName(m, h, t) /\ t \in DOMAIN h.node
      BY <1>2 DEF Arrives
    <2>3. Wanted(m, t) \in Seq(Tensors(Len(m.body)))
      BY <2>1, <2>2, TracedUser
    <2> DEFINE want == Wanted(m, t)
    <2>4. DOMAIN want = 1..Len(want) /\ Len(want) \in Nat
          /\ \A i \in DOMAIN want : want[i] \in Tensors(Len(m.body))
      BY <2>3
    <2>5. \A i \in 1..Len(want) : Use(want[i], t, i) \in Uses
      BY <2>2, <2>4 DEF Use
    <2>6. fresh = [i \in 1..Len(want) |-> Use(want[i], t, i)]
      BY <1>2, <2>4
    <2>7. fresh \in Seq(Uses)
      <3> HIDE DEF Uses, want
      <3> QED
        BY <2>4, <2>5, <2>6
    <2>8. \A i \in DOMAIN fresh : i \in DOMAIN want /\ fresh[i] = Use(want[i], t, i)
      BY <1>2
    <2>9. \A i \in DOMAIN fresh : fresh[i].tensor = want[i] /\ fresh[i].user = t /\ fresh[i].port = i
      BY <2>8 DEF Use
    <2> QED
      BY <1>2, <2>1, <2>3, <2>7, <2>8, <2>9
  <1> QED
    BY <1>1, <1>2 DEF Arrives

\* The operands that wait are still in the order of their ports, and behind those
\* of the outputs.
LEMMA WaitingStep ==
    ASSUME NEW m, IsTraced(m), NEW g, NEW td, IsTracing(m, g, td), td # <<>>,
           NEW h, NEW N, NEW x, NEW fresh, Arrives(m, g, td, h, N, x, fresh)
    PROVE  Waiting(m, h, Tail(td) \o fresh)
  <1> DEFINE t == Head(td).tensor
             user == Head(td).user
             k == Len(g.node[user].ins)
             L == Len(td)
             F == Len(fresh)
             next == Tail(td) \o fresh
             Uses == [tensor : Tensors(Len(m.body)), user : DOMAIN h.node, port : Nat]
             Before == [tensor : Tensors(Len(m.body)), user : DOMAIN g.node, port : Nat]
  <1>1. /\ user \in DOMAIN g.node /\ Head(td).port = k + 1 /\ k + 1 <= Len(Wanted(m, user))
    BY HeadOfTodo
  <1>2. Waiting(m, g, td) /\ td \in Seq(Before)
    BY DEF IsTracing, Waiting
  <1>3. DOMAIN h.node = DOMAIN g.node \cup N /\ N \cap DOMAIN g.node = {}
    BY DEF Arrives
  <1>4. td \in Seq(Uses)
    <2>1. Before \subseteq Uses
      BY <1>3
    <2> HIDE DEF Uses, Before
    <2>2. ToSet(td) \subseteq Uses
      BY <2>1, <1>2, Entries
    <2> QED
      BY <2>2, <1>2, Retyped
  <1>5. fresh \in Seq(Uses)
    BY FreshIs, ZenonT(60)
  <1>6. k \in Nat
    BY <1>1 DEF IsTracing, IsGraph, Records
  <1>7. /\ L \in Nat \ {0} /\ F \in Nat /\ DOMAIN td = 1..L /\ DOMAIN fresh = 1..F
        /\ next \in Seq(Uses) /\ DOMAIN next = 1..(L - 1 + F)
        /\ \A i \in 1..(L - 1) : next[i] = td[i + 1]
        /\ \A i \in 1..F : next[L - 1 + i] = fresh[i]
        /\ Head(td) = td[1]
    <2>1. Tail(td) \in Seq(Uses) /\ Len(Tail(td)) = L - 1 /\ L \in Nat \ {0}
          /\ \A i \in 1..(L - 1) : Tail(td)[i] = td[i + 1]
      <3> HIDE DEF Uses
      <3> QED
        BY <1>4, Rest
    <2> HIDE DEF Uses
    <2> QED
      BY <2>1, <1>4, <1>5
  <1>8. \A i \in 1..(L - 1 + F) : i \in 1..(L - 1) \/ (i - (L - 1) \in 1..F /\ i = L - 1 + (i - (L - 1)))
    BY <1>7
  <1>9. Len(h.node[user].ins) = k + 1
    <2>1. Rereads(h.node[user], g.node[user], Append(g.node[user].ins, x))
      BY DEF Arrives
    <2>2. g.node[user] \in Records(DOMAIN g.node)
      BY <1>1 DEF IsTracing, IsGraph
    <2>3. h.node[user].ins = Append(g.node[user].ins, x)
      BY <2>1 DEF Rereads
    <2> QED
      BY <2>2, <2>3 DEF Records
  <1>10. \A u \in DOMAIN g.node \ {user} : h.node[u] = g.node[u]
    BY DEF Arrives
  <1>11. /\ \A i \in DOMAIN fresh :
               /\ N = {t} /\ OneOf(t, {"op"}) /\ t[1] = "op" /\ h.node[t].ins = <<>>
               /\ i \in DOMAIN Wanted(m, t) /\ Wanted(m, t) \in Seq(Tensors(Len(m.body)))
               /\ fresh[i].tensor = Wanted(m, t)[i]
               /\ fresh[i].user = t /\ fresh[i].port = i
         /\ \A u \in N : OneOf(u, {"op", "output"}) =>
               u = t /\ DOMAIN fresh = DOMAIN Wanted(m, t) /\ h.node[u].ins = <<>>
               /\ Wanted(m, t) \in Seq(Tensors(Len(m.body)))
    <2> HIDE DEF user, k, L, F, next, Uses, Before
    <2>1. \A u \in N : OneOf(u, {"op", "output"}) =>
               u = t /\ DOMAIN fresh = DOMAIN Wanted(m, t) /\ h.node[u].ins = <<>>
               /\ Wanted(m, t) \in Seq(Tensors(Len(m.body)))
      BY FreshIs, ZenonT(60)
    <2>2. \A i \in DOMAIN fresh :
               /\ N = {t} /\ OneOf(t, {"op"}) /\ t[1] = "op" /\ h.node[t].ins = <<>>
               /\ i \in DOMAIN Wanted(m, t) /\ Wanted(m, t) \in Seq(Tensors(Len(m.body)))
               /\ fresh[i].tensor = Wanted(m, t)[i]
               /\ fresh[i].user = t /\ fresh[i].port = i
      BY FreshIs, ZenonT(60)
    <2> QED
      BY <2>1, <2>2, ZenonT(60)
  <1>12. \A i \in DOMAIN td : /\ td[i].user \in DOMAIN g.node
                              /\ td[i].port \in Nat /\ OneOf(td[i].user, {"op", "output"})
                              /\ td[i].port \in (Len(g.node[td[i].user].ins) + 1)..Len(Wanted(m, td[i].user))
                              /\ td[i].tensor = Wanted(m, td[i].user)[td[i].port]
    <2>1. \A i \in DOMAIN td : td[i] \in Before
      <3> HIDE DEF Before
      <3> QED
        BY <1>2
    <2>2. \A i \in DOMAIN td : td[i].user \in DOMAIN g.node /\ td[i].port \in Nat
      BY <2>1
    <2> QED
      BY <2>2, <1>2 DEF Waiting
  <1>13. \A i, j \in DOMAIN td : i < j => /\ td[i].user = td[j].user => td[i].port < td[j].port
                                          /\ td[j].user[1] = "output" => td[i].user[1] = "output"
    BY <1>2 DEF Waiting
  <1>14. \A i \in DOMAIN td : i # 1 /\ td[i].user = user => td[i].port > k + 1
    <2>1. ASSUME NEW i \in DOMAIN td, i # 1, td[i].user = user PROVE td[i].port > k + 1
      <3>1. i \in 1..L /\ L \in Nat /\ 1 \in DOMAIN td
        BY <2>1, <1>7
      <3>2. 1 < i
        BY <3>1, <2>1
      <3>3. td[1].user = user /\ td[1].port = k + 1
        BY <1>1, <1>7
      <3>4. td[1].port < td[i].port /\ td[i].port \in Nat
        BY <3>1, <3>2, <3>3, <2>1, <1>12, <1>13
      <3> QED
        BY <3>3, <3>4, <1>6
    <2> QED
      BY <2>1
  <1>15. \A u \in DOMAIN g.node : OneOf(u, {"op", "output"}) =>
           \A p \in (Len(g.node[u].ins) + 1)..Len(Wanted(m, u)) :
              \E i \in DOMAIN td : td[i].user = u /\ td[i].port = p
    BY <1>2 DEF Waiting
  <1> HIDE DEF t, user, k, L, F, next, Uses, Before
  <1>16. ASSUME NEW i \in DOMAIN next
         PROVE  /\ OneOf(next[i].user, {"op", "output"})
                /\ next[i].port \in (Len(h.node[next[i].user].ins) + 1)..Len(Wanted(m, next[i].user))
                /\ next[i].tensor = Wanted(m, next[i].user)[next[i].port]
    <2>1. CASE i \in 1..(L - 1)
      <3>1. next[i] = td[i + 1] /\ i + 1 \in DOMAIN td /\ i + 1 # 1
        BY <2>1, <1>7
      <3>2. CASE td[i + 1].user = user
        <4>1. td[i + 1].port > k + 1
          BY <3>1, <3>2, <1>14
        <4>2. td[i + 1].port \in Nat
              /\ td[i + 1].port \in (Len(g.node[td[i + 1].user].ins) + 1)..Len(Wanted(m, td[i + 1].user))
          BY <3>1, <1>12
        <4>3. td[i + 1].port \in (k + 1 + 1)..Len(Wanted(m, td[i + 1].user))
          BY <4>1, <4>2, <1>6
        <4> QED
          BY <4>3, <3>1, <3>2, <1>9, <1>12
      <3>3. CASE td[i + 1].user # user
        <4>1. h.node[td[i + 1].user] = g.node[td[i + 1].user]
          BY <3>1, <3>3, <1>10, <1>12
        <4> QED
          BY <4>1, <3>1, <1>12
      <3> QED
        BY <3>2, <3>3
    <2>2. CASE i - (L - 1) \in 1..F /\ i = L - 1 + (i - (L - 1))
      <3> DEFINE j == i - (L - 1)
      <3>1. next[i] = fresh[j] /\ j \in DOMAIN fresh
        BY <2>2, <1>7
      <3> HIDE DEF j
      <3>2. /\ fresh[j].user = t /\ fresh[j].port = j /\ OneOf(t, {"op"}) /\ h.node[t].ins = <<>>
            /\ j \in DOMAIN Wanted(m, t) /\ fresh[j].tensor = Wanted(m, t)[j]
            /\ Wanted(m, t) \in Seq(Tensors(Len(m.body)))
        BY <3>1, <1>11
      <3>3. j \in (Len(h.node[t].ins) + 1)..Len(Wanted(m, t))
        BY <3>2
      <3>4. OneOf(t, {"op", "output"})
        BY <3>2 DEF OneOf
      <3> QED
        BY <3>1, <3>2, <3>3, <3>4
    <2> QED
      BY <1>7, <1>8, <2>1, <2>2
  <1>17. ASSUME NEW u \in DOMAIN h.node, OneOf(u, {"op", "output"}),
                NEW p \in (Len(h.node[u].ins) + 1)..Len(Wanted(m, u))
         PROVE  \E i \in DOMAIN next : next[i].user = u /\ next[i].port = p
    <2>1. CASE u \in DOMAIN g.node
      <3>1. PICK i \in DOMAIN td : td[i].user = u /\ td[i].port = p /\ i # 1
        <4>1. CASE u = user
          <5>1. p \in (k + 1)..Len(Wanted(m, u)) /\ p > k + 1
            BY <4>1, <1>6, <1>9
          <5>2. PICK i \in DOMAIN td : td[i].user = u /\ td[i].port = p
            BY <5>1, <4>1, <2>1, <1>15, <1>17 DEF k
          <5> QED
            BY <5>1, <5>2, <1>1, <1>6, <1>7
        <4>2. CASE u # user
          <5>1. h.node[u] = g.node[u]
            BY <4>2, <2>1, <1>10
          <5>2. PICK i \in DOMAIN td : td[i].user = u /\ td[i].port = p
            BY <5>1, <2>1, <1>15, <1>17
          <5>3. td[1].user = user
            BY <1>7 DEF user
          <5> QED
            BY <5>2, <5>3, <4>2
        <4> QED
          BY <4>1, <4>2
      <3>2. i - 1 \in 1..(L - 1) /\ i - 1 \in DOMAIN next /\ (i - 1) + 1 = i
        BY <3>1, <1>7
      <3>3. next[i - 1] = td[i]
        BY <3>2, <1>7
      <3> QED
        BY <3>1, <3>2, <3>3
    <2>2. CASE u \in N
      <3>1. u = t /\ DOMAIN fresh = DOMAIN Wanted(m, t) /\ h.node[u].ins = <<>>
            /\ Wanted(m, t) \in Seq(Tensors(Len(m.body)))
        BY <2>2, <1>11, <1>17
      <3>2. p \in DOMAIN fresh
        BY <3>1
      <3>3. next[L - 1 + p] = fresh[p] /\ L - 1 + p \in DOMAIN next
        BY <3>2, <1>7
      <3> QED
        BY <3>1, <3>2, <3>3, <1>11
    <2> QED
      BY <2>1, <2>2, <1>3
  <1>18. ASSUME NEW i \in DOMAIN next, NEW j \in DOMAIN next, i < j
         PROVE  /\ next[i].user = next[j].user => next[i].port < next[j].port
                /\ next[j].user[1] = "output" => next[i].user[1] = "output"
    <2>1. CASE j \in 1..(L - 1)
      <3>1. i \in 1..(L - 1)
        BY <2>1, <1>7, <1>18
      <3>2. i + 1 \in DOMAIN td /\ j + 1 \in DOMAIN td /\ i + 1 < j + 1
        BY <3>1, <2>1, <1>7, <1>18
      <3> QED
        BY <3>1, <3>2, <2>1, <1>7, <1>13
    <2>2. CASE j - (L - 1) \in 1..F /\ j = L - 1 + (j - (L - 1))
      <3> DEFINE b == j - (L - 1)
      <3>1. next[j] = fresh[b] /\ b \in DOMAIN fresh
        BY <2>2, <1>7
      <3>2. next[j].user = t /\ next[j].port = b /\ t[1] = "op" /\ t \notin DOMAIN g.node
        <4> HIDE DEF b
        <4> QED
          BY <3>1, <1>3, <1>11
      <3>3. CASE i \in 1..(L - 1)
        <4>1. next[i] = td[i + 1] /\ i + 1 \in DOMAIN td
          BY <3>3, <1>7
        <4>2. next[i].user \in DOMAIN g.node
          BY <4>1, <1>12
        <4> QED
          BY <4>2, <3>2
      <3>4. CASE i - (L - 1) \in 1..F /\ i = L - 1 + (i - (L - 1))
        <4>1. next[i] = fresh[i - (L - 1)] /\ i - (L - 1) \in DOMAIN fresh
          BY <3>4, <1>7
        <4>2. next[i].port = i - (L - 1)
          BY <4>1, <1>11
        <4>3. i - (L - 1) < b
          BY <1>7, <1>18
        <4> QED
          BY <3>2, <4>2, <4>3
      <3> QED
        BY <1>7, <1>8, <3>3, <3>4
    <2> QED
      BY <1>7, <1>8, <2>1, <2>2
  <1> QED
    BY <1>7, <1>16, <1>17, <1>18 DEF Waiting, next, Uses

\* A graph with one more operand in place is still one being traced.
LEMMA TracingStep ==
    ASSUME NEW m, IsTraced(m), NEW g, NEW td, IsTracing(m, g, td), td # <<>>,
           NEW h, NEW N, NEW x, NEW fresh, Arrives(m, g, td, h, N, x, fresh)
    PROVE  IsTracing(m, h, Tail(td) \o fresh)
  <1> DEFINE t == Head(td).tensor
             user == Head(td).user
             k == Len(g.node[user].ins)
             next == Tail(td) \o fresh
  <1>1. /\ user \in DOMAIN g.node /\ OneOf(user, {"op", "output"}) /\ EpochOf(user) = "fwd"
        /\ t \in Tensors(Len(m.body))
        /\ k + 1 <= Len(Wanted(m, user)) /\ t = Wanted(m, user)[k + 1]
        /\ \A y : user = Output(y) => y = t
    BY HeadOfTodo
  <1>2. /\ IsGraph(h) /\ h.inputs = <<>> /\ h.outputs = <<>>
        /\ DOMAIN h.node = DOMAIN g.node \cup N /\ N \cap DOMAIN g.node = {}
        /\ \A n \in DOMAIN g.node \ {user} : h.node[n] = g.node[n]
        /\ Rereads(h.node[user], g.node[user], Append(g.node[user].ins, x))
        /\ t \in DOMAIN h.node
        /\ x = t \/ (x = <<"nop", user>> /\ user[1] = "output")
        /\ \A n \in N : /\ TraceName(m, h, n) /\ Fits(n, h.node[n])
                        /\ ReadsAsTraced(m, n, h.node[n])
    BY DEF Arrives
  <1>3. /\ OutputNodes(m) \subseteq DOMAIN g.node
        /\ \A n \in DOMAIN g.node : /\ TraceName(m, g, n) /\ Fits(n, g.node[n])
                                    /\ ReadsAsTraced(m, n, g.node[n])
        /\ IsGraph(g)
    BY DEF IsTracing
  <1>4. g.node[user] \in Records(DOMAIN g.node)
    BY <1>1, <1>3 DEF IsGraph
  <1>5. /\ h.node[user].ins = Append(g.node[user].ins, x)
        /\ h.node[user].type = g.node[user].type /\ h.node[user].epoch = g.node[user].epoch
        /\ h.node[user].role = g.node[user].role
        /\ g.node[user].ins \in Seq(DOMAIN g.node) /\ k \in Nat
    <2>1. g.node[user].ins \in Seq(DOMAIN g.node)
      BY <1>4 DEF Records
    <2>2. k \in Nat
      BY <2>1, Entries
    <2> HIDE DEF k, user, t, next
    <2>3. /\ h.node[user].ins = Append(g.node[user].ins, x)
          /\ h.node[user].type = g.node[user].type
      BY <1>2 DEF Rereads
    <2>4. /\ h.node[user].epoch = g.node[user].epoch
          /\ h.node[user].role = g.node[user].role
      BY <1>2 DEF Rereads
    <2> QED
      BY <2>1, <2>2, <2>3, <2>4
  <1> DEFINE old == g.node[user].ins
  <1>16. k = Len(old) /\ k \in Nat /\ old \in Seq(DOMAIN g.node)
    BY <1>5
  <1>6. /\ ToSet(Append(old, x)) = ToSet(old) \cup {x}
        /\ DOMAIN Append(old, x) = 1..(k + 1) /\ DOMAIN old = 1..k
        /\ \A i \in 1..k : Append(old, x)[i] = old[i]
        /\ Append(old, x)[k + 1] = x
        /\ Len(Append(old, x)) = k + 1
    <2> HIDE DEF old, k
    <2>1. old \in Seq(DOMAIN g.node \cup {x}) /\ x \in DOMAIN g.node \cup {x}
      BY <1>16, Entries, Retyped
    <2>2. Len(Append(old, x)) = Len(old) + 1
      BY <2>1, AppendProperties
    <2> QED
      BY <2>2, <1>16, AppendMembers
  <1>7. TypeOf(x) \in {"input", "op"} /\ EpochOf(x) = "fwd"
    <2>1. CASE x = <<"nop", user>>
      <3>1. TypeOf(<<"nop", user>>) = "op" /\ EpochOf(<<"nop", user>>) = "fwd"
        BY NamesAre
      <3> QED
        BY <2>1, <3>1
    <2>2. CASE x \in Leaves
      BY <2>2, LeavesAre
    <2>3. CASE x = t /\ t \notin Leaves
      <3>1. PICK j : t = Result(j)
        BY <1>1, <2>3 DEF Tensors
      <3>2. TypeOf(<<"op", j>>) = "op" /\ EpochOf(<<"op", j>>) = "fwd"
        BY NamesAre
      <3> QED
        BY <2>3, <3>1, <3>2 DEF Result
    <2> QED
      BY <1>2, <2>1, <2>2, <2>3
  <1>8. user \notin Leaves /\ user[1] \in {"op", "output"}
    BY <1>1 DEF OneOf
  <1>9. Fits(user, h.node[user])
    <2>1. MayRead(user, g.node[user].role, x)
      BY <1>1, <1>7, <1>8 DEF MayRead, OneOf, SinkKinds, GradKinds
    <2>2. Fits(user, g.node[user])
      BY <1>1, <1>3
    <2> QED
      BY <2>1, <2>2, <1>5, <1>6 DEF Fits
  <1>10. ReadsAsTraced(m, user, h.node[user])
    <2>1. ReadsAsTraced(m, user, g.node[user])
      BY <1>1, <1>3
    <2>2. /\ OneOf(user, {"op"}) => g.node[user].role = m.body[user[2]].op
          /\ \A p \in 1..k : old[p] = Wanted(m, user)[p]
                             \/ (old[p] = <<"nop", user>> /\ user[1] = "output")
      BY <2>1, <1>1, <1>6 DEF ReadsAsTraced
    <2>3. ~OneOf(user, {"nop"})
      BY <1>8 DEF OneOf
    <2>4. \A p \in 1..(k + 1) :
             Append(old, x)[p] = Wanted(m, user)[p]
             \/ (Append(old, x)[p] = <<"nop", user>> /\ user[1] = "output")
      <3>1. ASSUME NEW p \in 1..(k + 1), p # k + 1 PROVE p \in 1..k
        <4> HIDE DEF k, old
        <4> QED
          BY <3>1, <1>16
      <3> HIDE DEF old, k
      <3> QED
        BY <3>1, <2>2, <1>1, <1>2, <1>6
    <2> HIDE DEF old, k
    <2>5. /\ h.node[user].role = g.node[user].role
          /\ Len(h.node[user].ins) <= Len(Wanted(m, user))
          /\ \A p \in DOMAIN h.node[user].ins :
                h.node[user].ins[p] = Wanted(m, user)[p]
                \/ (h.node[user].ins[p] = <<"nop", user>> /\ user[1] = "output")
      BY <1>1, <1>5, <1>6, <2>4 DEF old, k
    <2> QED
      BY <2>2, <2>3, <2>5, <1>8 DEF ReadsAsTraced
  <1>11. \A n : TraceName(m, g, n) => TraceName(m, h, n)
    BY <1>2 DEF TraceName
  <1>12. \A n \in DOMAIN h.node : /\ TraceName(m, h, n) /\ Fits(n, h.node[n])
                                  /\ ReadsAsTraced(m, n, h.node[n])
    BY <1>2, <1>3, <1>9, <1>10, <1>11
  <1>13. Waiting(m, h, next)
    BY WaitingStep
  <1>14. ASSUME NEW y \in ToSet(m.outs) \cap Leaves
         PROVE  y \in DOMAIN h.node \/ \E i \in DOMAIN next : next[i].user = Output(y)
    <2>1. CASE y \in DOMAIN g.node
      BY <2>1, <1>2
    <2>2. ASSUME NEW i \in DOMAIN td, td[i].user = Output(y)
          PROVE  y \in DOMAIN h.node \/ \E j \in DOMAIN next : next[j].user = Output(y)
      <3> DEFINE Before == [tensor : Tensors(Len(m.body)), user : DOMAIN g.node, port : Nat]
                 After == [tensor : Tensors(Len(m.body)), user : DOMAIN h.node, port : Nat]
      <3>1. td \in Seq(Before)
        BY DEF IsTracing, Waiting
      <3>2. fresh \in Seq(After)
        BY FreshIs
      <3> HIDE DEF Before, After
      <3>3. Tail(td) \in Seq(Before) /\ Len(td) \in Nat \ {0} /\ DOMAIN td = 1..Len(td)
            /\ Head(td) = td[1]
            /\ Len(Tail(td)) = Len(td) - 1 /\ \A j \in 1..(Len(td) - 1) : Tail(td)[j] = td[j + 1]
        BY <3>1, Rest
      <3>4. CASE i = 1
        BY <3>3, <3>4, <2>2, <1>1, <1>2
      <3>5. CASE i # 1
        <4>1. i - 1 \in 1..(Len(td) - 1) /\ (i - 1) + 1 = i
          BY <3>3, <3>5
        <4>2. Tail(td)[i - 1] = td[i]
          BY <3>3, <4>1
        <4>3. next[i - 1] = Tail(td)[i - 1] /\ i - 1 \in DOMAIN next
          <5>1. Tail(td) \in Seq(Before \cup After) /\ fresh \in Seq(Before \cup After)
            BY <3>2, <3>3
          <5>2. i - 1 \in 1..Len(Tail(td))
            BY <3>3, <4>1
          <5> HIDE DEF next
          <5>3. next[i - 1] = Tail(td)[i - 1] /\ i - 1 \in 1..Len(next)
            BY <5>1, <5>2 DEF next
          <5>4. next \in Seq(Before \cup After)
            BY <5>1 DEF next
          <5> QED
            BY <5>3, <5>4
        <4> QED
          BY <4>2, <4>3, <2>2
      <3> QED
        BY <3>4, <3>5
    <2> QED
      BY <2>1, <2>2 DEF IsTracing
  <1>15. OutputNodes(m) \subseteq DOMAIN h.node
    BY <1>2, <1>3
  <1> QED
    BY <1>2, <1>12, <1>13, <1>14, <1>15 DEF IsTracing

-----------------------------------------------------------------------------
\* A leaf that is added fits its name.
LEMMA LeafIs ==
    ASSUME NEW t \in Leaves, NEW D
    PROVE  /\ LeafNode(t) \in Records(D)
           /\ Fits(t, LeafNode(t)) /\ LeafNode(t).ins = <<>> /\ LeafNode(t).type = "input"
           /\ \A m, g : TraceName(m, g, t) /\ ReadsAsTraced(m, t, LeafNode(t))
  <1> DEFINE role == IF t \in Weights THEN "parameter" ELSE "activation"
  <1>1. LeafNode(t) = Node("input", role, "fwd", <<>>)
    BY DEF LeafNode
  <1>2. "input" \in Types /\ "fwd" \in Epochs /\ role \in Roles
    BY DEF Types, Epochs, Roles
  <1>3. <<>> \in Seq(D) /\ ToSet(<<>>) = {}
    BY DEF ToSet
  <1> HIDE DEF role
  <1>4. /\ LeafNode(t) \in Records(D) /\ LeafNode(t).type = "input" /\ LeafNode(t).role = role
        /\ LeafNode(t).epoch = "fwd" /\ LeafNode(t).ins = <<>>
    <2>1. Node("input", role, "fwd", <<>>) \in Records(D)
      BY <1>2, <1>3, NodeIs
    <2> QED
      BY <2>1, <1>1 DEF Node
  <1>5. TypeOf(t) = "input" /\ EpochOf(t) = "fwd"
        /\ RolesOf(t) = IF t \in Weights THEN {"parameter"} ELSE {"activation"}
    BY LeavesAre
  <1>6. Fits(t, LeafNode(t))
    BY <1>3, <1>4, <1>5 DEF Fits, role
  <1>7. \A K : ~OneOf(t, K)
    BY LeavesAre
  <1>8. \A m, g : TraceName(m, g, t) /\ ReadsAsTraced(m, t, LeafNode(t))
    BY <1>4, <1>7 DEF TraceName, ReadsAsTraced
  <1> QED
    BY <1>4, <1>6, <1>8

\* So does the operation behind a tensor.
LEMMA OperationIs ==
    ASSUME NEW m, IsTraced(m), NEW t \in Tensors(Len(m.body)), t \notin Leaves, NEW D
    PROVE  LET nd == Node("op", m.body[t[2]].op, "fwd", <<>>)
           IN  /\ nd \in Records(D) /\ Fits(t, nd) /\ nd.ins = <<>> /\ ReadsAsTraced(m, t, nd)
               /\ \A g : TraceName(m, g, t)
               /\ OneOf(t, {"op"}) /\ Wanted(m, t) = m.body[t[2]].args
  <1> DEFINE nd == Node("op", m.body[t[2]].op, "fwd", <<>>)
  <1>1. m.body \in Seq(BodyOps)
    BY DEF IsTraced, IsBody, BodyOps
  <1>2. DOMAIN m.body = 1..Len(m.body) /\ Len(m.body) \in Nat
    BY <1>1
  <1>3. PICK j \in 1..Len(m.body) : t = Result(j)
    BY DEF Tensors
  <1>4. t = <<"op", j>> /\ t[2] = j /\ t[1] = "op" /\ j \in DOMAIN m.body
    BY <1>2, <1>3 DEF Result
  <1>5. m.body[j] \in BodyOps /\ m.body[j].op \in UnaryOps \cup BinaryOps
    <2>1. m.body[j] \in BodyOps
      BY <1>1, <1>4
    <2> QED
      BY <2>1 DEF BodyOps
  <1>6. m.body[j].op \in {"Exp", "Nop", "Add", "Multiply"}
    BY <1>5, AutogradAssumption
  <1>7. "op" \in Types /\ "fwd" \in Epochs /\ m.body[j].op \in Roles
    BY <1>6 DEF Types, Epochs, Roles
  <1>8. <<>> \in Seq(D) /\ ToSet(<<>>) = {}
    BY DEF ToSet
  <1>9. /\ nd \in Records(D) /\ nd.type = "op" /\ nd.role = m.body[j].op /\ nd.epoch = "fwd"
        /\ nd.ins = <<>>
    <2>1. nd = Node("op", m.body[j].op, "fwd", <<>>)
      BY <1>4
    <2>2. Node("op", m.body[j].op, "fwd", <<>>) \in Records(D)
      BY <1>7, <1>8, NodeIs
    <2> HIDE DEF nd
    <2> QED
      BY <2>1, <2>2 DEF Node
  <1> HIDE DEF nd
  <1>10. TypeOf(t) = "op" /\ EpochOf(t) = "fwd" /\ RolesOf(t) = {"Add", "Multiply", "Exp", "Nop"}
    <2>1. TypeOf(<<"op", j>>) = "op" /\ EpochOf(<<"op", j>>) = "fwd"
          /\ RolesOf(<<"op", j>>) = {"Add", "Multiply", "Exp", "Nop"}
      BY NamesAre
    <2> QED
      BY <2>1, <1>4
  <1>11. Fits(t, nd)
    BY <1>4, <1>6, <1>8, <1>9, <1>10 DEF Fits, AllKinds, FwdKinds
  <1>12. \A g : TraceName(m, g, t)
    BY <1>3, <1>4 DEF TraceName
  <1>13. OneOf(t, {"op"}) /\ ~OneOf(t, {"nop"})
    BY <1>4 DEF OneOf
  <1>14. Wanted(m, t) = m.body[t[2]].args
    BY <1>4 DEF Wanted
  <1>15. Len(Wanted(m, t)) >= 0 /\ Len(nd.ins) = 0 /\ DOMAIN nd.ins = {}
    <2>1. Wanted(m, t) \in Seq(Tensors(MaxOps))
      BY <1>4, <1>5, <1>14 DEF BodyOps
    <2> QED
      BY <2>1, <1>9
  <1>16. ReadsAsTraced(m, t, nd)
    BY <1>4, <1>9, <1>13, <1>15 DEF ReadsAsTraced
  <1> QED
    BY <1>9, <1>11, <1>12, <1>13, <1>14, <1>16 DEF nd

\* A sequence of one.
LEMMA OneIs ==
    ASSUME NEW S, NEW x \in S
    PROVE  <<x>> \in Seq(S) /\ ToSet(<<x>>) = {x} /\ Len(<<x>>) = 1
  BY DEF ToSet

\* A node is added behind nothing that is there.
LEMMA AddedIs ==
    ASSUME NEW g, IsGraph(g), NEW n, n \notin DOMAIN g.node, NEW rec, rec \in Records(DOMAIN g.node)
    PROVE  LET h == AddNode(g, n, rec)
           IN  /\ IsGraph(h) /\ DOMAIN h.node = DOMAIN g.node \cup {n}
               /\ \A m \in DOMAIN g.node : h.node[m] = g.node[m]
               /\ h.node[n] = rec
               /\ h.inputs = g.inputs /\ h.outputs = g.outputs
               /\ Acyclic(g) => Acyclic(h)
  BY AddNodeIs DEF IsExtension

\* An operand arrives.
LEMMA ArrivedIs ==
    ASSUME NEW g, IsGraph(g), NEW p \in DOMAIN g.node, NEW c \in DOMAIN g.node,
           NEW h, h = AddEdge(g, p, c)
    PROVE  /\ IsGraph(h) /\ DOMAIN h.node = DOMAIN g.node
           /\ Rereads(h.node[c], g.node[c], Append(g.node[c].ins, p))
           /\ \A m \in DOMAIN g.node \ {c} : h.node[m] = g.node[m]
           /\ h.inputs = g.inputs /\ h.outputs = g.outputs
  BY AddEdgeIs

\* Each visit brings the tensor that waits first to its user.
LEMMA VisitArrives ==
    ASSUME IsTraced(model), IsTracing(model, graph, todo), VisitTensor
    PROVE  todo # <<>> /\ \E N, x, fresh : /\ Arrives(model, graph, todo, graph', N, x, fresh)
                                           /\ todo' = Tail(todo) \o fresh
  <1> DEFINE t == Head(todo).tensor
             user == Head(todo).user
             D == DOMAIN graph.node
  <1>1. todo # <<>>
    BY DEF VisitTensor
  <1>2. /\ user \in D /\ OneOf(user, {"op", "output"}) /\ t \in Tensors(Len(model.body))
        /\ t \in ToSet(model.outs) \cap Leaves /\ t \notin D => user = Output(t)
    BY <1>1, HeadOfTodo
  <1>3. IsGraph(graph) /\ graph.inputs = <<>> /\ graph.outputs = <<>>
        /\ \A n \in D : TraceName(model, graph, n)
    BY DEF IsTracing
  <1>4. \E N, x, fresh : /\ Arrives(model, graph, todo, graph', N, x, fresh)
                          /\ todo' = Tail(todo) \o fresh
    <2>1. Tail(todo) \o <<>> = Tail(todo)
      <3> DEFINE Uses == [tensor : Tensors(Len(model.body)), user : D, port : Nat]
      <3>1. todo \in Seq(Uses)
        BY DEF IsTracing, Waiting
      <3> HIDE DEF Uses
      <3>2. Tail(todo) \in Seq(Uses)
        BY <3>1, <1>1, Rest
      <3> QED
        BY <3>2
    <2>2. CASE HasNode(graph, t) /\ graph' = AddEdge(graph, t, user) /\ todo' = Tail(todo)
      <3>1. t \in D
        BY <2>2 DEF HasNode
      <3>2. /\ IsGraph(graph') /\ DOMAIN graph'.node = D
            /\ Rereads(graph'.node[user], graph.node[user], Append(graph.node[user].ins, t))
            /\ \A n \in D \ {user} : graph'.node[n] = graph.node[n]
            /\ graph'.inputs = <<>> /\ graph'.outputs = <<>>
        BY <3>1, <2>2, <1>2, <1>3, ArrivedIs
      <3>3. Arrives(model, graph, todo, graph', {}, t, <<>>)
        BY <3>1, <3>2 DEF Arrives
      <3> QED
        BY <3>3, <2>1, <2>2
    <2>3. ASSUME ~HasNode(graph, t), t \in PassThroughs,
                 LET nop == <<"nop", user>>
                 IN  graph' = AddEdge(AddNode(AddNode(graph, t, LeafNode(t)), nop,
                                              Node("op", "Nop", "fwd", <<t>>)), nop, user),
                 todo' = Tail(todo)
          PROVE  \E N, x, fresh : Arrives(model, graph, todo, graph', N, x, fresh)
                                  /\ todo' = Tail(todo) \o fresh
      <3> DEFINE nop == <<"nop", user>>
                 g1 == AddNode(graph, t, LeafNode(t))
                 rec == Node("op", "Nop", "fwd", <<t>>)
                 g2 == AddNode(g1, nop, rec)
      <3>1. t \notin D /\ t \in ToSet(model.outs) \cap Leaves /\ user = Output(t)
        BY <2>3, <1>2 DEF HasNode, PassThroughs
      <3>2. nop \notin D
        <4>1. SUFFICES ASSUME nop \in D PROVE FALSE
          OBVIOUS
        <4>2. nop \notin Leaves /\ nop[1] = "nop" /\ nop[2] = Output(t)
          BY <3>1, NotLeaves
        <4>3. TraceName(model, graph, nop)
          BY <4>1, <1>3
        <4>4. \A i : Result(i)[1] = "op"
          BY DEF Result
        <4>5. nop \notin OutputNodes(model)
          <5>1. OutputNodes(model) = {Output(y) : y \in ToSet(model.outs)}
            BY OutputsAre
          <5>2. \A y : Output(y)[1] = "output"
            BY DEF Output
          <5> QED
            BY <5>1, <5>2, <4>2
        <4>6. PICK y \in ToSet(model.outs) : nop = <<"nop", Output(y)>> /\ y \in Leaves \cap D
          BY <4>2, <4>3, <4>4, <4>5 DEF TraceName
        <4>7. Output(y) = Output(t)
          BY <4>2, <4>6
        <4>8. y = t
          BY <4>7 DEF Output
        <4> QED
          BY <4>6, <4>8, <3>1
      <3>3. /\ IsGraph(g1) /\ DOMAIN g1.node = D \cup {t}
            /\ \A n \in D : g1.node[n] = graph.node[n]
            /\ g1.node[t] = LeafNode(t)
            /\ g1.inputs = <<>> /\ g1.outputs = <<>>
        BY <3>1, <1>3, AddedIs, LeafIs
      <3>4. nop # t
        BY <3>1, NotLeaves
      <3>5. rec \in Records(DOMAIN g1.node) /\ rec.type = "op" /\ rec.role = "Nop"
            /\ rec.epoch = "fwd" /\ rec.ins = <<t>>
        <4>1. <<t>> \in Seq(DOMAIN g1.node)
          <5>1. t \in DOMAIN g1.node
            BY <3>3
          <5> HIDE DEF t, g1
          <5> QED
            BY <5>1, OneIs
        <4>2. "op" \in Types /\ "Nop" \in Roles /\ "fwd" \in Epochs
          BY DEF Types, Roles, Epochs
        <4>3. rec \in Records(DOMAIN g1.node)
          BY <4>1, <4>2, NodeIs
        <4> QED
          BY <4>3 DEF Node
      <3> HIDE DEF g1, rec
      <3>6. /\ IsGraph(g2) /\ DOMAIN g2.node = D \cup {t, nop}
            /\ \A n \in D : g2.node[n] = graph.node[n]
            /\ g2.node[t] = LeafNode(t) /\ g2.node[nop] = rec
            /\ g2.inputs = <<>> /\ g2.outputs = <<>>
        <4>1. nop \notin DOMAIN g1.node
          BY <3>2, <3>3, <3>4
        <4>2. /\ IsGraph(g2) /\ DOMAIN g2.node = DOMAIN g1.node \cup {nop}
              /\ \A n \in DOMAIN g1.node : g2.node[n] = g1.node[n]
              /\ g2.node[nop] = rec
              /\ g2.inputs = <<>> /\ g2.outputs = <<>>
          <5>1. rec \in Records(DOMAIN g1.node) /\ IsGraph(g1)
            BY <3>3, <3>5
          <5>2. g1.inputs = <<>> /\ g1.outputs = <<>>
            BY <3>3
          <5> HIDE DEF nop
          <5> QED
            BY <4>1, <5>1, <5>2, AddedIs
        <4> HIDE DEF g2
        <4> QED
          BY <4>2, <3>3, <3>1
      <3> HIDE DEF g2
      <3>7. graph' = AddEdge(g2, nop, user)
        BY <2>3 DEF g1, g2, rec
      <3>8. /\ IsGraph(graph') /\ DOMAIN graph'.node = DOMAIN g2.node
            /\ Rereads(graph'.node[user], g2.node[user], Append(g2.node[user].ins, nop))
            /\ \A n \in DOMAIN g2.node \ {user} : graph'.node[n] = g2.node[n]
            /\ graph'.inputs = <<>> /\ graph'.outputs = <<>>
        <4>1. nop \in DOMAIN g2.node /\ user \in DOMAIN g2.node
          BY <3>6, <1>2
        <4> HIDE DEF nop, user
        <4> QED
          BY <3>6, <3>7, <4>1, ArrivedIs
      <3>9. /\ DOMAIN graph'.node = D \cup {t, nop}
            /\ Rereads(graph'.node[user], graph.node[user], Append(graph.node[user].ins, nop))
            /\ \A n \in D \ {user} : graph'.node[n] = graph.node[n]
            /\ graph'.node[t] = LeafNode(t) /\ graph'.node[nop] = rec
        BY <3>1, <3>2, <3>6, <3>8, <1>2
      <3>10. Fits(nop, rec)
        <4>1. TypeOf(nop) = "op" /\ EpochOf(nop) = "fwd"
              /\ RolesOf(nop) = {"Add", "Multiply", "Exp", "Nop"}
          BY NamesAre
        <4>2. nop[1] = "nop" /\ nop \notin Leaves
          BY NotLeaves
        <4>3. ToSet(<<t>>) = {t}
          BY DEF ToSet
        <4>4. TypeOf(t) = "input" /\ EpochOf(t) = "fwd"
          BY <3>1, LeavesAre
        <4>5. MayRead(nop, "Nop", t)
          BY <4>1, <4>2, <4>4 DEF MayRead, OneOf, SinkKinds, GradKinds
        <4> HIDE DEF nop
        <4> QED
          BY <4>1, <4>2, <4>3, <4>5, <3>5 DEF Fits, AllKinds, FwdKinds
      <3>11. TraceName(model, graph', nop)
        BY <3>1, <3>9 DEF TraceName
      <3>12. ReadsAsTraced(model, nop, rec)
        <4>1. nop[1] = "nop" /\ nop \notin Leaves /\ nop[2] = Output(t) /\ Output(t)[2] = t
          BY <3>1, NotLeaves DEF Output
        <4> HIDE DEF nop
        <4> QED
          BY <4>1, <3>5 DEF ReadsAsTraced, OneOf
      <3>13. TraceName(model, graph', t) /\ Fits(t, LeafNode(t))
             /\ ReadsAsTraced(model, t, LeafNode(t))
        BY <3>1, LeafIs
      <3>14. \A n \in {t, nop} : ~OneOf(n, {"op", "output"})
        BY <3>1, NotLeaves DEF OneOf
      <3>15. user[1] = "output"
        BY <3>1 DEF Output
      <3>17. Read(graph', t) /\ Read(graph', nop)
        <4>1. graph'.node[nop].ins = <<t>> /\ t \in ToSet(<<t>>)
          BY <3>5, <3>9 DEF ToSet
        <4>2. graph.node[user].ins \in Seq(D)
          BY <1>2, <1>3 DEF IsGraph, Records
        <4>3. nop \in ToSet(graph'.node[user].ins)
          <5> DEFINE s == graph.node[user].ins
          <5>1. s \in Seq(D) /\ graph'.node[user].ins = Append(s, nop)
            BY <3>9, <4>2 DEF Rereads
          <5> HIDE DEF s, nop
          <5>2. nop \in ToSet(Append(s, nop))
            BY <5>1, AppendMembers
          <5> QED
            BY <5>1, <5>2
        <4> HIDE DEF nop
        <4> QED
          BY <1>2, <3>9, <4>1, <4>3 DEF Read
      <3>16. Arrives(model, graph, todo, graph', {t, nop}, nop, <<>>)
        BY <3>17, <3>1, <3>2, <3>8, <3>9, <3>10, <3>11, <3>12, <3>13, <3>14, <3>15 DEF Arrives
      <3> QED
        BY <3>16, <2>1, <2>3
    <2>4. ASSUME NEW rec \in Records(D), NEW fresh, t \notin D,
                 graph' = AddEdge(AddNode(graph, t, rec), t, user),
                 todo' = Tail(todo) \o fresh,
                 TraceName(model, graph', t), Fits(t, rec), ReadsAsTraced(model, t, rec),
                 \/ fresh = <<>> /\ ~OneOf(t, {"op", "output"})
                 \/ /\ OneOf(t, {"op"}) /\ rec.ins = <<>>
                    /\ fresh = [i \in DOMAIN Wanted(model, t) |-> Use(Wanted(model, t)[i], t, i)]
          PROVE  \E N, x, f : Arrives(model, graph, todo, graph', N, x, f)
                              /\ todo' = Tail(todo) \o f
      <3> DEFINE g1 == AddNode(graph, t, rec)
      <3> HIDE DEF t, user
      <3>1. /\ IsGraph(g1) /\ DOMAIN g1.node = D \cup {t}
            /\ \A n \in D : g1.node[n] = graph.node[n]
            /\ g1.node[t] = rec
            /\ g1.inputs = <<>> /\ g1.outputs = <<>>
        BY <2>4, <1>3, AddedIs
      <3> HIDE DEF g1
      <3>2. /\ IsGraph(graph') /\ DOMAIN graph'.node = DOMAIN g1.node
            /\ Rereads(graph'.node[user], g1.node[user], Append(g1.node[user].ins, t))
            /\ \A n \in DOMAIN g1.node \ {user} : graph'.node[n] = g1.node[n]
            /\ graph'.inputs = <<>> /\ graph'.outputs = <<>>
        <4>1. t \in DOMAIN g1.node /\ user \in DOMAIN g1.node /\ graph' = AddEdge(g1, t, user)
          BY <3>1, <1>2, <2>4 DEF g1
        <4> QED
          BY <3>1, <4>1, ArrivedIs
      <3>3. /\ DOMAIN graph'.node = D \cup {t}
            /\ Rereads(graph'.node[user], graph.node[user], Append(graph.node[user].ins, t))
            /\ \A n \in D \ {user} : graph'.node[n] = graph.node[n]
            /\ graph'.node[t] = rec
        BY <3>1, <3>2, <1>2, <2>4
      <3>5. Read(graph', t)
        <4>1. graph.node[user].ins \in Seq(D)
          BY <1>2, <1>3 DEF IsGraph, Records
        <4>2. t \in ToSet(graph'.node[user].ins)
          BY <3>3, <4>1, AppendMembers DEF Rereads
        <4> QED
          BY <1>2, <3>3, <4>2 DEF Read
      <3>4. Arrives(model, graph, todo, graph', {t}, t, fresh)
        BY <2>4, <3>2, <3>3, <3>5 DEF Arrives, t, user
      <3> QED
        BY <3>4, <2>4
    <2>5. CASE /\ ~HasNode(graph, t) /\ t \in Leaves \ PassThroughs
               /\ graph' = AddEdge(AddNode(graph, t, LeafNode(t)), t, user)
               /\ todo' = Tail(todo)
      <3>1. t \in Leaves /\ t \notin D
        BY <2>5 DEF HasNode
      <3>2. /\ LeafNode(t) \in Records(D) /\ TraceName(model, graph', t) /\ Fits(t, LeafNode(t))
            /\ ReadsAsTraced(model, t, LeafNode(t))
        BY <3>1, LeafIs
      <3>3. ~OneOf(t, {"op", "output"})
        BY <3>1 DEF OneOf
      <3>4. todo' = Tail(todo) \o <<>>
        BY <2>1, <2>5
      <3> QED
        BY <2>4, <2>5, <3>1, <3>2, <3>3, <3>4
    <2>6. ASSUME ~HasNode(graph, t), t \notin Leaves,
                 LET op == model.body[t[2]]
                 IN  /\ graph' = AddEdge(AddNode(graph, t, Node("op", op.op, "fwd", <<>>)),
                                         t, user)
                     /\ todo' = Tail(todo) \o Pending(op, t)
          PROVE  \E N, x, fresh : Arrives(model, graph, todo, graph', N, x, fresh)
                                  /\ todo' = Tail(todo) \o fresh
      <3> DEFINE rec == Node("op", model.body[t[2]].op, "fwd", <<>>)
                 fresh == Pending(model.body[t[2]], t)
      <3>1. t \notin D
        BY <2>6 DEF HasNode
      <3>2. /\ rec \in Records(D) /\ Fits(t, rec) /\ rec.ins = <<>> /\ ReadsAsTraced(model, t, rec)
            /\ TraceName(model, graph', t) /\ OneOf(t, {"op"})
            /\ Wanted(model, t) = model.body[t[2]].args
        BY <1>2, <2>6, OperationIs
      <3>3. fresh = [i \in DOMAIN Wanted(model, t) |-> Use(Wanted(model, t)[i], t, i)]
        BY <3>2 DEF Pending
      <3>4. graph' = AddEdge(AddNode(graph, t, rec), t, user) /\ todo' = Tail(todo) \o fresh
        BY <2>6
      <3> HIDE DEF rec, fresh, t, user
      <3> QED
        BY <2>4, <3>1, <3>2, <3>3, <3>4
    <2>7. \/ HasNode(graph, t) /\ graph' = AddEdge(graph, t, user) /\ todo' = Tail(todo)
          \/ /\ ~HasNode(graph, t) /\ t \in PassThroughs
             /\ LET nop == <<"nop", user>>
                IN  graph' = AddEdge(AddNode(AddNode(graph, t, LeafNode(t)), nop,
                                             Node("op", "Nop", "fwd", <<t>>)), nop, user)
             /\ todo' = Tail(todo)
          \/ /\ ~HasNode(graph, t) /\ t \in Leaves \ PassThroughs
             /\ graph' = AddEdge(AddNode(graph, t, LeafNode(t)), t, user)
             /\ todo' = Tail(todo)
          \/ /\ ~HasNode(graph, t) /\ t \notin Leaves
             /\ LET op == model.body[t[2]]
                IN  /\ graph' = AddEdge(AddNode(graph, t, Node("op", op.op, "fwd", <<>>)),
                                        t, user)
                    /\ todo' = Tail(todo) \o Pending(op, t)
      BY DEF VisitTensor
    <2> HIDE DEF t, user
    <2> QED
      BY <2>2, <2>3, <2>5, <2>6, <2>7
  <1> QED
    BY <1>1, <1>4

\* Each visit keeps the graph a trace in progress.
LEMMA VisitKeepsTracing ==
    ASSUME IsTraced(model), IsTracing(model, graph, todo), VisitTensor
    PROVE  IsTracing(model, graph', todo')
  BY VisitArrives, TracingStep

\* A traced node is a leaf, an operation, an output, or the Nop before an output.
LEMMA TraceKinds ==
    ASSUME NEW m, IsTraced(m), NEW g, NEW n, TraceName(m, g, n)
    PROVE  \/ n \in Leaves
           \/ /\ n \notin Leaves /\ n[1] = "op" /\ EpochOf(n) = "fwd" /\ TypeOf(n) = "op"
              /\ n[2] \in DOMAIN m.body /\ n = Result(n[2])
           \/ /\ n \notin Leaves /\ n[1] = "output" /\ EpochOf(n) = "fwd" /\ TypeOf(n) = "output"
              /\ n \in OutputNodes(m) /\ n[2] \in ToSet(m.outs) /\ n = Output(n[2])
           \/ /\ n \notin Leaves /\ n[1] = "nop" /\ EpochOf(n) = "fwd" /\ TypeOf(n) = "op"
              /\ n[2][2] \in Leaves \cap DOMAIN g.node /\ n[2][2] \in ToSet(m.outs)
              /\ n = <<"nop", Output(n[2][2])>>
  <1>1. ASSUME NEW i \in DOMAIN m.body, n = Result(i)
        PROVE  /\ n \notin Leaves /\ n[1] = "op" /\ EpochOf(n) = "fwd" /\ TypeOf(n) = "op"
               /\ n[2] \in DOMAIN m.body /\ n = Result(n[2])
    <2>1. n = <<"op", i>> /\ n[1] = "op" /\ n[2] = i
      BY <1>1 DEF Result
    <2>2. <<"op", i>> \notin Leaves /\ EpochOf(<<"op", i>>) = "fwd" /\ TypeOf(<<"op", i>>) = "op"
      BY NotLeaves, NamesAre
    <2> QED
      BY <1>1, <2>1, <2>2
  <1>2. ASSUME NEW t \in ToSet(m.outs), n = Output(t)
        PROVE  /\ n \notin Leaves /\ n[1] = "output" /\ EpochOf(n) = "fwd" /\ TypeOf(n) = "output"
               /\ n[2] \in ToSet(m.outs) /\ n = Output(n[2])
    <2>1. n = <<"output", t>> /\ n[1] = "output" /\ n[2] = t
      BY <1>2 DEF Output
    <2>2. <<"output", t>> \notin Leaves /\ EpochOf(<<"output", t>>) = "fwd"
          /\ TypeOf(<<"output", t>>) = "output"
      BY NotLeaves, NamesAre
    <2> QED
      BY <1>2, <2>1, <2>2
  <1>3. ASSUME NEW t \in ToSet(m.outs), n = <<"nop", Output(t)>>, t \in Leaves \cap DOMAIN g.node
        PROVE  /\ n \notin Leaves /\ n[1] = "nop" /\ EpochOf(n) = "fwd" /\ TypeOf(n) = "op"
               /\ n[2][2] = t /\ n = <<"nop", Output(n[2][2])>>
    <2>1. n[1] = "nop" /\ n[2] = Output(t) /\ Output(t)[2] = t
      BY <1>3 DEF Output
    <2>2. <<"nop", Output(t)>> \notin Leaves /\ EpochOf(<<"nop", Output(t)>>) = "fwd"
          /\ TypeOf(<<"nop", Output(t)>>) = "op"
      BY NotLeaves, NamesAre
    <2> QED
      BY <1>3, <2>1, <2>2
  <1>4. OutputNodes(m) = {Output(t) : t \in ToSet(m.outs)}
    BY OutputsAre
  <1>5. CASE n \in OutputNodes(m)
    <2>1. PICK t \in ToSet(m.outs) : n = Output(t)
      BY <1>4, <1>5
    <2> QED
      BY <2>1, <1>2, <1>5
  <1>6. CASE \E i \in DOMAIN m.body : n = Result(i)
    BY <1>1, <1>6
  <1>7. CASE \E t \in ToSet(m.outs) : n = <<"nop", Output(t)>> /\ t \in Leaves \cap DOMAIN g.node
    <2>1. PICK t \in ToSet(m.outs) : n = <<"nop", Output(t)>> /\ t \in Leaves \cap DOMAIN g.node
      BY <1>7
    <2> QED
      BY <2>1, <1>3
  <1> QED
    BY <1>5, <1>6, <1>7 DEF TraceName

\* What a traced node may read is of a lower rank.
LEMMA RanksFall ==
    ASSUME NEW m, IsTraced(m), NEW g, NEW n \in DOMAIN g.node, TraceName(m, g, n),
           ReadsAsTraced(m, n, g.node[n]), g.node[n].ins \in Seq(DOMAIN g.node),
           NEW x \in ToSet(g.node[n].ins)
    PROVE  RankOf(n) \in Nat /\ RankOf(x) \in Nat /\ RankOf(x) < RankOf(n)
  <1>1. MaxOps \in Nat
    BY AutogradAssumption
  <1>2. m.body \in Seq(BodyOps) /\ Len(m.body) <= MaxOps
    BY DEF IsTraced, IsBody, BodyOps
  <1>3. DOMAIN m.body = 1..Len(m.body) /\ Len(m.body) \in Nat
    BY <1>2
  <1> DEFINE ins == g.node[n].ins
  <1>4. PICK p \in DOMAIN ins : x = ins[p]
    BY DEF ToSet
  <1>5. DOMAIN ins = 1..Len(ins) /\ Len(ins) \in Nat
    BY Entries
  <1>6. ASSUME NEW i \in Nat, NEW t \in Tensors(i)
        PROVE  RankOf(t) \in Nat /\ RankOf(t) <= i + 1
    <2>1. CASE t \in Leaves
      <3>1. RankOf(t) = 0
        BY <2>1, LeavesAre
      <3> QED
        BY <3>1
    <2>2. CASE t \notin Leaves
      <3>1. PICK j \in 1..i : t = Result(j)
        BY <2>2, <1>6 DEF Tensors
      <3>2. t[1] = "op" /\ t[2] = j
        BY <3>1 DEF Result
      <3>3. RankOf(t) = j + 1
        BY <2>2, <3>2 DEF RankOf
      <3> QED
        BY <3>3, <1>6
    <2> QED
      BY <2>1, <2>2
  <1>7. n \notin Leaves
    BY <1>4, <1>5 DEF ReadsAsTraced
  <1>8. CASE n[1] = "nop"
    <2>1. ins = <<n[2][2]>> /\ n[2][2] \in Leaves
      BY <1>7, <1>8, TraceKinds DEF ReadsAsTraced, OneOf
    <2>2. x \in Leaves
      BY <2>1, <1>4
    <2>3. RankOf(x) = 0
      BY <2>2, LeavesAre
    <2> QED
      BY <2>3, <1>7, <1>8 DEF RankOf
  <1>9. CASE n[1] = "op" /\ n[2] \in DOMAIN m.body /\ n = Result(n[2])
    <2>1. OneOf(n, {"op", "output"}) /\ Wanted(m, n) = m.body[n[2]].args
      BY <1>7, <1>9 DEF OneOf, Wanted
    <2>2. Len(ins) <= Len(Wanted(m, n)) /\ ins[p] = Wanted(m, n)[p]
      BY <2>1, <1>4, <1>9 DEF ReadsAsTraced
    <2>3. IsOp(n[2], m.body[n[2]])
      BY <1>9 DEF IsTraced, IsBody
    <2>4. m.body[n[2]].args \in Seq(Tensors(MaxOps))
      BY <2>3 DEF IsOp
    <2>5. p \in DOMAIN Wanted(m, n)
      BY <2>1, <2>2, <2>4, <1>5
    <2>6. x \in ToSet(m.body[n[2]].args)
      BY <2>1, <2>2, <2>5, <1>4 DEF ToSet
    <2>7. x \in Tensors(n[2] - 1)
      BY <2>3, <2>6 DEF IsOp
    <2>8. n[2] \in 1..MaxOps
      BY <1>1, <1>2, <1>3, <1>9
    <2>9. RankOf(n) = n[2] + 1
      BY <1>7, <1>9 DEF RankOf
    <2>11. n[2] - 1 \in Nat
      BY <2>8, <1>1
    <2>10. RankOf(x) \in Nat /\ RankOf(x) <= (n[2] - 1) + 1
      BY <1>6, <2>7, <2>11
    <2> QED
      BY <2>8, <2>9, <2>10
  <1>10. CASE n[1] = "output" /\ n[2] \in ToSet(m.outs) /\ n = Output(n[2])
    <2>1. OneOf(n, {"op", "output"}) /\ Wanted(m, n) = <<n[2]>>
      BY <1>7, <1>10 DEF OneOf, Wanted
    <2>2. /\ Len(ins) <= Len(Wanted(m, n))
          /\ ins[p] = Wanted(m, n)[p] \/ ins[p] = <<"nop", n>>
      BY <2>1, <1>4 DEF ReadsAsTraced
    <2>3. p = 1
      BY <2>1, <2>2, <1>5
    <2>4. x = n[2] \/ x = <<"nop", n>>
      BY <2>1, <2>2, <2>3, <1>4
    <2>5. RankOf(n) = MaxOps + 2
      BY <1>7, <1>10 DEF RankOf
    <2>6. CASE x = n[2]
      <3>1. n[2] \in Tensors(Len(m.body))
        <4>1. m.outs \in Seq(Tensors(Len(m.body)))
          BY DEF IsTraced
        <4> QED
          BY <4>1, <1>10, Entries
      <3>2. RankOf(x) \in Nat /\ RankOf(x) <= Len(m.body) + 1
        BY <2>6, <3>1, <1>2, <1>3, <1>6
      <3> QED
        BY <3>2, <2>5, <1>1, <1>2, <1>3
    <2>7. CASE x = <<"nop", n>>
      <3>1. x \notin Leaves /\ x[1] = "nop"
        BY <2>7, NotLeaves
      <3>2. RankOf(x) = 1
        BY <3>1 DEF RankOf
      <3> QED
        BY <3>2, <2>5, <1>1
    <2> QED
      BY <2>4, <2>6, <2>7
  <1> QED
    BY <1>7, <1>8, <1>9, <1>10, TraceKinds

\* With nothing waiting, every node has all its operands.
LEMMA TraceIsWhole ==
    ASSUME NEW m, IsTraced(m), NEW g, IsTracing(m, g, <<>>), NEW n \in DOMAIN g.node
    PROVE  Whole(n, g.node[n])
  <1>1. /\ IsGraph(g) /\ TraceName(m, g, n) /\ Fits(n, g.node[n]) /\ ReadsAsTraced(m, n, g.node[n])
        /\ Waiting(m, g, <<>>)
    BY DEF IsTracing
  <1> DEFINE nd == g.node[n]
  <1>2. nd \in Records(DOMAIN g.node) /\ nd.ins \in Seq(DOMAIN g.node) /\ Len(nd.ins) \in Nat
    BY <1>1 DEF IsGraph, Records
  <1>3. nd.type = TypeOf(n)
    BY <1>1 DEF Fits
  <1>4. CASE n \in Leaves
    BY <1>1, <1>3, <1>4, LeavesAre DEF Whole, ReadsAsTraced, Ports
  <1>5. CASE n \notin Leaves /\ n[1] = "nop" /\ TypeOf(n) = "op"
    <2>1. nd.role = "Nop" /\ nd.ins = <<n[2][2]>>
      BY <1>1, <1>5 DEF ReadsAsTraced, OneOf
    <2>2. Len(nd.ins) = 1 /\ OpArity["Nop"] = 1
      BY <2>1 DEF OpArity
    <2> QED
      BY <1>1, <1>3, <1>5, <2>1, <2>2 DEF Whole, Ports
  <1>6. CASE OneOf(n, {"op", "output"})
    <2>1. Wanted(m, n) \in Seq(Tensors(Len(m.body)))
      BY <1>1, <1>6, TracedUser
    <2>2. Len(nd.ins) <= Len(Wanted(m, n))
      BY <1>1, <1>6 DEF ReadsAsTraced
    <2>3. DOMAIN <<>> = {}
      OBVIOUS
    <2>4. ~(Len(nd.ins) + 1 \in (Len(nd.ins) + 1)..Len(Wanted(m, n)))
      BY <1>1, <1>6, <2>3 DEF Waiting
    <2>5. Len(nd.ins) = Len(Wanted(m, n))
      <3>1. Len(Wanted(m, n)) \in Nat
        BY <2>1
      <3> HIDE DEF nd
      <3> QED
        BY <3>1, <2>2, <2>4, <1>2
    <2>6. CASE n[1] = "op" /\ TypeOf(n) = "op" /\ n[2] \in DOMAIN m.body
      <3>1. Wanted(m, n) = m.body[n[2]].args /\ nd.role = m.body[n[2]].op
        BY <1>1, <1>6, <2>6 DEF Wanted, ReadsAsTraced, OneOf
      <3>2. Len(m.body[n[2]].args) = OpArity[m.body[n[2]].op]
        BY <2>6 DEF IsTraced, IsBody, IsOp
      <3> QED
        BY <3>1, <3>2, <2>5, <2>6, <1>1, <1>3 DEF Whole, Ports
    <2>7. CASE n[1] = "output" /\ TypeOf(n) = "output"
      <3>1. Wanted(m, n) = <<n[2]>>
        BY <2>7 DEF Wanted
      <3> QED
        BY <3>1, <2>5, <2>7, <1>1, <1>3 DEF Whole, Ports
    <2> QED
      BY <2>6, <2>7, <1>1, <1>6, TraceKinds DEF OneOf
  <1> QED
    BY <1>1, <1>4, <1>5, <1>6, TraceKinds DEF OneOf

\* The graph the trace leaves is well formed, and its lists are the module's.
LEMMA RegisterGivesTrace ==
    ASSUME IsTraced(model), IsTracing(model, graph, todo), RegisterModule
    PROVE  Well(graph') /\ Listed(model, graph') /\ IsTrace(model, graph')
  <1> DEFINE D == DOMAIN graph.node
             h == graph'
  <1>1. todo = <<>> /\ graph' = [graph EXCEPT !.inputs = Named(graph, Activations),
                                              !.outputs = Outputs]
    BY DEF RegisterModule
  <1>2. IsTracing(model, graph, <<>>)
    BY <1>1
  <1>3. /\ IsGraph(graph) /\ OutputNodes(model) \subseteq D
        /\ \A n \in D : /\ TraceName(model, graph, n) /\ Fits(n, graph.node[n])
                        /\ ReadsAsTraced(model, n, graph.node[n])
    BY DEF IsTracing
  <1>4. graph \in [nodes : Seq(D), node : [D -> Records(D)], inputs : Seq(D), outputs : Seq(D)]
        /\ ToSet(graph.nodes) = D /\ Distinct(graph.nodes)
    BY <1>3 DEF IsGraph
  <1>5. /\ Named(graph, Activations) \in Seq(D) /\ Distinct(Named(graph, Activations))
        /\ ToSet(Named(graph, Activations)) = ToSet(Activations) \cap D
    <2>1. Activations \in Seq(Seq(STRING)) /\ Distinct(Activations)
      BY AutogradAssumption DEF Distinct
    <2>2. /\ Only(Activations, D) \in Seq(Seq(STRING)) /\ Distinct(Only(Activations, D))
          /\ ToSet(Only(Activations, D)) = ToSet(Activations) \cap D
      BY <2>1, OnlyMembers, OnlyDistinct
    <2>3. Only(Activations, D) \in Seq(D)
      BY <2>2, Retyped
    <2> QED
      BY <2>2, <2>3 DEF Named
  <1>6. Outputs = ModuleOutputs(model) /\ Outputs \in Seq(D)
    <2>1. Outputs = ModuleOutputs(model)
      BY DEF Outputs, ModuleOutputs
    <2>2. ModuleOutputs(model) \in Seq(OutputNodes(model))
      BY OutputsAre
    <2>3. ToSet(ModuleOutputs(model)) \subseteq D
      BY <1>3 DEF OutputNodes
    <2> QED
      BY <2>1, <2>2, <2>3, Retyped
  <1>7. /\ h.nodes = graph.nodes /\ h.node = graph.node
        /\ h.inputs = Named(graph, Activations) /\ h.outputs = Outputs
        /\ h \in [nodes : Seq(D), node : [D -> Records(D)], inputs : Seq(D), outputs : Seq(D)]
    BY <1>1, <1>4, <1>5, <1>6
  <1>8. IsGraph(h)
    BY <1>4, <1>7 DEF IsGraph
  <1>9. \A n \in D : graph.node[n].ins \in Seq(D)
    BY <1>4 DEF Records
  <1>10. Acyclic(h)
    <2> DEFINE r == [n \in D |-> RankOf(n)]
    <2>1. \A n \in D : \A x \in ToSet(graph.node[n].ins) : x \in D /\ RankOf(x) < RankOf(n)
      <3>1. \A n \in D : \A x \in ToSet(graph.node[n].ins) : x \in D
        BY <1>9, Entries
      <3> QED
        BY <3>1, <1>3, <1>9, RanksFall
    <2>2. \A n \in D : RankOf(n) \in Nat
      <3> SUFFICES ASSUME NEW n \in D PROVE RankOf(n) \in Nat
        OBVIOUS
      <3>1. MaxOps \in Nat
        BY AutogradAssumption
      <3>2. CASE n[1] = "op" /\ n[2] \in DOMAIN model.body
        <4>1. n[2] \in Nat
          <5>1. model.body \in Seq(BodyOps)
            BY DEF IsTraced, IsBody, BodyOps
          <5> QED
            BY <5>1, <3>2
        <4> QED
          BY <4>1, <3>1, <3>2 DEF RankOf
      <3>3. CASE n \in Leaves \/ n[1] \in {"nop", "output"}
        BY <3>1, <3>3 DEF RankOf
      <3> QED
        BY <3>2, <3>3, <1>3, TraceKinds
    <2>3. r \in Ranks(h)
      <3>1. r \in [D -> Nat]
        BY <2>2
      <3>2. \A n \in D : \A x \in ToSet(h.node[n].ins) : r[x] < r[n]
        BY <2>1, <1>7
      <3> HIDE DEF r
      <3> QED
        BY <3>1, <3>2, <1>7 DEF Ranks
    <2> QED
      BY <2>3 DEF Acyclic
  <1>11. Well(h)
    <2>1. \A n \in D : Whole(n, graph.node[n])
      BY <1>2, TraceIsWhole
    <2> QED
      BY <2>1, <1>7, <1>8, <1>10 DEF Well
  <1>12. ASSUME NEW n \in D
         PROVE  /\ n \in Leaves \/ n[1] \in FwdKinds
                /\ OneOf(n, {"output"}) => n \in OutputNodes(model)
                /\ ~OneOf(n, {"gradient"})
                /\ n \in ToSet(Activations) => n \in ToSet(h.inputs)
                /\ TraceName(model, h, n)
    <2>1. \A k \in {"op", "nop", "output"} : k \in FwdKinds /\ k # "gradient"
      BY DEF FwdKinds
    <2>2. TraceName(model, h, n)
      BY <1>3, <1>7 DEF TraceName
    <2> QED
      BY <2>1, <2>2, <1>3, <1>5, <1>7, TraceKinds DEF OneOf
  <1>13. Listed(model, h)
    BY <1>5, <1>6, <1>7, <1>12 DEF Listed
  <1>14. IsTrace(model, h)
    BY <1>3, <1>7, <1>12 DEF IsTrace, OnlyKinds
  <1> QED
    BY <1>11, <1>13, <1>14

\* Functions defined by recursion along a rank: what step computes for x looks only
\* at the values of those of lower ranks.
Ranked(D, V, r, step) ==
    /\ r \in [D -> Nat] /\ \E bound \in Nat : \A x \in D : r[x] < bound
    /\ \A x \in D : \A f \in [D -> V] : step[x][f] \in V
    /\ \A x \in D : \A f, h \in [D -> V] :
          (\A y \in D : r[y] < r[x] => f[y] = h[y]) => step[x][f] = step[x][h]

Computes(D, V, step) == \E f \in [D -> V] : \A x \in D : f[x] = step[x][f]

\* A recursive definition whose every step reads only lower entries has a solution.
LEMMA RankedRecursion ==
    ASSUME NEW D, NEW V, NEW v0 \in V, NEW r, NEW step, Ranked(D, V, r, step)
    PROVE  Computes(D, V, step)
  <1>8. PICK bound \in Nat : \A x \in D : r[x] < bound
    BY DEF Ranked
  <1>9. /\ r \in [D -> Nat]
        /\ \A x \in D : \A f \in [D -> V] : step[x][f] \in V
        /\ \A x \in D : \A f, h \in [D -> V] :
              (\A y \in D : r[y] < r[x] => f[y] = h[y]) => step[x][f] = step[x][h]
    BY DEF Ranked
  <1> DEFINE Done(f, k) == \A x \in D : r[x] < k => f[x] = step[x][f]
             Good == {k \in Nat : \E f \in [D -> V] : Done(f, k)}
  <1>1. 0 \in Good
    <2>1. [x \in D |-> v0] \in [D -> V]
      OBVIOUS
    <2>2. \A x \in D : ~ r[x] < 0
      BY <1>9
    <2>3. Done([x \in D |-> v0], 0)
      BY <2>2
    <2> QED
      BY <2>1, <2>3
  <1>2. ASSUME NEW k \in Nat, k \in Good PROVE k + 1 \in Good
    <2>1. PICK f \in [D -> V] : Done(f, k)
      BY <1>2
    <2> DEFINE h == [x \in D |-> IF r[x] < k THEN f[x] ELSE step[x][f]]
    <2>2. h \in [D -> V]
      BY <1>9
    <2>3. \A x \in D : r[x] < k => h[x] = f[x]
      OBVIOUS
    <2>4. \A x \in D : h[x] = step[x][f]
      BY <2>1
    <2> HIDE DEF h
    <2>5. ASSUME NEW x \in D, r[x] < k + 1 PROVE h[x] = step[x][h]
      <3>1. \A y \in D : r[y] < r[x] => f[y] = h[y]
        BY <2>3, <2>5, <1>9
      <3>2. step[x][f] = step[x][h]
        BY <3>1, <2>2, <1>9
      <3> QED
        BY <3>2, <2>4
    <2>6. Done(h, k + 1)
      BY <2>5
    <2> QED
      BY <2>2, <2>6
  <1>3. bound \in Good
    <2> HIDE DEF Good
    <2> QED
      BY <1>1, <1>2, SetInduction
  <1>4. PICK f \in [D -> V] : Done(f, bound)
    BY <1>3
  <1>5. \A x \in D : f[x] = step[x][f]
    BY <1>4, <1>8
  <1> QED
    BY <1>5 DEF Computes

\* The ranks of a graph's nodes have a bound.
LEMMA RanksBounded ==
    ASSUME NEW g, IsGraph(g), NEW r \in Ranks(g)
    PROVE  \E k \in Nat : \A n \in DOMAIN g.node : r[n] < k
  <1>1. r \in [DOMAIN g.node -> Nat] /\ g.nodes \in Seq(DOMAIN g.node)
        /\ ToSet(g.nodes) = DOMAIN g.node
    BY DEF Ranks, IsGraph
  <1> QED
    BY <1>1, RankBound

-----------------------------------------------------------------------------
\* A node needs a gradient when it is trained or reads one that does.
NeedStep(g, need) ==
    need = [n \in DOMAIN g.node |->
               IF g.node[n].type = "input" THEN n \in model.trained
               ELSE \E i \in DOMAIN g.node[n].ins : need[g.node[n].ins[i]]]

\* The recursion of NeedGrad: a node that is no input needs a gradient if an operand does.
LEMMA NeedGradIs ==
    ASSUME NEW g, IsGraph(g), Acyclic(g)
    PROVE  /\ NeedGrad(g) \subseteq DOMAIN g.node
           /\ \A n \in DOMAIN g.node :
                 n \in NeedGrad(g) <=> IF g.node[n].type = "input" THEN n \in model.trained
                                       ELSE \E x \in ToSet(g.node[n].ins) : x \in NeedGrad(g)
  <1> DEFINE D == DOMAIN g.node
             body(n, f) == IF g.node[n].type = "input" THEN n \in model.trained
                           ELSE \E i \in DOMAIN g.node[n].ins : f[g.node[n].ins[i]]
             step == [n \in D |-> [f \in [D -> BOOLEAN] |-> body(n, f)]]
  <1>1. PICK r \in Ranks(g) : TRUE
    BY DEF Acyclic
  <1>2. r \in [D -> Nat] /\ \A n \in D : \A x \in ToSet(g.node[n].ins) : r[x] < r[n]
    BY DEF Ranks
  <1>3. PICK k \in Nat : \A n \in D : r[n] < k
    BY RanksBounded
  <1>4. \A n \in D : g.node[n].ins \in Seq(D)
    BY DEF IsGraph, Records
  <1>5. \A n \in D : \A i \in DOMAIN g.node[n].ins :
           g.node[n].ins[i] \in D /\ r[g.node[n].ins[i]] < r[n]
    <2>1. \A n \in D : \A i \in DOMAIN g.node[n].ins : g.node[n].ins[i] \in ToSet(g.node[n].ins)
      BY DEF ToSet
    <2> QED
      BY <2>1, <1>2, <1>4
  <1>6. \A n \in D : \A f \in [D -> BOOLEAN] : step[n][f] = body(n, f)
    OBVIOUS
  <1>7. \A n \in D : \A f \in [D -> BOOLEAN] : step[n][f] \in BOOLEAN
    <2>1. ASSUME NEW n \in D, NEW f \in [D -> BOOLEAN] PROVE body(n, f) \in BOOLEAN
      <3>1. CASE g.node[n].type = "input"
        <4>1. body(n, f) = (n \in model.trained)
          BY <3>1
        <4>2. (n \in model.trained) \in BOOLEAN
          OBVIOUS
        <4> QED
          BY <4>1, <4>2
      <3>2. CASE g.node[n].type # "input"
        <4>1. body(n, f) = \E i \in DOMAIN g.node[n].ins : f[g.node[n].ins[i]]
          BY <3>2
        <4>2. (\E i \in DOMAIN g.node[n].ins : f[g.node[n].ins[i]]) \in BOOLEAN
          OBVIOUS
        <4> QED
          BY <4>1, <4>2
      <3> QED
        BY <3>1, <3>2
    <2> HIDE DEF body, step
    <2> QED
      BY <2>1, <1>6
  <1>8. ASSUME NEW n \in D, NEW f \in [D -> BOOLEAN], NEW h \in [D -> BOOLEAN],
               \A y \in D : r[y] < r[n] => f[y] = h[y]
        PROVE  step[n][f] = step[n][h]
    <2>1. \A i \in DOMAIN g.node[n].ins : f[g.node[n].ins[i]] = h[g.node[n].ins[i]]
      BY <1>5, <1>8
    <2>2. body(n, f) = body(n, h)
      BY <2>1
    <2> HIDE DEF body, step
    <2> QED
      BY <2>2, <1>6
  <1> HIDE DEF step
  <1>9. Ranked(D, BOOLEAN, r, step)
    BY <1>2, <1>3, <1>7, <1>8 DEF Ranked
  <1>10. PICK f \in [D -> BOOLEAN] : \A n \in D : f[n] = step[n][f]
    <2>1. TRUE \in BOOLEAN
      OBVIOUS
    <2> HIDE DEF D
    <2>2. Computes(D, BOOLEAN, step)
      BY <2>1, <1>9, RankedRecursion
    <2> QED
      BY <2>2 DEF Computes
  <1>11. \A n \in D : f[n] = body(n, f)
    <2>1. \A n \in D : f[n] = step[n][f]
      BY <1>10
    <2> HIDE DEF body
    <2> QED
      BY <2>1, <1>6
  <1>12. f = [n \in D |-> body(n, f)]
    <2>1. f = [n \in D |-> f[n]]
      OBVIOUS
    <2> HIDE DEF body
    <2> QED
      BY <2>1, <1>11
  <1>13. NeedStep(g, f)
    BY <1>12 DEF NeedStep
  <1> DEFINE need == CHOOSE need : NeedStep(g, need)
  <1>14. NeedStep(g, need)
    BY <1>13
  <1>15. NeedGrad(g) = {n \in D : need[n]}
    BY DEF NeedGrad, NeedStep
  <1> HIDE DEF need
  <1>16. \A n \in D : need[n] = IF g.node[n].type = "input" THEN n \in model.trained
                                ELSE \E i \in DOMAIN g.node[n].ins : need[g.node[n].ins[i]]
    BY <1>14 DEF NeedStep
  <1>17. ASSUME NEW n \in D
         PROVE  n \in NeedGrad(g) <=> IF g.node[n].type = "input" THEN n \in model.trained
                                      ELSE \E x \in ToSet(g.node[n].ins) : x \in NeedGrad(g)
    <2>1. CASE g.node[n].type = "input"
      BY <2>1, <1>15, <1>16
    <2>2. CASE g.node[n].type # "input"
      <3>1. need[n] <=> \E i \in DOMAIN g.node[n].ins : need[g.node[n].ins[i]]
        BY <2>2, <1>16
      <3>2. \A i \in DOMAIN g.node[n].ins : g.node[n].ins[i] \in D
        BY <1>5
      <3>3. (\E i \in DOMAIN g.node[n].ins : need[g.node[n].ins[i]])
            <=> (\E x \in ToSet(g.node[n].ins) : x \in NeedGrad(g))
        BY <3>2, <1>15 DEF ToSet
      <3> QED
        BY <3>1, <3>3, <2>2, <1>15
    <2> QED
      BY <2>1, <2>2
  <1> QED
    BY <1>15, <1>17

DifferentiableStep(m, need) ==
    need = [t \in Tensors(Len(m.body)) |->
               IF t \in Leaves THEN t \in m.trained
               ELSE \E i \in DOMAIN m.body[t[2]].args : need[m.body[t[2]].args[i]]]

\* The operands of an operation are tensors of lower rank.
LEMMA OperandsAre ==
    ASSUME NEW m, IsTraced(m), NEW t \in Tensors(Len(m.body)), t \notin Leaves
    PROVE  /\ t[2] \in DOMAIN m.body /\ t = Result(t[2]) /\ t[1] = "op"
           /\ m.body[t[2]].args \in Seq(Tensors(Len(m.body)))
           /\ \A x \in ToSet(m.body[t[2]].args) :
                 x \in Tensors(Len(m.body)) /\ RankOf(x) < RankOf(t)
  <1>1. m.body \in Seq(BodyOps) /\ Len(m.body) <= MaxOps /\ MaxOps \in Nat
    BY AutogradAssumption DEF IsTraced, IsBody, BodyOps
  <1>2. DOMAIN m.body = 1..Len(m.body) /\ Len(m.body) \in Nat
    BY <1>1
  <1>3. PICK i \in 1..Len(m.body) : t = Result(i)
    BY DEF Tensors
  <1>4. t[2] = i /\ t[1] = "op" /\ i \in DOMAIN m.body
    BY <1>2, <1>3 DEF Result
  <1>5. m.body[i].args \in Seq(Tensors(MaxOps)) /\ ToSet(m.body[i].args) \subseteq Tensors(i - 1)
    BY <1>4 DEF IsTraced, IsBody, IsOp
  <1>6. RankOf(t) = i + 1
    BY <1>4 DEF RankOf
  <1>7. Tensors(i - 1) \subseteq Tensors(Len(m.body))
    <2>1. i - 1 \in Int /\ Len(m.body) \in Int /\ i - 1 <= Len(m.body)
      BY <1>2
    <2> QED
      BY <2>1, TensorsGrow
  <1>8. ASSUME NEW x \in Tensors(i - 1) PROVE RankOf(x) < i + 1
    <2>1. CASE x \in Leaves
      BY <2>1, LeavesAre
    <2>2. CASE x \notin Leaves
      <3>1. PICK j \in 1..(i - 1) : x = Result(j)
        BY <2>2, <1>8 DEF Tensors
      <3>2. x[1] = "op" /\ x[2] = j
        BY <3>1 DEF Result
      <3>3. RankOf(x) = j + 1
        BY <2>2, <3>2 DEF RankOf
      <3> QED
        BY <3>3
    <2> QED
      BY <2>1, <2>2
  <1>9. m.body[i].args \in Seq(Tensors(Len(m.body)))
    BY <1>5, <1>7, Retyped
  <1> QED
    BY <1>3, <1>4, <1>5, <1>6, <1>7, <1>8, <1>9

\* The tensors of a body are ranked by their place in it.
LEMMA TensorRanks ==
    ASSUME NEW m, IsTraced(m), NEW t \in Tensors(Len(m.body))
    PROVE  RankOf(t) \in Nat /\ RankOf(t) < MaxOps + 2
  <1>1. m.body \in Seq(BodyOps) /\ Len(m.body) <= MaxOps /\ MaxOps \in Nat
    BY AutogradAssumption DEF IsTraced, IsBody, BodyOps
  <1>2. CASE t \in Leaves
    BY <1>1, <1>2, LeavesAre
  <1>3. CASE t \notin Leaves
    <2>1. PICK i \in 1..Len(m.body) : t = Result(i)
      BY <1>3 DEF Tensors
    <2>2. t[2] = i /\ t[1] = "op"
      BY <2>1 DEF Result
    <2>3. RankOf(t) = i + 1 /\ Len(m.body) \in Nat
      BY <2>2, <1>1, <1>3 DEF RankOf
    <2> QED
      BY <2>3, <1>1
  <1> QED
    BY <1>2, <1>3

\* A tensor is differentiable when it is a trained leaf or computed from one that is.
LEMMA DifferentiableIs ==
    ASSUME NEW m, IsTraced(m)
    PROVE  \A t \in Tensors(Len(m.body)) :
              Differentiable(m)[t] <=> IF t \in Leaves THEN t \in m.trained
                                       ELSE \E x \in ToSet(m.body[t[2]].args) : Differentiable(m)[x]
  <1> DEFINE D == Tensors(Len(m.body))
             body(n, f) == IF n \in Leaves THEN n \in m.trained
                           ELSE \E i \in DOMAIN m.body[n[2]].args : f[m.body[n[2]].args[i]]
             step == [n \in D |-> [f \in [D -> BOOLEAN] |-> body(n, f)]]
             r == [n \in D |-> RankOf(n)]
  <1>1. r \in [D -> Nat] /\ \A n \in D : r[n] < MaxOps + 2
    BY TensorRanks
  <1>2. MaxOps + 2 \in Nat
    BY AutogradAssumption
  <1>3. ASSUME NEW n \in D, n \notin Leaves
        PROVE  /\ m.body[n[2]].args \in Seq(D)
               /\ \A i \in DOMAIN m.body[n[2]].args :
                     m.body[n[2]].args[i] \in D /\ r[m.body[n[2]].args[i]] < r[n]
    <2>1. /\ m.body[n[2]].args \in Seq(D)
          /\ \A x \in ToSet(m.body[n[2]].args) : x \in D /\ RankOf(x) < RankOf(n)
      BY <1>3, OperandsAre
    <2>2. \A i \in DOMAIN m.body[n[2]].args : m.body[n[2]].args[i] \in ToSet(m.body[n[2]].args)
      BY DEF ToSet
    <2> HIDE DEF D
    <2>3. \A x \in D : r[x] = RankOf(x)
      BY DEF r
    <2> HIDE DEF r
    <2> QED
      BY <2>1, <2>2, <2>3
  <1> HIDE DEF r
  <1>4. \A n \in D : \A f \in [D -> BOOLEAN] : step[n][f] = body(n, f)
    OBVIOUS
  <1>5. \A n \in D : \A f \in [D -> BOOLEAN] : step[n][f] \in BOOLEAN
    <2>1. ASSUME NEW n \in D, NEW f \in [D -> BOOLEAN] PROVE body(n, f) \in BOOLEAN
      <3>1. CASE n \in Leaves
        <4>1. body(n, f) = (n \in m.trained)
          BY <3>1
        <4>2. (n \in m.trained) \in BOOLEAN
          OBVIOUS
        <4> QED
          BY <4>1, <4>2
      <3>2. CASE n \notin Leaves
        <4>1. body(n, f) = \E i \in DOMAIN m.body[n[2]].args : f[m.body[n[2]].args[i]]
          BY <3>2
        <4>2. (\E i \in DOMAIN m.body[n[2]].args : f[m.body[n[2]].args[i]]) \in BOOLEAN
          OBVIOUS
        <4> QED
          BY <4>1, <4>2
      <3> QED
        BY <3>1, <3>2
    <2> HIDE DEF body, step
    <2> QED
      BY <2>1, <1>4
  <1>6. ASSUME NEW n \in D, NEW f \in [D -> BOOLEAN], NEW h \in [D -> BOOLEAN],
               \A y \in D : r[y] < r[n] => f[y] = h[y]
        PROVE  step[n][f] = step[n][h]
    <2>1. n \notin Leaves => \A i \in DOMAIN m.body[n[2]].args :
                                f[m.body[n[2]].args[i]] = h[m.body[n[2]].args[i]]
      BY <1>3, <1>6
    <2>2. body(n, f) = body(n, h)
      BY <2>1
    <2> HIDE DEF body, step
    <2> QED
      BY <2>2, <1>4
  <1> HIDE DEF step
  <1>7. Ranked(D, BOOLEAN, r, step)
    BY <1>1, <1>2, <1>5, <1>6 DEF Ranked
  <1>8. PICK f \in [D -> BOOLEAN] : \A n \in D : f[n] = step[n][f]
    <2>1. TRUE \in BOOLEAN
      OBVIOUS
    <2> HIDE DEF D
    <2>2. Computes(D, BOOLEAN, step)
      BY <2>1, <1>7, RankedRecursion
    <2> QED
      BY <2>2 DEF Computes
  <1>9. \A n \in D : f[n] = body(n, f)
    <2>1. \A n \in D : f[n] = step[n][f]
      BY <1>8
    <2> HIDE DEF body
    <2> QED
      BY <2>1, <1>4
  <1>10. f = [n \in D |-> body(n, f)]
    <2>1. f = [n \in D |-> f[n]]
      OBVIOUS
    <2> HIDE DEF body
    <2> QED
      BY <2>1, <1>9
  <1>11. DifferentiableStep(m, f)
    BY <1>10 DEF DifferentiableStep
  <1> DEFINE need == CHOOSE need : DifferentiableStep(m, need)
  <1>12. DifferentiableStep(m, need)
    BY <1>11
  <1>13. Differentiable(m) = need
    BY DEF Differentiable, DifferentiableStep
  <1> HIDE DEF need
  <1>14. \A n \in D : need[n] = IF n \in Leaves THEN n \in m.trained
                                ELSE \E i \in DOMAIN m.body[n[2]].args : need[m.body[n[2]].args[i]]
    BY <1>12 DEF DifferentiableStep
  <1>15. ASSUME NEW n \in D
         PROVE  need[n] <=> IF n \in Leaves THEN n \in m.trained
                            ELSE \E x \in ToSet(m.body[n[2]].args) : need[x]
    <2>1. CASE n \in Leaves
      BY <2>1, <1>14
    <2>2. CASE n \notin Leaves
      <3>1. need[n] <=> \E i \in DOMAIN m.body[n[2]].args : need[m.body[n[2]].args[i]]
        BY <2>2, <1>14
      <3>2. (\E i \in DOMAIN m.body[n[2]].args : need[m.body[n[2]].args[i]])
            <=> (\E x \in ToSet(m.body[n[2]].args) : need[x])
        BY DEF ToSet
      <3> QED
        BY <3>1, <3>2, <2>2
    <2> QED
      BY <2>1, <2>2
  <1> QED
    BY <1>13, <1>15

-----------------------------------------------------------------------------
\* The operands of the operations of a whole trace are those of the module.
LEMMA TraceReads ==
    ASSUME NEW m, IsTraced(m), NEW g, Well(g), IsTrace(m, g), NEW n \in DOMAIN g.node
    PROVE  /\ g.node[n].ins \in Seq(DOMAIN g.node) /\ g.node[n].type = TypeOf(n)
           /\ n \in Leaves => g.node[n].type = "input"
           /\ n \notin Leaves => g.node[n].type # "input"
           /\ n \notin Leaves /\ n[1] = "op" => g.node[n].ins = m.body[n[2]].args
           /\ n \notin Leaves /\ n[1] = "nop" => g.node[n].ins = <<n[2][2]>>
           /\ n \notin Leaves /\ n[1] = "output" =>
                 g.node[n].ins = <<n[2]>> \/ g.node[n].ins = <<<<"nop", n>>>>
  <1>1. TraceName(m, g, n) /\ ReadsAsTraced(m, n, g.node[n])
    BY DEF IsTrace
  <1>2. Whole(n, g.node[n]) /\ IsGraph(g)
    BY DEF Well
  <1> DEFINE nd == g.node[n]
  <1>3. nd.type = TypeOf(n) /\ nd.role \in RolesOf(n) /\ Len(nd.ins) = Ports(nd)
    BY <1>2 DEF Whole, Fits
  <1>4. nd.ins \in Seq(DOMAIN g.node)
    BY <1>2 DEF IsGraph, Records
  <1>5. n \in Leaves => nd.type = "input"
    BY <1>3, LeavesAre
  <1>6. n \notin Leaves => nd.type # "input"
    BY <1>1, <1>3, TraceKinds
  <1>7. ASSUME n \notin Leaves, n[1] = "op" PROVE nd.ins = m.body[n[2]].args
    <2>1. n[2] \in DOMAIN m.body /\ TypeOf(n) = "op" /\ n = Result(n[2])
      BY <1>1, <1>7, TraceKinds
    <2>2. OneOf(n, {"op"}) /\ OneOf(n, {"op", "output"})
      BY <1>7 DEF OneOf
    <2>3. nd.role = m.body[n[2]].op
      BY <1>1, <2>2 DEF ReadsAsTraced
    <2>4. IsOp(n[2], m.body[n[2]])
      BY <2>1 DEF IsTraced, IsBody
    <2>5. Len(nd.ins) = Len(m.body[n[2]].args)
      BY <2>1, <2>3, <2>4, <1>3 DEF Ports, IsOp
    <2>6. Wanted(m, n) = m.body[n[2]].args
      BY <1>7 DEF Wanted
    <2>7. \A p \in DOMAIN nd.ins : nd.ins[p] = m.body[n[2]].args[p]
      <3>1. \A p \in DOMAIN nd.ins : nd.ins[p] = Wanted(m, n)[p] \/ n[1] = "output"
        BY <1>1, <2>2 DEF ReadsAsTraced
      <3> QED
        BY <3>1, <2>6, <1>7
    <2>8. m.body[n[2]].args \in Seq(Tensors(MaxOps))
      BY <2>4 DEF IsOp
    <2> HIDE DEF nd
    <2> QED
      BY <2>5, <2>7, <2>8, <1>4
  <1>8. ASSUME n \notin Leaves, n[1] = "nop" PROVE nd.ins = <<n[2][2]>>
    BY <1>1, <1>8 DEF ReadsAsTraced, OneOf
  <1>9. ASSUME n \notin Leaves, n[1] = "output"
        PROVE  nd.ins = <<n[2]>> \/ nd.ins = <<<<"nop", n>>>>
    <2>1. TypeOf(n) = "output"
      BY <1>1, <1>9, TraceKinds
    <2>2. Len(nd.ins) = 1
      BY <2>1, <1>3 DEF Ports
    <2>3. OneOf(n, {"op", "output"}) /\ Wanted(m, n) = <<n[2]>>
      BY <1>9 DEF OneOf, Wanted
    <2>4. \A p \in DOMAIN nd.ins : nd.ins[p] = Wanted(m, n)[p] \/ nd.ins[p] = <<"nop", n>>
      BY <1>1, <2>3 DEF ReadsAsTraced
    <2> HIDE DEF nd
    <2>5. DOMAIN nd.ins = {1}
      BY <2>2, <1>4
    <2>6. nd.ins[1] = n[2] \/ nd.ins[1] = <<"nop", n>>
      BY <2>3, <2>4, <2>5
    <2>7. nd.ins = <<nd.ins[1]>>
      BY <2>2, <2>5, <1>4
    <2> QED
      BY <2>6, <2>7
  <1> QED
    BY <1>3, <1>4, <1>5, <1>6, <1>7, <1>8, <1>9

\* The nodes that need a gradient are the tensors that are differentiable.
LEMMA NeedsAgree ==
    ASSUME IsTraced(model), NEW g, Well(g), IsTrace(model, g)
    PROVE  \A t \in Tensors(Len(model.body)) \cap DOMAIN g.node :
              t \in NeedGrad(g) <=> Differentiable(model)[t]
  <1> DEFINE T == Tensors(Len(model.body))
             D == DOMAIN g.node
             d == Differentiable(model)
             rg == NeedGrad(g)
             Good == {k \in Nat : \A t \in T \cap D : RankOf(t) < k => (t \in rg <=> d[t])}
  <1>1. IsGraph(g) /\ Acyclic(g)
    BY DEF Well
  <1>2. \A n \in D : n \in rg <=> IF g.node[n].type = "input" THEN n \in model.trained
                                  ELSE \E x \in ToSet(g.node[n].ins) : x \in rg
    BY <1>1, NeedGradIs
  <1>3. \A t \in T : d[t] <=> IF t \in Leaves THEN t \in model.trained
                              ELSE \E x \in ToSet(model.body[t[2]].args) : d[x]
    BY DifferentiableIs
  <1>4. \A t \in T : RankOf(t) \in Nat /\ RankOf(t) < MaxOps + 2
    BY TensorRanks
  <1> HIDE DEF d, rg
  <1>5. 0 \in Good
    BY <1>4
  <1>6. ASSUME NEW k \in Nat, k \in Good PROVE k + 1 \in Good
    <2>1. ASSUME NEW t \in T, t \in D, RankOf(t) < k + 1 PROVE t \in rg <=> d[t]
      <3>1. CASE t \in Leaves
        <4>1. g.node[t].type = "input"
          BY <2>1, <3>1, TraceReads
        <4>2. t \in rg <=> t \in model.trained
          BY <4>1, <2>1, <1>2
        <4>3. d[t] <=> t \in model.trained
          BY <3>1, <1>3
        <4> QED
          BY <4>2, <4>3
      <3>2. CASE t \notin Leaves
        <4>1. /\ t[1] = "op" /\ \A x \in ToSet(model.body[t[2]].args) : x \in T /\ RankOf(x) < RankOf(t)
          BY <3>2, OperandsAre
        <4>2. /\ g.node[t].type # "input" /\ g.node[t].ins = model.body[t[2]].args
              /\ g.node[t].ins \in Seq(D)
          BY <2>1, <3>2, <4>1, TraceReads
        <4>3. ToSet(model.body[t[2]].args) \subseteq D
          BY <4>2, Entries
        <4>4. \A x \in ToSet(model.body[t[2]].args) : x \in rg <=> d[x]
          <5> SUFFICES ASSUME NEW x \in ToSet(model.body[t[2]].args) PROVE x \in rg <=> d[x]
            OBVIOUS
          <5>1. x \in T \cap D /\ RankOf(x) < RankOf(t)
            BY <4>1, <4>3
          <5>2. RankOf(x) < k
            BY <5>1, <1>4, <2>1
          <5> QED
            BY <5>1, <5>2, <1>6
        <4>5. t \in rg <=> \E x \in ToSet(model.body[t[2]].args) : x \in rg
          BY <4>2, <2>1, <1>2
        <4>6. d[t] <=> \E x \in ToSet(model.body[t[2]].args) : d[x]
          BY <3>2, <1>3
        <4> QED
          BY <4>4, <4>5, <4>6
      <3> QED
        BY <3>1, <3>2
    <2> QED
      BY <2>1
  <1>7. MaxOps + 2 \in Nat
    BY AutogradAssumption
  <1>8. MaxOps + 2 \in Good
    <2> HIDE DEF Good
    <2> QED
      BY <1>5, <1>6, <1>7, SetInduction
  <1> QED
    BY <1>4, <1>8 DEF d, rg

\* What an output reads needs a gradient when its tensor is differentiable.
LEMMA OutputsNeed ==
    ASSUME IsTraced(model), NEW g, Well(g), Listed(model, g), IsTrace(model, g),
           NEW i \in DOMAIN model.outs, Differentiable(model)[model.outs[i]]
    PROVE  g.node[Output(model.outs[i])].ins[1] \in NeedGrad(g)
  <1> DEFINE t == model.outs[i]
             o == Output(t)
             D == DOMAIN g.node
  <1>1. IsGraph(g) /\ Acyclic(g)
    BY DEF Well
  <1>2. o \in D
    <2>1. ModuleOutputs(model)[i] = o /\ i \in DOMAIN ModuleOutputs(model)
      BY OutputsAre
    <2>2. ModuleOutputs(model) \in Seq(D)
      BY <1>1 DEF Listed, IsGraph
    <2> QED
      BY <2>1, <2>2
  <1>3. t \in Tensors(Len(model.body))
    <2>1. model.outs \in Seq(Tensors(Len(model.body)))
      BY DEF IsTraced
    <2> QED
      BY <2>1
  <1>4. o \notin Leaves /\ o[1] = "output" /\ o[2] = t
    BY NotLeaves DEF Output
  <1>5. g.node[o].ins \in Seq(D) /\ (g.node[o].ins = <<t>> \/ g.node[o].ins = <<<<"nop", o>>>>)
    BY <1>2, <1>4, TraceReads
  <1>6. CASE g.node[o].ins = <<t>>
    <2>1. t \in D
      <3>1. ToSet(<<t>>) \subseteq D
        BY <1>5, <1>6, Entries
      <3> HIDE DEF t
      <3> QED
        BY <3>1, OneIs
    <2>2. t \in NeedGrad(g)
      BY <2>1, <1>3, NeedsAgree
    <2> QED
      BY <2>2, <1>6
  <1>7. CASE g.node[o].ins = <<<<"nop", o>>>>
    <2> DEFINE n == <<"nop", o>>
    <2>1. n \in D
      <3> HIDE DEF n
      <3>1. g.node[o].ins = <<n>>
        BY <1>7 DEF n
      <3>2. ToSet(<<n>>) \subseteq D
        BY <3>1, <1>5, Entries
      <3> QED
        BY <3>2, OneIs
    <2>2. n \notin Leaves /\ n[1] = "nop" /\ n[2] = o
      BY NotLeaves
    <2> HIDE DEF n
    <2>3. g.node[n].ins = <<t>> /\ g.node[n].type # "input" /\ g.node[n].ins \in Seq(D)
      BY <2>1, <2>2, <1>4, TraceReads
    <2>4. t \in D /\ t \in ToSet(g.node[n].ins)
      BY <2>3 DEF ToSet
    <2>5. t \in NeedGrad(g)
      BY <2>4, <1>3, NeedsAgree
    <2>6. n \in NeedGrad(g)
      BY <2>1, <2>3, <2>4, <2>5, <1>1, NeedGradIs
    <2>7. g.node[o].ins[1] = n
      BY <1>7 DEF n
    <2> QED
      BY <2>6, <2>7
  <1> QED
    BY <1>5, <1>6, <1>7

\* The outputs wait for their gradients.
LEMMA PropagateGivesSeeding ==
    ASSUME IsTraced(model), Well(graph), Listed(model, graph), IsTrace(model, graph),
           PropagateRequiresGrad
    PROVE  IsSeeding(model, graph, todo', requires_grad', gradients')
  <1> DEFINE D == DOMAIN graph.node
  <1>1. /\ requires_grad' = NeedGrad(graph) /\ gradients' = [n \in D |-> <<>>]
        /\ todo' = OfType(graph, "output")
    BY DEF PropagateRequiresGrad
  <1>2. IsGraph(graph) /\ Acyclic(graph) /\ graph.nodes \in Seq(D) /\ Distinct(graph.nodes)
        /\ ToSet(graph.nodes) = D
    BY DEF Well, IsGraph
  <1>3. \A n \in D : /\ TraceName(model, graph, n) /\ graph.node[n].type = TypeOf(n)
                     /\ graph.node[n].ins \in Seq(D)
                     /\ n \in Leaves <=> graph.node[n].type = "input"
    BY TraceReads DEF IsTrace
  <1>4. \A n \in D : EpochOf(n) = "fwd"
    BY <1>3, TraceKinds, LeavesAre
  <1>5. \A n \in D : n \in Leaves \/ n[1] \in FwdKinds
    BY DEF IsTrace, OnlyKinds
  <1>6. {n \in D : EpochOf(n) = "fwd"} = D
    BY <1>4
  <1>7. \A n \in D : ~OneOf(n, GradKinds)
    BY <1>5 DEF OneOf, FwdKinds, GradKinds
  <1>8. OnlyKinds(graph, FwdKinds \cup {"gradient"})
    BY <1>5 DEF OnlyKinds
  <1>9. Needs(model, graph, requires_grad')
    <2>1. /\ NeedGrad(graph) \subseteq D
          /\ \A n \in D : n \in NeedGrad(graph) <=>
                IF graph.node[n].type = "input" THEN n \in model.trained
                ELSE \E x \in ToSet(graph.node[n].ins) : x \in NeedGrad(graph)
      BY <1>2, NeedGradIs
    <2> QED
      BY <2>1, <1>1, <1>3, <1>4 DEF Needs
  <1>10. Gathered(graph, requires_grad', gradients')
    <2>3. <<>> \in Seq(D)
      OBVIOUS
    <2>1. \A n \in D : gradients'[n] = <<>> /\ gradients'[n] \in Seq(D)
      BY <2>3, <1>1
    <2>2. gradients' \in [D -> Seq(D)]
      BY <2>1, <1>1
    <2> QED
      BY <2>1, <2>2, <1>6 DEF Gathered
  <1>11. \A n \in DOMAIN gradients' : ToSet(gradients'[n]) = {}
    BY <1>1 DEF ToSet
  <1>12. /\ todo' \in Seq(D) /\ Distinct(todo')
         /\ ToSet(todo') = {n \in D : graph.node[n].type = "output"}
    BY <1>1, <1>2, OnlyMembers, OnlyDistinct DEF OfType
  <1>13. ToSet(todo') = OutputNodes(model)
    <2>1. OutputNodes(model) \subseteq D
      <3>1. ModuleOutputs(model) \in Seq(D)
        BY <1>2 DEF Listed, IsGraph
      <3> QED
        BY <3>1, Entries DEF OutputNodes
    <2>2. \A n \in OutputNodes(model) : TypeOf(n) = "output"
      <3>1. OutputNodes(model) = {Output(t) : t \in ToSet(model.outs)}
        BY OutputsAre
      <3>2. \A t : TypeOf(<<"output", t>>) = "output"
        BY NamesAre
      <3> QED
        BY <3>1, <3>2 DEF Output
    <2>3. \A n \in D : TypeOf(n) = "output" => n \in OutputNodes(model)
      BY <1>3, TraceKinds, LeavesAre
    <2> QED
      BY <2>1, <2>2, <2>3, <1>3, <1>12
  <1>14. todo' \in Seq(OutputNodes(model))
    BY <1>12, <1>13, Retyped
  <1>15. \A o \in ToSet(todo') : <<"gradient", o>> \notin D
    BY <1>5, NotLeaves DEF FwdKinds
  <1>16. Seeded(model, graph, ToSet(todo'))
    <2>1. \A i \in DOMAIN model.outs : Output(model.outs[i]) \in OutputNodes(model)
      BY OutputsAre DEF ToSet
    <2> QED
      BY <2>1, <1>13 DEF Seeded
  <1>17. \A i \in DOMAIN model.outs : Differentiable(model)[model.outs[i]] =>
           graph.node[Output(model.outs[i])].ins[1] \in requires_grad'
    BY <1>1, OutputsNeed
  <1>18. Awaited(graph, gradients', DOMAIN gradients')
    BY <1>7 DEF Awaited
  <1> QED
    BY <1>8, <1>9, <1>10, <1>11, <1>12, <1>14, <1>15, <1>16, <1>17, <1>18 DEF IsSeeding

-----------------------------------------------------------------------------
\* h is g and the nodes of S, which all fit their names and have their operands.
GrowsBy(g, h, S) ==
    /\ DOMAIN h.node = DOMAIN g.node \cup S /\ S \cap DOMAIN g.node = {}
    /\ \A m \in DOMAIN g.node : h.node[m] = g.node[m]
    /\ \A m \in S : Whole(m, h.node[m])

\* A graph whose nodes fit their names still is one with more of such nodes.
LEMMA WellGrows ==
    ASSUME NEW g, NEW h, NEW S, Well(g), GrowsBy(g, h, S), IsGraph(h), Acyclic(h)
    PROVE  Well(h)
  BY DEF Well, GrowsBy

\* What has been found of forward nodes stays when nodes of other epochs come.
Forwards(g) == {n \in DOMAIN g.node : EpochOf(n) = "fwd"}
NoneForward(S) == \A n \in S : EpochOf(n) # "fwd"

\* The forward nodes are the same.
SameForwards(g, h) ==
    Forwards(h) = Forwards(g) /\ \A n \in Forwards(g) : h.node[n] = g.node[n]

\* No forward node comes, so those that need a gradient are the same.
LEMMA NeedsGrow ==
    ASSUME NEW m, NEW g, NEW h, NEW S, GrowsBy(g, h, S), NoneForward(S),
           NEW rg, Needs(m, g, rg)
    PROVE  Needs(m, h, rg) /\ Forwards(h) = Forwards(g)
  BY DEF GrowsBy, Needs, Forwards, NoneForward

\* Backward and optimizer nodes leave the forward nodes as they are.
LEMMA ForwardsStay ==
    ASSUME NEW g, NEW h, NEW S, GrowsBy(g, h, S), NoneForward(S)
    PROVE  SameForwards(g, h)
  BY DEF GrowsBy, NoneForward, SameForwards, Forwards

\* A node that is read is still read when nodes come.
LEMMA ReadsGrow ==
    ASSUME NEW g, NEW h, NEW S, GrowsBy(g, h, S), NEW b, Read(g, b)
    PROVE  Read(h, b)
  BY DEF GrowsBy, Read

\* A change of the lists leaves the nodes as they are.
Relisted(g, h) ==
    /\ h.node = g.node /\ h.nodes = g.nodes
    /\ h.inputs \in Seq(DOMAIN g.node) /\ h.outputs \in Seq(DOMAIN g.node)
    /\ h = [nodes |-> h.nodes, node |-> h.node, inputs |-> h.inputs, outputs |-> h.outputs]

\* A graph with other lists of inputs and outputs is a graph, as acyclic as before.
LEMMA RelistedIs ==
    ASSUME NEW g, IsGraph(g), NEW h, Relisted(g, h)
    PROVE  IsGraph(h) /\ (Acyclic(g) => Acyclic(h))
  <1> DEFINE D == DOMAIN g.node
  <1>1. g \in [nodes : Seq(D), node : [D -> Records(D)], inputs : Seq(D), outputs : Seq(D)]
        /\ ToSet(g.nodes) = D /\ Distinct(g.nodes)
    BY DEF IsGraph
  <1>2. h \in [nodes : Seq(D), node : [D -> Records(D)], inputs : Seq(D), outputs : Seq(D)]
    BY <1>1 DEF Relisted
  <1>3. IsGraph(h)
    BY <1>1, <1>2 DEF IsGraph, Relisted
  <1>4. Acyclic(g) => Acyclic(h)
    BY DEF Acyclic, Ranks, Relisted
  <1> QED
    BY <1>3, <1>4

\* A gradient input is one more input of the graph.
LEMMA GradientInputIs ==
    ASSUME NEW m, IsTraced(m), NEW g, Well(g), Listed(m, g), NEW o \in OutputNodes(m),
           NEW grad, grad = <<"gradient", o>>, grad \notin DOMAIN g.node, NEW h,
           h = [AddNode(g, grad, Node("input", "gradient", "bwd", <<>>))
                   EXCEPT !.inputs = Append(@, grad)]
    PROVE  /\ Well(h) /\ Listed(m, h) /\ GrowsBy(g, h, {grad})
           /\ grad \notin Leaves /\ grad[1] = "gradient" /\ EpochOf(grad) = "bwd"
  <1> DEFINE D == DOMAIN g.node
             rec == Node("input", "gradient", "bwd", <<>>)
             k == AddNode(g, grad, rec)
  <1>1. IsGraph(g) /\ Acyclic(g) /\ \A n \in D : Whole(n, g.node[n])
    BY DEF Well
  <1>2. rec \in Records(D) /\ rec.type = "input" /\ rec.role = "gradient" /\ rec.epoch = "bwd"
        /\ rec.ins = <<>>
    <2>1. <<>> \in Seq(D)
      OBVIOUS
    <2>2. "input" \in Types /\ "gradient" \in Roles /\ "bwd" \in Epochs
      BY DEF Types, Roles, Epochs
    <2>3. rec \in Records(D)
      BY <2>1, <2>2, NodeIs
    <2> QED
      BY <2>3 DEF Node
  <1>3. grad \notin Leaves /\ grad[1] = "gradient" /\ TypeOf(grad) = "input"
        /\ EpochOf(grad) = "bwd" /\ RolesOf(grad) = {"gradient"}
    <2>1. <<"gradient", o>> \notin Leaves /\ TypeOf(<<"gradient", o>>) = "input"
          /\ EpochOf(<<"gradient", o>>) = "bwd" /\ RolesOf(<<"gradient", o>>) = {"gradient"}
      BY NotLeaves, NamesAre
    <2> QED
      BY <2>1
  <1>4. Whole(grad, rec)
    <2>1. ToSet(<<>>) = {} /\ Len(<<>>) = 0
      BY DEF ToSet
    <2> HIDE DEF rec
    <2> QED
      BY <2>1, <1>2, <1>3 DEF Whole, Fits, AllKinds, GradKinds, Ports
  <1> HIDE DEF rec
  <1>5. /\ IsGraph(k) /\ Acyclic(k) /\ DOMAIN k.node = D \cup {grad}
        /\ \A n \in D : k.node[n] = g.node[n]
        /\ k.node[grad] = rec /\ k.inputs = g.inputs /\ k.outputs = g.outputs
    BY <1>1, <1>2, AddedIs
  <1> HIDE DEF k
  <1>6. g.inputs \in Seq(D) /\ g.outputs \in Seq(D)
    BY <1>1 DEF IsGraph
  <1>7. Append(g.inputs, grad) \in Seq(D \cup {grad}) /\ k.outputs \in Seq(D \cup {grad})
    <2>1. g.inputs \in Seq(D \cup {grad}) /\ g.outputs \in Seq(D \cup {grad})
      BY <1>6, Entries, Retyped
    <2>2. Append(g.inputs, grad) \in Seq(D \cup {grad})
      BY <2>1, AppendProperties
    <2> QED
      BY <2>1, <2>2, <1>5
  <1>8. /\ h.node = k.node /\ h.nodes = k.nodes
        /\ h.inputs = Append(g.inputs, grad) /\ h.outputs = g.outputs
        /\ h = [nodes |-> h.nodes, node |-> h.node, inputs |-> h.inputs, outputs |-> h.outputs]
    <2>1. h = [k EXCEPT !.inputs = Append(k.inputs, grad)]
      BY DEF k, rec
    <2>2. k = [nodes |-> k.nodes, node |-> k.node, inputs |-> k.inputs, outputs |-> k.outputs]
      BY <1>5 DEF IsGraph
    <2> QED
      BY <2>1, <2>2, <1>5
  <1>9. /\ IsGraph(h) /\ Acyclic(h)
    <2>1. Relisted(k, h)
      BY <1>5, <1>7, <1>8 DEF Relisted
    <2> QED
      BY <2>1, <1>5, RelistedIs
  <1>10. GrowsBy(g, h, {grad})
    BY <1>4, <1>5, <1>8 DEF GrowsBy
  <1>11. Well(h)
    BY <1>9, <1>10, WellGrows
  <1>12. Listed(m, h)
    <2>1. /\ Distinct(g.inputs) /\ g.outputs = ModuleOutputs(m)
          /\ \A n \in ToSet(g.inputs) : n \in ToSet(Activations) \/ OneOf(n, {"gradient"})
          /\ \A n \in D :
                /\ n \in ToSet(Activations) \/ OneOf(n, {"gradient"}) => n \in ToSet(g.inputs)
                /\ OneOf(n, {"output"}) => n \in OutputNodes(m)
                /\ OneOf(n, {"gradient"}) => \E q \in OutputNodes(m) : n = <<"gradient", q>>
      BY DEF Listed
    <2>2. grad \notin ToSet(g.inputs)
      BY <1>6, Entries
    <2>3. Distinct(h.inputs) /\ ToSet(h.inputs) = ToSet(g.inputs) \cup {grad}
      <3>1. ToSet(Append(g.inputs, grad)) = ToSet(g.inputs) \cup {grad}
        BY <1>6, AppendMembers
      <3>2. Distinct(Append(g.inputs, grad))
        BY <2>1, <2>2, <1>6, AppendMembers
      <3> QED
        BY <3>1, <3>2, <1>8
    <2>4. OneOf(grad, {"gradient"}) /\ ~OneOf(grad, {"output"})
      BY <1>3 DEF OneOf
    <2>5. DOMAIN h.node = D \cup {grad}
      BY <1>5, <1>8
    <2> QED
      BY <2>1, <2>3, <2>4, <2>5, <1>8 DEF Listed
  <1> QED
    BY <1>3, <1>10, <1>11, <1>12

\* One output after another gets its gradient input.
LEMMA CreateKeepsSeeding ==
    ASSUME IsTraced(model), Well(graph), Listed(model, graph),
           IsSeeding(model, graph, todo, requires_grad, gradients), CreateGradientInput
    PROVE  /\ Well(graph') /\ Listed(model, graph')
           /\ IsSeeding(model, graph', todo', requires_grad, gradients')
           /\ SameForwards(graph, graph')
  <1> DEFINE D == DOMAIN graph.node
             o == Head(todo)
             p == graph.node[o].ins[1]
             grad == <<"gradient", o>>
  <1>1. /\ todo # <<>> /\ todo' = Tail(todo)
        /\ \/ p \notin requires_grad /\ UNCHANGED <<graph, gradients>>
           \/ /\ p \in requires_grad
              /\ graph' = [AddNode(graph, grad, Node("input", "gradient", "bwd", <<>>))
                              EXCEPT !.inputs = Append(@, grad)]
              /\ gradients' = [gradients EXCEPT ![p] = Append(@, grad)]
    BY DEF CreateGradientInput
  <1>2. /\ OnlyKinds(graph, FwdKinds \cup {"gradient"})
        /\ Needs(model, graph, requires_grad) /\ Gathered(graph, requires_grad, gradients)
        /\ \A n \in DOMAIN gradients : \A b \in ToSet(gradients[n]) : OneOf(b, {"gradient"})
        /\ todo \in Seq(OutputNodes(model)) /\ Distinct(todo)
        /\ \A q \in ToSet(todo) : <<"gradient", q>> \notin D
        /\ Awaited(graph, gradients, DOMAIN gradients) /\ Seeded(model, graph, ToSet(todo))
        /\ \A i \in DOMAIN model.outs : Differentiable(model)[model.outs[i]] =>
              graph.node[Output(model.outs[i])].ins[1] \in requires_grad
    BY DEF IsSeeding
  <1>3. /\ o \in ToSet(todo) /\ o \in OutputNodes(model) /\ todo' \in Seq(OutputNodes(model))
        /\ ToSet(todo) = {o} \cup ToSet(todo') /\ Distinct(todo') /\ o \notin ToSet(todo')
    BY <1>1, <1>2, Rest
  <1>4. grad \notin D
    BY <1>2, <1>3
  <1>5. OutputNodes(model) \subseteq D
    <2>1. ModuleOutputs(model) \in Seq(D)
      BY DEF Listed, Well, IsGraph
    <2> QED
      BY <2>1, Entries DEF OutputNodes
  <1>6. CASE p \notin requires_grad /\ UNCHANGED <<graph, gradients>>
    <2>1. graph' = graph /\ gradients' = gradients
      BY <1>6
    <2>2. Seeded(model, graph, ToSet(todo'))
      BY <1>2, <1>3, <1>6 DEF Seeded
    <2>3. IsSeeding(model, graph, todo', requires_grad, gradients)
      BY <1>2, <1>3, <2>2 DEF IsSeeding
    <2> QED
      BY <2>1, <2>3 DEF SameForwards
  <1>7. CASE /\ p \in requires_grad
             /\ graph' = [AddNode(graph, grad, Node("input", "gradient", "bwd", <<>>))
                             EXCEPT !.inputs = Append(@, grad)]
             /\ gradients' = [gradients EXCEPT ![p] = Append(@, grad)]
    <2>1. /\ Well(graph') /\ Listed(model, graph') /\ GrowsBy(graph, graph', {grad})
          /\ grad \notin Leaves /\ grad[1] = "gradient" /\ EpochOf(grad) = "bwd"
      <3> HIDE DEF grad, o
      <3>1. grad = <<"gradient", o>>
        BY DEF grad
      <3> QED
        BY <3>1, <1>3, <1>4, <1>7, GradientInputIs
    <2> DEFINE F == {n \in D : EpochOf(n) = "fwd"}
    <2>2. gradients \in [F -> Seq(D)] /\ \A n \in F : gradients[n] # <<>> => n \in requires_grad /\ TypeOf(n) # "output"
      BY <1>2 DEF Gathered
    <2>3. p \in D /\ p \in F
      BY <1>2, <1>7 DEF Needs
    <2>4. TypeOf(p) # "output"
      <3>1. o \in D
        BY <1>3, <1>5
      <3>2. Whole(o, graph.node[o]) /\ graph.node[o].ins \in Seq(D)
        BY <3>1 DEF Well, IsGraph, Records
      <3>3. TypeOf(o) = "output"
        <4>1. OutputNodes(model) = {Output(t) : t \in ToSet(model.outs)}
          BY OutputsAre
        <4>2. \A t : TypeOf(<<"output", t>>) = "output"
          BY NamesAre
        <4> QED
          BY <4>1, <4>2, <1>3 DEF Output
      <3>4. Len(graph.node[o].ins) = 1
        BY <3>2, <3>3 DEF Whole, Fits, Ports
      <3>5. p \in ToSet(graph.node[o].ins)
        BY <3>2, <3>4 DEF ToSet
      <3>6. MayRead(o, graph.node[o].role, p)
        BY <3>2, <3>5 DEF Whole, Fits
      <3> QED
        BY <3>6 DEF MayRead
    <2>5. DOMAIN graph'.node = D \cup {grad} /\ \A n \in D : graph'.node[n] = graph.node[n]
      BY <2>1 DEF GrowsBy
    <2>6. NoneForward({grad})
      BY <2>1 DEF NoneForward
    <2>17. SameForwards(graph, graph')
      BY <2>1, <2>6, ForwardsStay
    <2>7. /\ Needs(model, graph', requires_grad)
          /\ {n \in DOMAIN graph'.node : EpochOf(n) = "fwd"} = F
      <3> HIDE DEF grad
      <3>1. GrowsBy(graph, graph', {grad})
        BY <2>1
      <3>2. Needs(model, graph', requires_grad) /\ Forwards(graph') = Forwards(graph)
        BY <1>2, <2>6, <3>1, NeedsGrow
      <3> QED
        BY <3>2 DEF Forwards
    <2> HIDE DEF grad, p, F
    <2>8. /\ gradients' \in [F -> Seq(D \cup {grad})]
          /\ gradients'[p] = Append(gradients[p], grad)
          /\ \A n \in F : n # p => gradients'[n] = gradients[n]
          /\ \A n \in F : gradients[n] \in Seq(D)
      <3>1. \A n \in F : gradients[n] \in Seq(D) /\ gradients[n] \in Seq(D \cup {grad})
        BY <2>2, Entries, Retyped
      <3>2. Append(gradients[p], grad) \in Seq(D \cup {grad})
        BY <3>1, <2>3, AppendProperties
      <3>3. gradients \in [F -> Seq(D \cup {grad})]
        BY <3>1, <2>2
      <3> QED
        BY <3>1, <3>2, <3>3, <1>7, <2>3
    <2>9. ToSet(gradients'[p]) = ToSet(gradients[p]) \cup {grad}
      BY <2>3, <2>8, AppendMembers
    <2>10. Gathered(graph', requires_grad, gradients')
      BY <2>2, <2>3, <2>4, <2>5, <2>7, <2>8, <1>7 DEF Gathered
    <2>11. \A n \in DOMAIN gradients' : \A b \in ToSet(gradients'[n]) : OneOf(b, {"gradient"})
      <3>1. OneOf(grad, {"gradient"})
        BY <2>1 DEF OneOf
      <3> QED
        BY <3>1, <2>2, <2>8, <2>9, <1>2
    <2>12. \A q \in ToSet(todo') : <<"gradient", q>> \notin DOMAIN graph'.node
      <3>1. \A q \in ToSet(todo') : <<"gradient", q>> # grad
        BY <1>3 DEF grad
      <3> QED
        BY <3>1, <2>5, <1>2, <1>3
    <2>13. Awaited(graph', gradients', DOMAIN gradients')
      <3> SUFFICES ASSUME NEW b \in DOMAIN graph'.node, OneOf(b, GradKinds)
                   PROVE  Read(graph', b) \/ \E n \in DOMAIN gradients' : b \in ToSet(gradients'[n])
        BY DEF Awaited
      <3>1. CASE b = grad
        BY <3>1, <2>3, <2>8, <2>9
      <3>2. CASE b \in D
        <4>1. CASE Read(graph, b)
          BY <4>1, <2>1, ReadsGrow
        <4>2. CASE \E n \in DOMAIN gradients : b \in ToSet(gradients[n])
          BY <4>2, <2>2, <2>8, <2>9
        <4> QED
          BY <3>2, <4>1, <4>2, <1>2 DEF Awaited
      <3> QED
        BY <3>1, <3>2, <2>5
    <2>14. Seeded(model, graph', ToSet(todo'))
      BY <2>5, <1>2, <1>3 DEF Seeded, grad
    <2>15. \A i \in DOMAIN model.outs : Differentiable(model)[model.outs[i]] =>
              graph'.node[Output(model.outs[i])].ins[1] \in requires_grad
      <3>1. \A i \in DOMAIN model.outs : Output(model.outs[i]) \in D
        BY <1>5, OutputsAre DEF ToSet
      <3> QED
        BY <3>1, <2>5, <1>2
    <2>16. OnlyKinds(graph', FwdKinds \cup {"gradient"})
      BY <2>1, <2>5, <1>2 DEF OnlyKinds
    <2> QED
      BY <2>1, <2>7, <2>10, <2>11, <2>12, <2>13, <2>14, <2>15, <2>16, <2>17, <1>3 DEF IsSeeding
  <1> QED
    BY <1>1, <1>6, <1>7

\* Users before operands, among the nodes of a sequence.
UsersFirst(g, td) ==
    \A i \in DOMAIN td : \A x \in ToSet(g.node[td[i]].ins) :
        \E j \in DOMAIN td : i < j /\ td[j] = x

\* The order of differentiation has every forward node once, behind its users.
LEMMA BackwardOrderIs ==
    ASSUME NEW g, Well(g)
    PROVE  LET td == BackwardOrder(g)
           IN  /\ td \in Seq(Forwards(g)) /\ Distinct(td) /\ ToSet(td) = Forwards(g)
               /\ UsersFirst(g, td)
  <1> DEFINE D == DOMAIN g.node
             S == {n \in DOMAIN g.node : g.node[n].epoch = "fwd"}
             s == TopologicalSort(g)
             t == Only(s, S)
             td == Reverse(t)
  <1>1. IsGraph(g) /\ Acyclic(g) /\ \A n \in D : Whole(n, g.node[n])
    BY DEF Well
  <1>2. /\ s \in Seq(D) /\ Distinct(s) /\ ToSet(s) = D
        /\ \A j \in DOMAIN s : \A m \in ToSet(g.node[s[j]].ins) :
              \E i \in DOMAIN s : i < j /\ s[i] = m
    BY <1>1, TopologicalSortSorts DEF Sorted
  <1>3. S = Forwards(g)
    BY <1>1 DEF Whole, Fits, Forwards
  <1> HIDE DEF s, S
  <1>4. t \in Seq(D) /\ ToSet(t) = S /\ Distinct(t)
    <2>1. t \in Seq(D) /\ ToSet(t) = ToSet(s) \cap S /\ Distinct(t)
      BY <1>2, OnlyMembers, OnlyDistinct
    <2> QED
      BY <2>1, <1>2, <1>3 DEF Forwards
  <1>5. ASSUME NEW i \in DOMAIN t, NEW x \in ToSet(g.node[t[i]].ins)
        PROVE  \E j \in DOMAIN t : j < i /\ t[j] = x
    <2>1. t[i] \in S /\ t[i] \in D
      BY <1>4, Entries
    <2>2. PICK k \in DOMAIN s : s[k] = t[i]
      BY <2>1, <1>2 DEF ToSet
    <2>3. PICK l \in DOMAIN s : l < k /\ s[l] = x
      BY <2>2, <1>2, <1>5
    <2>4. x \in S
      <3>1. Whole(t[i], g.node[t[i]]) /\ EpochOf(t[i]) = "fwd"
        BY <2>1, <1>1, <1>3 DEF Forwards
      <3>2. EpochOf(x) = "fwd"
        BY <3>1, <1>5 DEF Whole, Fits, MayRead
      <3>3. x \in D
        BY <2>3, <1>2, Entries
      <3> QED
        BY <3>2, <3>3, <1>3 DEF Forwards
    <2>5. s[l] \in S /\ s[k] \in S
      BY <2>1, <2>2, <2>3, <2>4
    <2>6. PICK a, b \in DOMAIN t : a < b /\ t[a] = s[l] /\ t[b] = s[k]
      BY <1>2, <2>2, <2>3, <2>5, OnlyOrder
    <2>7. b = i
      BY <2>2, <2>6, <1>4 DEF Distinct
    <2> QED
      BY <2>3, <2>6, <2>7
  <1> HIDE DEF t
  <1>6. /\ td \in Seq(D) /\ ToSet(td) = S /\ DOMAIN td = DOMAIN t /\ Distinct(td)
        /\ \A i \in DOMAIN t : Len(t) - i + 1 \in DOMAIN t /\ td[i] = t[Len(t) - i + 1]
    BY <1>4, Reversed
  <1>7. UsersFirst(g, td)
    <2> SUFFICES ASSUME NEW i \in DOMAIN td, NEW x \in ToSet(g.node[td[i]].ins)
                 PROVE  \E j \in DOMAIN td : i < j /\ td[j] = x
      BY DEF UsersFirst
    <2> DEFINE k == Len(t) - i + 1
    <2>1. k \in DOMAIN t /\ td[i] = t[k] /\ i \in DOMAIN t
      BY <1>6
    <2>2. PICK l \in DOMAIN t : l < k /\ t[l] = x
      BY <2>1, <1>5
    <2>3. Len(t) - l + 1 \in DOMAIN t /\ td[Len(t) - l + 1] = t[Len(t) - (Len(t) - l + 1) + 1]
      BY <1>6, <2>2
    <2>4. DOMAIN t = 1..Len(t) /\ Len(t) \in Nat
      BY <1>4
    <2>5. Len(t) - (Len(t) - l + 1) + 1 = l /\ i < Len(t) - l + 1
      BY <2>1, <2>2, <2>4
    <2> QED
      BY <2>2, <2>3, <2>5, <1>6
  <1>8. td \in Seq(Forwards(g))
    BY <1>3, <1>6, Entries, Retyped
  <1>9. BackwardOrder(g) = td
    BY DEF BackwardOrder, OfEpoch, td, t, s, S
  <1> QED
    BY <1>3, <1>6, <1>7, <1>8, <1>9

\* Once every output has its gradient input, differentiation starts.
LEMMA StartGivesDifferentiating ==
    ASSUME IsTraced(model), Well(graph),
           IsSeeding(model, graph, todo, requires_grad, gradients), StartDifferentiation
    PROVE  IsDifferentiating(model, graph, todo', requires_grad, gradients)
  <1> DEFINE td == BackwardOrder(graph)
             D == DOMAIN graph.node
  <1>1. todo = <<>> /\ todo' = td
    BY DEF StartDifferentiation
  <1>2. /\ OnlyKinds(graph, FwdKinds \cup {"gradient"})
        /\ Needs(model, graph, requires_grad) /\ Gathered(graph, requires_grad, gradients)
        /\ \A n \in DOMAIN gradients : \A b \in ToSet(gradients[n]) : OneOf(b, {"gradient"})
        /\ Awaited(graph, gradients, DOMAIN gradients) /\ Seeded(model, graph, ToSet(todo))
    BY DEF IsSeeding
  <1>3. /\ td \in Seq(Forwards(graph)) /\ Distinct(td) /\ ToSet(td) = Forwards(graph)
        /\ UsersFirst(graph, td)
    BY BackwardOrderIs
  <1> HIDE DEF td
  <1>4. DOMAIN gradients = Forwards(graph)
    BY <1>2 DEF Gathered, Forwards
  <1>5. \A n \in D : ~OneOf(n, {"bw", "combine"} \cup SinkKinds)
    <2> SUFFICES ASSUME NEW n \in D, n \notin Leaves,
                        n[1] \in {"bw", "combine"} \cup SinkKinds
                 PROVE  FALSE
      BY DEF OneOf
    <2>1. n[1] \in FwdKinds \cup {"gradient"}
      BY <1>2 DEF OnlyKinds
    <2> QED
      BY <2>1 DEF FwdKinds, SinkKinds
  <1>6. OnlyKinds(graph, FwdKinds \cup GradKinds \cup SinkKinds)
    BY <1>2 DEF OnlyKinds, GradKinds
  <1>7. \A n \in ToSet(td) : \A b \in ToSet(gradients[n]) : OneOf(b, GradKinds)
    BY <1>2, <1>3, <1>4 DEF OneOf, GradKinds
  <1>8. Sunk(model, gradients, DOMAIN gradients \ ToSet(td))
    BY <1>3, <1>4 DEF Sunk
  <1>9. Awaited(graph, gradients, ToSet(td)) /\ Seeded(model, graph, {})
    <2>1. ToSet(<<>>) = {}
      BY DEF ToSet
    <2> QED
      BY <2>1, <1>1, <1>2, <1>3, <1>4
  <1>10. IsDifferentiating(model, graph, td, requires_grad, gradients)
    BY <1>2, <1>3, <1>4, <1>5, <1>6, <1>7, <1>8, <1>9 DEF IsDifferentiating, UsersFirst
  <1> QED
    BY <1>1, <1>10

\* One node's worth of differentiation: what it adds is named for the node, and
\* every gradient the node had is read or handed on.
Visited(m, g, td, rg, gr, h, gr2, S) ==
    /\ GrowsBy(g, h, S)
    /\ \A s \in S : OneOf(s, {"bw", "combine"} \cup SinkKinds) /\ s[2] = Head(td)
    /\ Gathered(h, rg, gr2)
    /\ \A n \in DOMAIN gr \ ToSet(td) : gr2[n] = gr[n]
    /\ Head(td) \in m.trained => gr2[Head(td)] = <<>> \/ gr2[Head(td)] = <<Sink(Head(td))>>
    /\ \A n \in ToSet(Tail(td)) :
          ToSet(gr[n]) \subseteq ToSet(gr2[n]) /\ \A b \in ToSet(gr2[n]) : OneOf(b, GradKinds)
    /\ \A b \in S \cup ToSet(gr[Head(td)]) : OneOf(b, GradKinds) =>
          Read(h, b) \/ \E n \in ToSet(Tail(td)) : b \in ToSet(gr2[n])

\* What is named for a node is no forward node.
LEMMA NamedFor ==
    ASSUME NEW s, OneOf(s, {"bw", "combine"} \cup SinkKinds)
    PROVE  /\ EpochOf(s) = "bwd" /\ s \notin Leaves
           /\ ~OneOf(s, {"gradient"}) /\ ~OneOf(s, {"output"})
  BY DEF OneOf, SinkKinds, EpochOf, FwdKinds, OptKinds

\* The users of what is left of a sequence still come first.
LEMMA UsersFirstTail ==
    ASSUME NEW T, NEW g, NEW td \in Seq(T), td # <<>>, Distinct(td), UsersFirst(g, td)
    PROVE  /\ UsersFirst(g, Tail(td))
           /\ \A x \in ToSet(g.node[Head(td)].ins) : x \in ToSet(Tail(td)) /\ x # Head(td)
  <1> DEFINE t == Tail(td)
  <1>1. /\ DOMAIN t = 1..(Len(td) - 1) /\ Len(td) \in Nat \ {0} /\ Head(td) = td[1]
        /\ \A i \in 1..(Len(td) - 1) : t[i] = td[i + 1]
        /\ DOMAIN td = 1..Len(td)
        /\ Head(td) \notin ToSet(t)
    BY Rest
  <1> HIDE DEF t
  <1>2. ASSUME NEW i \in DOMAIN td, NEW x \in ToSet(g.node[td[i]].ins)
        PROVE  \E j \in DOMAIN t : i < j + 1 /\ t[j] = x
    <2>1. PICK j \in DOMAIN td : i < j /\ td[j] = x
      BY <1>2 DEF UsersFirst
    <2>2. j - 1 \in 1..(Len(td) - 1) /\ (j - 1) + 1 = j
      BY <2>1, <1>1
    <2>3. t[j - 1] = td[(j - 1) + 1]
      BY <2>2, <1>1
    <2> QED
      BY <2>1, <2>2, <2>3, <1>1
  <1>3. UsersFirst(g, t)
    <2> SUFFICES ASSUME NEW i \in DOMAIN t, NEW x \in ToSet(g.node[t[i]].ins)
                 PROVE  \E j \in DOMAIN t : i < j /\ t[j] = x
      BY DEF UsersFirst
    <2>1. i + 1 \in DOMAIN td /\ t[i] = td[i + 1] /\ i \in Int
      BY <1>1
    <2>2. PICK j \in DOMAIN t : i + 1 < j + 1 /\ t[j] = x
      BY <2>1, <1>2
    <2>3. j \in Int
      BY <1>1
    <2> QED
      BY <2>1, <2>2, <2>3
  <1>4. ASSUME NEW x \in ToSet(g.node[Head(td)].ins) PROVE x \in ToSet(t) /\ x # Head(td)
    <2>1. 1 \in DOMAIN td
      BY <1>1
    <2>2. PICK j \in DOMAIN t : t[j] = x
      BY <2>1, <1>1, <1>2, <1>4
    <2> QED
      BY <2>2, <1>1 DEF ToSet
  <1> QED
    BY <1>3, <1>4 DEF t

\* A visit leaves the graph being differentiated.
LEMMA VisitedKeeps ==
    ASSUME NEW m, NEW g, NEW td, NEW rg, NEW gr, IsDifferentiating(m, g, td, rg, gr), Well(g),
           td # <<>>, NEW h, NEW gr2, NEW S, Visited(m, g, td, rg, gr, h, gr2, S)
    PROVE  IsDifferentiating(m, h, Tail(td), rg, gr2)
  <1> DEFINE n == Head(td)
             t == Tail(td)
             D == DOMAIN g.node
  <1>1. /\ OnlyKinds(g, FwdKinds \cup GradKinds \cup SinkKinds)
        /\ Needs(m, g, rg) /\ Gathered(g, rg, gr)
        /\ td \in Seq(DOMAIN gr) /\ Distinct(td) /\ UsersFirst(g, td)
        /\ \A x \in D : OneOf(x, {"bw", "combine"} \cup SinkKinds) => x[2] \notin ToSet(td)
        /\ Sunk(m, gr, DOMAIN gr \ ToSet(td))
        /\ Awaited(g, gr, ToSet(td)) /\ Seeded(m, g, {})
    BY DEF IsDifferentiating, UsersFirst
  <1>2. /\ GrowsBy(g, h, S)
        /\ \A s \in S : OneOf(s, {"bw", "combine"} \cup SinkKinds) /\ s[2] = n
        /\ Gathered(h, rg, gr2)
        /\ \A x \in DOMAIN gr \ ToSet(td) : gr2[x] = gr[x]
        /\ n \in m.trained => gr2[n] = <<>> \/ gr2[n] = <<Sink(n)>>
        /\ \A x \in ToSet(t) :
              ToSet(gr[x]) \subseteq ToSet(gr2[x]) /\ \A b \in ToSet(gr2[x]) : OneOf(b, GradKinds)
        /\ \A b \in S \cup ToSet(gr[n]) : OneOf(b, GradKinds) =>
              Read(h, b) \/ \E x \in ToSet(t) : b \in ToSet(gr2[x])
    BY DEF Visited
  <1>3. /\ ToSet(td) = {n} \cup ToSet(t) /\ n \notin ToSet(t) /\ t \in Seq(DOMAIN gr)
        /\ Distinct(t) /\ ToSet(t) \subseteq DOMAIN gr /\ n \in DOMAIN gr
    BY <1>1, Rest, Entries
  <1>4. UsersFirst(g, t)
    BY <1>1, UsersFirstTail
  <1> HIDE DEF n, t
  <1>5. \A s \in S : EpochOf(s) = "bwd" /\ s \notin Leaves
    BY <1>2, NamedFor
  <1>6. Needs(m, h, rg) /\ Forwards(h) = Forwards(g)
    <2>1. NoneForward(S)
      BY <1>5 DEF NoneForward
    <2> QED
      BY <2>1, <1>1, <1>2, NeedsGrow
  <1>7. DOMAIN gr2 = Forwards(h) /\ DOMAIN gr = Forwards(h)
    BY <1>1, <1>2, <1>6 DEF Gathered, Forwards
  <1>8. /\ DOMAIN h.node = D \cup S /\ \A x \in D : h.node[x] = g.node[x]
    BY <1>2 DEF GrowsBy
  <1>9. OnlyKinds(h, FwdKinds \cup GradKinds \cup SinkKinds)
    BY <1>1, <1>2, <1>8 DEF OnlyKinds, OneOf, GradKinds, SinkKinds
  <1>10. UsersFirst(h, t)
    <2>1. \A i \in DOMAIN t : t[i] \in D
      BY <1>3, <1>6, <1>7, Entries DEF Forwards
    <2> QED
      BY <2>1, <1>4, <1>8 DEF UsersFirst
  <1>11. \A x \in DOMAIN h.node :
            OneOf(x, {"bw", "combine"} \cup SinkKinds) => x[2] \notin ToSet(t)
    BY <1>1, <1>2, <1>3, <1>8
  <1>12. Sunk(m, gr2, DOMAIN gr2 \ ToSet(t))
    <2> SUFFICES ASSUME NEW x \in m.trained \cap (DOMAIN gr2 \ ToSet(t))
                 PROVE  gr2[x] = <<>> \/ gr2[x] = <<Sink(x)>>
      BY DEF Sunk
    <2>1. CASE x = n
      BY <2>1, <1>2
    <2>2. CASE x # n
      <3>1. x \in DOMAIN gr \ ToSet(td)
        BY <2>2, <1>3, <1>7
      <3> QED
        BY <3>1, <1>1, <1>2 DEF Sunk
    <2> QED
      BY <2>1, <2>2
  <1>13. Awaited(h, gr2, ToSet(t))
    <2> SUFFICES ASSUME NEW b \in DOMAIN h.node, OneOf(b, GradKinds)
                 PROVE  Read(h, b) \/ \E x \in ToSet(t) : b \in ToSet(gr2[x])
      BY DEF Awaited
    <2>1. CASE b \in S \cup ToSet(gr[n])
      BY <2>1, <1>2
    <2>2. CASE b \in D /\ b \notin ToSet(gr[n])
      <3>1. Read(g, b) \/ \E x \in ToSet(td) : b \in ToSet(gr[x])
        BY <2>2, <1>1 DEF Awaited
      <3>2. CASE Read(g, b)
        BY <3>2, <1>2, ReadsGrow
      <3>3. CASE \E x \in ToSet(td) : b \in ToSet(gr[x])
        BY <3>3, <2>2, <1>2, <1>3
      <3> QED
        BY <3>1, <3>2, <3>3
    <2> QED
      BY <2>1, <2>2, <1>8
  <1>14. Seeded(m, h, {})
    BY <1>1, <1>8 DEF Seeded
  <1> QED
    <2>1. t \in Seq(DOMAIN gr2)
      BY <1>3, <1>7
    <2>2. \A x \in ToSet(t) : \A b \in ToSet(gr2[x]) : OneOf(b, GradKinds)
      BY <1>2
    <2>3. IsDifferentiating(m, h, t, rg, gr2)
      BY <2>1, <2>2, <1>2, <1>3, <1>6, <1>9, <1>10, <1>11, <1>12, <1>13, <1>14
         DEF IsDifferentiating, UsersFirst
    <2> QED
      BY <2>3 DEF t

\* Gradients are inputs or ops of the backward pass.
LEMMA GradientsAre ==
    ASSUME NEW a, OneOf(a, GradKinds)
    PROVE  TypeOf(a) \in {"input", "op"} /\ EpochOf(a) = "bwd"
  BY DEF OneOf, GradKinds, TypeOf, EpochOf, FwdKinds, OptKinds

\* The lists stay what they are when nodes come that are not listed.
LEMMA ListedGrows ==
    ASSUME NEW m, NEW g, Listed(m, g), NEW h, NEW S, GrowsBy(g, h, S),
           h.inputs = g.inputs, h.outputs = g.outputs,
           \A s \in S : s \notin Leaves /\ ~OneOf(s, {"gradient"}) /\ ~OneOf(s, {"output"})
    PROVE  Listed(m, h)
  BY DEF Listed, GrowsBy, Leaves

\* Pairs.
LEMMA TwoAre ==
    ASSUME NEW S, NEW x \in S, NEW y \in S
    PROVE  <<x, y>> \in Seq(S) /\ ToSet(<<x, y>>) = {x, y} /\ Len(<<x, y>>) = 2
           /\ <<x, y>>[1] = x /\ <<x, y>>[2] = y
  <1>1. <<x, y>> \in Seq(S) /\ Len(<<x, y>>) = 2 /\ DOMAIN <<x, y>> = 1..2
    OBVIOUS
  <1>2. ToSet(<<x, y>>) = {<<x, y>>[i] : i \in 1..2}
    BY <1>1 DEF ToSet
  <1>3. 1..2 = {1, 2}
    OBVIOUS
  <1> QED
    BY <1>1, <1>2, <1>3

\* What a pair lists.
LEMMA PairLists ==
    ASSUME NEW x, NEW y
    PROVE  ToSet(<<x, y>>) = {x, y}
  BY TwoAre, x \in {x, y}, y \in {x, y}

\* Backward ops and sums are ops of the backward pass.
LEMMA BackwardOpsAre ==
    ASSUME NEW c, OneOf(c, {"bw", "combine", "recompute"})
    PROVE  TypeOf(c) = "op" /\ EpochOf(c) = "bwd" /\ RolesOf(c) = DOMAIN OpArity
  BY DEF OneOf, TypeOf, EpochOf, RolesOf, FwdKinds, OptKinds, Leaves

\* An Add of two gradients.
LEMMA AddIsWhole ==
    ASSUME NEW n, NEW i, NEW D, NEW a \in D, NEW b \in D, OneOf(a, GradKinds), OneOf(b, GradKinds)
    PROVE  LET rec == Node("op", "Add", "bwd", <<a, b>>)
           IN  rec \in Records(D) /\ Whole(<<"combine", n, i>>, rec) /\ rec.ins = <<a, b>>
  <1> DEFINE rec == Node("op", "Add", "bwd", <<a, b>>)
             c == <<"combine", n, i>>
  <1>1. <<a, b>> \in Seq(D) /\ ToSet(<<a, b>>) = {a, b} /\ Len(<<a, b>>) = 2
    BY TwoAre
  <1>2. /\ rec \in Records(D) /\ rec.type = "op" /\ rec.role = "Add" /\ rec.epoch = "bwd"
        /\ rec.ins = <<a, b>>
    <2>1. "op" \in Types /\ "Add" \in Roles /\ "bwd" \in Epochs
      BY DEF Types, Roles, Epochs
    <2>2. rec \in Records(D)
      BY <1>1, <2>1, NodeIs
    <2> QED
      BY <2>2 DEF Node
  <1>3. /\ TypeOf(c) = "op" /\ EpochOf(c) = "bwd" /\ RolesOf(c) = DOMAIN OpArity
        /\ c \notin Leaves /\ c[1] = "combine"
    <2>1. c \notin Leaves /\ c[1] = "combine"
      BY NotLeaves
    <2> HIDE DEF c, rec
    <2>2. OneOf(c, {"bw", "combine", "recompute"})
      BY <2>1 DEF OneOf
    <2> QED
      BY <2>1, <2>2, BackwardOpsAre
  <1>4. ~OneOf(c, SinkKinds) /\ ~OneOf(c, {"bw"}) /\ ~OneOf(c, {"recompute"})
    BY <1>3 DEF OneOf, SinkKinds
  <1> HIDE DEF rec, c
  <1>5. \A x \in {a, b} : MayRead(c, "Add", x)
    BY <1>3, <1>4, GradientsAre DEF MayRead
  <1>6. "Add" \in DOMAIN OpArity /\ OpArity["Add"] = 2
    BY DEF OpArity
  <1>7. Fits(c, rec)
    <2>1. c[1] \in AllKinds
      BY <1>3 DEF AllKinds, GradKinds
    <2> QED
      BY <2>1, <1>1, <1>2, <1>3, <1>5, <1>6 DEF Fits
  <1>8. Whole(c, rec)
    BY <1>1, <1>2, <1>6, <1>7 DEF Whole, Ports
  <1> QED
    BY <1>2, <1>8 DEF rec, c

\* The gradients of a node are added up, one Add for each after the first.
LEMMA CombinedIs ==
    ASSUME Well(graph), IsDifferentiating(model, graph, todo, requires_grad, gradients),
           NEW n \in ToSet(todo), gradients[n] # <<>>
    PROVE  LET h == Combined(n)
               S == {<<"combine", n, i>> : i \in 2..Len(gradients[n])}
               c == Sum(n, Len(gradients[n]))
           IN  /\ IsGraph(h) /\ Acyclic(h) /\ GrowsBy(graph, h, S)
               /\ h.inputs = graph.inputs /\ h.outputs = graph.outputs
               /\ c \in DOMAIN h.node /\ OneOf(c, GradKinds)
               /\ \A b \in S \cup ToSet(gradients[n]) : b = c \/ Read(h, b)
  <1> DEFINE D == DOMAIN graph.node
             gs == gradients[n]
             L == Len(gs)
             S == {<<"combine", n, i>> : i \in 2..L}
             sums == [i \in 1..(L - 1) |-> Sum(n, i + 1)]
             rec == [s \in ToSet(sums) |->
                        Node("op", "Add", "bwd", <<Sum(n, s[3] - 1), gs[s[3]]>>)]
             h == Combined(n)
             c == Sum(n, L)
  <1>1. IsGraph(graph) /\ Acyclic(graph)
    BY DEF Well
  <1>2. /\ gs \in Seq(D) /\ \A b \in ToSet(gs) : OneOf(b, GradKinds)
        /\ \A i \in 2..L : <<"combine", n, i>> \notin D
    <2>1. /\ Gathered(graph, requires_grad, gradients) /\ todo \in Seq(DOMAIN gradients)
          /\ \A x \in ToSet(todo) : \A b \in ToSet(gradients[x]) : OneOf(b, GradKinds)
          /\ \A x \in D : OneOf(x, {"bw", "combine"} \cup SinkKinds) => x[2] \notin ToSet(todo)
      BY DEF IsDifferentiating
    <2>2. n \in DOMAIN gradients
      BY <2>1, Entries
    <2>3. gs \in Seq(D)
      BY <2>1, <2>2 DEF Gathered
    <2>4. \A i \in 2..L : OneOf(<<"combine", n, i>>, {"bw", "combine"} \cup SinkKinds)
                          /\ <<"combine", n, i>>[2] = n
      BY NotLeaves DEF OneOf
    <2> HIDE DEF gs, L
    <2>5. \A i \in 2..L : <<"combine", n, i>> \notin D
      BY <2>1, <2>4
    <2> QED
      BY <2>1, <2>3, <2>5 DEF gs
  <1>3. L \in Nat \ {0} /\ DOMAIN gs = 1..L /\ \A i \in 1..L : gs[i] \in D /\ gs[i] \in ToSet(gs)
    BY <1>2, Entries
  <1>4. h = AddNodes(graph, sums, rec)
    BY DEF Combined
  <1>5. Sum(n, 1) = gs[1] /\ \A i \in 2..L : Sum(n, i) = <<"combine", n, i>> /\ <<"combine", n, i>>[3] = i
    <2>1. \A i \in 2..L : i # 1
      BY <1>3
    <2> QED
      BY <2>1 DEF Sum
  <1> HIDE DEF gs, L, h
  <1>6. /\ DOMAIN sums = 1..(L - 1) /\ \A i \in 1..(L - 1) : i + 1 \in 2..L /\ (i + 1) - 1 = i
                                           /\ sums[i] = <<"combine", n, i + 1>> /\ sums[i][3] = i + 1
    <2>1. \A i \in 1..(L - 1) : i + 1 \in 2..L /\ (i + 1) - 1 = i
      BY <1>3
    <2> QED
      BY <2>1, <1>5
  <1>7. sums \in Seq(S) /\ ToSet(sums) = S /\ Distinct(sums)
    <2>1. \A i \in 1..(L - 1) : sums[i] \in S
      BY <1>6
    <2>2. sums \in Seq(S)
      <3>1. L - 1 \in Nat
        BY <1>3
      <3>2. sums \in [1..(L - 1) -> S]
        BY <2>1, <1>6
      <3> HIDE DEF sums, S
      <3> QED
        BY <3>1, <3>2
    <2>3. \A i \in 2..L : i - 1 \in 1..(L - 1) /\ (i - 1) + 1 = i
      BY <1>3
    <2>4. \A i \in 2..L : sums[i - 1] = <<"combine", n, i>>
      BY <2>3, <1>6
    <2>5. S \subseteq ToSet(sums)
      BY <2>3, <2>4, <1>6 DEF ToSet
    <2>6. ToSet(sums) \subseteq S
      BY <2>1, <1>6 DEF ToSet
    <2>7. Distinct(sums)
      <3> SUFFICES ASSUME NEW i \in 1..(L - 1), NEW j \in 1..(L - 1), sums[i] = sums[j]
                   PROVE  i = j
        BY <1>6 DEF Distinct
      <3>1. i + 1 = j + 1 /\ i \in Int /\ j \in Int
        BY <1>3, <1>6
      <3> QED
        BY <3>1
    <2> QED
      BY <2>2, <2>5, <2>6, <2>7
  <1> HIDE DEF sums
  <1>8. ToSet(sums) \cap D = {}
    BY <1>2, <1>7 DEF L
  <1>9. \A i \in 1..L : Sum(n, i) \in D \cup S /\ OneOf(Sum(n, i), GradKinds)
    <2>1. Sum(n, 1) \in D /\ OneOf(Sum(n, 1), GradKinds)
      BY <1>2, <1>3, <1>5 DEF gs
    <2>2. \A i \in 2..L : Sum(n, i) \in S /\ OneOf(Sum(n, i), GradKinds)
      BY <1>5, NotLeaves DEF OneOf, GradKinds
    <2>3. \A i \in 1..L : i = 1 \/ i \in 2..L
      BY <1>3
    <2> QED
      BY <2>1, <2>2, <2>3
  <1>10. \A i \in 2..L : /\ rec[<<"combine", n, i>>] \in Records(D \cup S)
                         /\ Whole(<<"combine", n, i>>, rec[<<"combine", n, i>>])
                         /\ rec[<<"combine", n, i>>].ins = <<Sum(n, i - 1), gs[i]>>
    <2> SUFFICES ASSUME NEW i \in 2..L
                 PROVE  /\ rec[<<"combine", n, i>>] \in Records(D \cup S)
                        /\ Whole(<<"combine", n, i>>, rec[<<"combine", n, i>>])
                        /\ rec[<<"combine", n, i>>].ins = <<Sum(n, i - 1), gs[i]>>
      OBVIOUS
    <2> DEFINE a == Sum(n, i - 1)
               b == gs[i]
    <2>1. i - 1 \in 1..L /\ i \in 1..L
      BY <1>3
    <2>2. a \in D \cup S /\ OneOf(a, GradKinds) /\ b \in D \cup S /\ OneOf(b, GradKinds)
      BY <2>1, <1>2, <1>3, <1>9 DEF gs
    <2>3. rec[<<"combine", n, i>>] = Node("op", "Add", "bwd", <<a, b>>)
      BY <1>5, <1>7
    <2> HIDE DEF a, b, rec, S
    <2>4. LET r == Node("op", "Add", "bwd", <<a, b>>)
          IN  r \in Records(D \cup S) /\ Whole(<<"combine", n, i>>, r) /\ r.ins = <<a, b>>
      BY <2>2, AddIsWhole
    <2> QED
      BY <2>3, <2>4 DEF a, b
  <1> HIDE DEF rec
  <1>11. \A i \in DOMAIN sums : rec[sums[i]] \in Records(D \cup ToSet(sums))
    BY <1>6, <1>7, <1>10
  <1>12. /\ IsGraph(h) /\ IsExtension(graph, h, ToSet(sums), rec)
    <2> HIDE DEF S, D
    <2>1. ToSet(sums) \cap DOMAIN graph.node = {}
      BY <1>8 DEF D
    <2>2. \A i \in DOMAIN sums : rec[sums[i]] \in Records(DOMAIN graph.node \cup ToSet(sums))
      BY <1>11 DEF D
    <2> QED
      BY <1>1, <1>4, <1>7, <2>1, <2>2, AddNodesIs
  <1>13. Stacked(graph, sums, rec)
    <2> SUFFICES ASSUME NEW i \in DOMAIN sums, NEW x \in ToSet(rec[sums[i]].ins)
                 PROVE  x \in D \/ \E j \in DOMAIN sums : j < i /\ x = sums[j]
      BY DEF Stacked
    <2>1. i \in 1..(L - 1) /\ i + 1 \in 2..L /\ (i + 1) - 1 = i /\ sums[i] = <<"combine", n, i + 1>>
      BY <1>6
    <2>2. rec[sums[i]].ins = <<Sum(n, i), gs[i + 1]>>
      BY <2>1, <1>10
    <2>3. i \in 1..L /\ i + 1 \in 1..L
      BY <2>1, <1>3
    <2>4. ToSet(<<Sum(n, i), gs[i + 1]>>) = {Sum(n, i), gs[i + 1]}
      BY PairLists
    <2>5. CASE x = gs[i + 1]
      BY <2>5, <2>3, <1>3
    <2>6. CASE x = Sum(n, i) /\ i = 1
      BY <2>6, <1>3, <1>5, <2>3
    <2>7. CASE x = Sum(n, i) /\ i # 1
      <3>1. i \in 2..L /\ i - 1 \in 1..(L - 1) /\ (i - 1) + 1 = i /\ i - 1 < i
        BY <2>1, <2>7, <1>3
      <3>2. sums[i - 1] = <<"combine", n, i>>
        BY <3>1, <1>6
      <3> QED
        BY <3>1, <3>2, <2>7, <1>5, <1>6
    <2> QED
      BY <2>2, <2>4, <2>5, <2>6, <2>7
  <1>14. Acyclic(h)
    <2> HIDE DEF S
    <2> QED
      BY <1>1, <1>7, <1>8, <1>12, <1>13, AddNodesAcyclic
  <1>15. GrowsBy(graph, h, S)
    BY <1>7, <1>8, <1>10, <1>12 DEF IsExtension, GrowsBy
  <1>16. h.inputs = graph.inputs /\ h.outputs = graph.outputs
    BY <1>12 DEF IsExtension
  <1>17. c \in DOMAIN h.node /\ OneOf(c, GradKinds)
    <2>1. L \in 1..L
      BY <1>3
    <2> QED
      BY <2>1, <1>9, <1>15 DEF GrowsBy
  <1>18. ASSUME NEW b \in S \cup ToSet(gs) PROVE b = c \/ Read(h, b)
    <2>0. ASSUME NEW i \in 2..L PROVE Read(h, Sum(n, i - 1)) /\ Read(h, gs[i])
      <3>1. <<"combine", n, i>> \in S
        OBVIOUS
      <3>2. /\ <<"combine", n, i>> \in DOMAIN h.node
            /\ h.node[<<"combine", n, i>>].ins = <<Sum(n, i - 1), gs[i]>>
        <4>1. h.node[<<"combine", n, i>>] = rec[<<"combine", n, i>>]
          BY <3>1, <1>7, <1>12 DEF IsExtension
        <4> QED
          BY <4>1, <3>1, <1>10, <1>15 DEF GrowsBy
      <3>3. ToSet(<<Sum(n, i - 1), gs[i]>>) = {Sum(n, i - 1), gs[i]}
        BY PairLists
      <3> QED
        BY <3>2, <3>3 DEF Read
    <2>1. CASE b \in S
      <3>1. PICK i \in 2..L : b = <<"combine", n, i>>
        BY <2>1
      <3>2. CASE i = L
        BY <3>1, <3>2, <1>5
      <3>3. CASE i # L
        <4>1. i + 1 \in 2..L /\ (i + 1) - 1 = i
          BY <3>3, <1>3
        <4>2. Read(h, Sum(n, i))
          BY <4>1, <2>0
        <4> QED
          BY <4>2, <3>1, <1>5
      <3> QED
        BY <3>2, <3>3
    <2>2. CASE b \in ToSet(gs)
      <3>1. PICK i \in 1..L : b = gs[i]
        BY <2>2, <1>3 DEF ToSet
      <3>2. CASE i \in 2..L
        BY <3>1, <3>2, <2>0
      <3>3. CASE i = 1 /\ L = 1
        BY <3>1, <3>3, <1>5
      <3>4. CASE i = 1 /\ L # 1
        <4>1. 2 \in 2..L /\ 2 - 1 = 1
          BY <3>4, <1>3
        <4>2. Read(h, Sum(n, 1))
          BY <4>1, <2>0
        <4> QED
          BY <4>2, <3>1, <3>4, <1>5
      <3> QED
        BY <3>2, <3>3, <3>4, <1>3
    <2> QED
      BY <2>1, <2>2
  <1> QED
    BY <1>12, <1>14, <1>15, <1>16, <1>17, <1>18 DEF h, gs, L, S, c

\* The op that carries a gradient back reads the gradient, and forward nodes at most.
LEMMA BackwardOpIs ==
    ASSUME NEW D, NEW role \in {"Add", "Multiply", "Exp", "Nop"}, NEW ins \in Seq(D),
           Len(ins) = OpArity[role], NEW p \in DOMAIN ins, NEW n \in D, NEW c \in D,
           OneOf(c, GradKinds), EpochOf(n) = "fwd", TypeOf(n) = "op",
           \A x \in ToSet(ins) : TypeOf(x) \in {"input", "op"} /\ EpochOf(x) = "fwd"
    PROVE  LET r == BackwardOp(role, p, ins, n, c)
           IN  /\ r \in Records(D) /\ Whole(<<"bw", n, p>>, r)
               /\ c \in ToSet(r.ins)
  <1> DEFINE b == <<"bw", n, p>>
             r == BackwardOp(role, p, ins, n, c)
  <1>1. b \notin Leaves /\ b[1] = "bw"
    BY NotLeaves
  <1> HIDE DEF b
  <1>2. OneOf(b, {"bw", "combine", "recompute"}) /\ ~OneOf(b, SinkKinds) /\ ~OneOf(b, {"recompute"})
        /\ b[1] \in AllKinds
    BY <1>1 DEF OneOf, SinkKinds, AllKinds, GradKinds
  <1>3. TypeOf(b) = "op" /\ EpochOf(b) = "bwd" /\ RolesOf(b) = DOMAIN OpArity
    BY <1>2, BackwardOpsAre
  <1>4. TypeOf(c) \in {"input", "op"} /\ EpochOf(c) = "bwd"
    BY GradientsAre
  <1>5. "op" \in Types /\ "Nop" \in Roles /\ "Multiply" \in Roles /\ "bwd" \in Epochs
    BY DEF Types, Roles, Epochs
  <1>6. /\ "Nop" \in DOMAIN OpArity /\ OpArity["Nop"] = 1
        /\ "Multiply" \in DOMAIN OpArity /\ OpArity["Multiply"] = 2
    BY DEF OpArity
  <1>7. CASE role \in {"Add", "Nop"}
    <2>1. r = Node("op", "Nop", "bwd", <<c>>)
      BY <1>7 DEF BackwardOp
    <2>2. <<c>> \in Seq(D) /\ ToSet(<<c>>) = {c} /\ Len(<<c>>) = 1
      BY OneIs
    <2>3. /\ r \in Records(D) /\ r.type = "op" /\ r.role = "Nop" /\ r.epoch = "bwd"
          /\ r.ins = <<c>>
      <3>1. Node("op", "Nop", "bwd", <<c>>) \in Records(D)
        BY <2>2, <1>5, NodeIs
      <3> QED
        BY <3>1, <2>1 DEF Node
    <2> HIDE DEF r
    <2>4. MayRead(b, "Nop", c)
      BY <1>2, <1>3, <1>4 DEF MayRead
    <2>5. Fits(b, r)
      BY <2>2, <2>3, <2>4, <1>2, <1>3, <1>6 DEF Fits
    <2>6. Whole(b, r)
      BY <2>2, <2>3, <2>5, <1>6 DEF Whole, Ports
    <2> QED
      BY <2>2, <2>3, <2>6 DEF r, b
  <1>8. ASSUME NEW x \in D, TypeOf(x) \in {"input", "op"}, EpochOf(x) = "fwd",
               NEW s, s = <<c, x>> \/ s = <<x, c>>, r = Node("op", "Multiply", "bwd", s)
        PROVE  r \in Records(D) /\ Whole(b, r) /\ c \in ToSet(r.ins)
    <2>1. s \in Seq(D) /\ ToSet(s) = {c, x} /\ Len(s) = 2
      <3>1. <<c, x>> \in Seq(D) /\ ToSet(<<c, x>>) = {c, x} /\ Len(<<c, x>>) = 2
        BY <1>8, TwoAre
      <3>2. <<x, c>> \in Seq(D) /\ ToSet(<<x, c>>) = {x, c} /\ Len(<<x, c>>) = 2
        BY <1>8, TwoAre
      <3> QED
        BY <3>1, <3>2, <1>8
    <2>2. /\ r \in Records(D) /\ r.type = "op" /\ r.role = "Multiply" /\ r.epoch = "bwd"
          /\ r.ins = s
      <3>1. Node("op", "Multiply", "bwd", s) \in Records(D)
        BY <2>1, <1>5, NodeIs
      <3> QED
        BY <3>1, <1>8 DEF Node
    <2> HIDE DEF r
    <2>3. MayRead(b, "Multiply", c) /\ MayRead(b, "Multiply", x)
      BY <1>2, <1>3, <1>4, <1>8 DEF MayRead
    <2>4. Fits(b, r)
      BY <2>1, <2>2, <2>3, <1>2, <1>3, <1>6 DEF Fits
    <2>5. Whole(b, r)
      BY <2>1, <2>2, <2>4, <1>6 DEF Whole, Ports
    <2> QED
      BY <2>1, <2>2, <2>5
  <1>9. CASE role = "Multiply"
    <2>1. r = Node("op", "Multiply", "bwd", <<c, ins[3 - p]>>)
      BY <1>9 DEF BackwardOp
    <2>2. Len(ins) = 2 /\ DOMAIN ins = 1..2
      BY <1>9, <1>6
    <2>3. 3 - p \in DOMAIN ins
      BY <2>2
    <2>4. ins[3 - p] \in ToSet(ins) /\ ins[3 - p] \in D
      BY <2>3, Entries
    <2> HIDE DEF r
    <2>5. r \in Records(D) /\ Whole(b, r) /\ c \in ToSet(r.ins)
      BY <2>1, <2>4, <1>8 DEF r
    <2> QED
      BY <2>5 DEF r, b
  <1>10. CASE role = "Exp"
    <2>1. r = Node("op", "Multiply", "bwd", <<n, c>>)
      BY <1>10 DEF BackwardOp
    <2> HIDE DEF r
    <2>2. r \in Records(D) /\ Whole(b, r) /\ c \in ToSet(r.ins)
      BY <2>1, <1>8 DEF r
    <2> QED
      BY <2>2 DEF r, b
  <1> QED
    BY <1>7, <1>9, <1>10

\* One op for each operand that needs a gradient.
LEMMA BackwardOpsOf ==
    ASSUME IsGraph(graph), NEW n \in DOMAIN graph.node
    PROVE  LET ins == graph.node[n].ins
               s == BackwardOps(n)
           IN  /\ s \in Seq(ToSet(s)) /\ Distinct(s)
               /\ \A b \in ToSet(s) : \E p \in DOMAIN ins :
                     b = <<"bw", n, p>> /\ ins[p] \in requires_grad
               /\ \A p \in DOMAIN ins : ins[p] \in requires_grad => <<"bw", n, p>> \in ToSet(s)
  <1> DEFINE ins == graph.node[n].ins
             P == {i \in DOMAIN ins : ins[i] \in requires_grad}
             all == [i \in DOMAIN ins |-> i]
             ports == Only(all, P)
             s == [i \in DOMAIN ports |-> <<"bw", n, ports[i]>>]
  <1>1. ins \in Seq(DOMAIN graph.node)
    BY DEF IsGraph, Records
  <1>2. DOMAIN ins = 1..Len(ins) /\ Len(ins) \in Nat
    BY <1>1
  <1> HIDE DEF ins
  <1>3. all \in Seq(DOMAIN ins) /\ ToSet(all) = DOMAIN ins /\ Distinct(all)
    <2>1. all \in [1..Len(ins) -> DOMAIN ins]
      BY <1>2
    <2>2. all \in Seq(DOMAIN ins)
      BY <2>1, <1>2
    <2> QED
      BY <2>2 DEF ToSet, Distinct
  <1> HIDE DEF all
  <1>4. ports \in Seq(DOMAIN ins) /\ ToSet(ports) = P /\ Distinct(ports)
    <2>1. ports \in Seq(DOMAIN ins) /\ ToSet(ports) = ToSet(all) \cap P /\ Distinct(ports)
      BY <1>3, OnlyMembers, OnlyDistinct
    <2> QED
      BY <2>1, <1>3
  <1> HIDE DEF ports
  <1>5. DOMAIN ports = 1..Len(ports) /\ Len(ports) \in Nat
    BY <1>4
  <1>6. \A i \in DOMAIN ports : s[i] \in ToSet(s)
    BY DEF ToSet
  <1>7. s \in Seq(ToSet(s))
    <2>1. s \in [1..Len(ports) -> ToSet(s)]
      BY <1>5, <1>6
    <2> HIDE DEF s
    <2> QED
      BY <2>1, <1>5
  <1>8. Distinct(s)
    BY <1>4 DEF Distinct
  <1>9. \A b \in ToSet(s) : \E p \in DOMAIN ins : b = <<"bw", n, p>> /\ ins[p] \in requires_grad
    <2> SUFFICES ASSUME NEW i \in DOMAIN ports
                 PROVE  \E p \in DOMAIN ins : s[i] = <<"bw", n, p>> /\ ins[p] \in requires_grad
      BY DEF ToSet
    <2>1. ports[i] \in P
      BY <1>4 DEF ToSet
    <2> QED
      BY <2>1
  <1>10. \A p \in DOMAIN ins : ins[p] \in requires_grad => <<"bw", n, p>> \in ToSet(s)
    <2> SUFFICES ASSUME NEW p \in P PROVE <<"bw", n, p>> \in ToSet(s)
      OBVIOUS
    <2>1. PICK i \in DOMAIN ports : ports[i] = p
      BY <1>4 DEF ToSet
    <2> QED
      BY <2>1 DEF ToSet
  <1>11. BackwardOps(n) = s
    BY DEF BackwardOps, s, ports, all, P, ins
  <1> QED
    BY <1>7, <1>8, <1>9, <1>10, <1>11 DEF ins

\* The gradient of an op goes back to its operands.
LEMMA DifferentiatedIs ==
    ASSUME Well(graph), NEW n \in DOMAIN graph.node, EpochOf(n) = "fwd",
           graph.node[n].type = "op",
           NEW g, IsGraph(g), Acyclic(g), NEW S, GrowsBy(graph, g, S),
           \A p : <<"bw", n, p>> \notin DOMAIN g.node,
           NEW c \in DOMAIN g.node, OneOf(c, GradKinds)
    PROVE  LET h == Differentiated(n, g, c)
               B == ToSet(BackwardOps(n))
           IN  /\ IsGraph(h) /\ Acyclic(h) /\ GrowsBy(g, h, B)
               /\ h.inputs = g.inputs /\ h.outputs = g.outputs
               /\ \A b \in B : c \in ToSet(h.node[b].ins)
  <1> DEFINE h == Differentiated(n, g, c)
             s == BackwardOps(n)
             B == ToSet(s)
             D == DOMAIN g.node
             ins == graph.node[n].ins
             role == graph.node[n].role
             rec == [b \in B |-> BackwardOp(role, b[3], ins, n, c)]
  <1>1. /\ IsGraph(graph) /\ Whole(n, graph.node[n])
    BY DEF Well
  <1>2. /\ s \in Seq(B) /\ Distinct(s)
        /\ \A b \in B : \E p \in DOMAIN ins : b = <<"bw", n, p>> /\ ins[p] \in requires_grad
    BY <1>1, BackwardOpsOf
  <1>3. /\ role \in {"Add", "Multiply", "Exp", "Nop"} /\ Len(ins) = OpArity[role]
        /\ TypeOf(n) = "op"
        /\ \A x \in ToSet(ins) : TypeOf(x) \in {"input", "op"} /\ EpochOf(x) = "fwd"
    <2>1. TypeOf(n) = "op" /\ role \in RolesOf(n) /\ n \notin Leaves /\ n[1] \in FwdKinds
          /\ n[1] # "output"
      <3>1. TypeOf(n) = "op" /\ role \in RolesOf(n)
        BY <1>1 DEF Whole, Fits
      <3>2. n \notin Leaves /\ n[1] \in FwdKinds /\ n[1] # "output"
        <4>1. n \notin Leaves /\ n[1] # "output"
          BY <3>1 DEF TypeOf
        <4> QED
          BY <4>1 DEF EpochOf
      <3> QED
        BY <3>1, <3>2
    <2>2. role \in {"Add", "Multiply", "Exp", "Nop"}
      BY <2>1 DEF RolesOf, FwdKinds, Leaves
    <2>3. \A x \in ToSet(ins) : MayRead(n, role, x)
      BY <1>1 DEF Whole, Fits
    <2>4. \A x \in ToSet(ins) : TypeOf(x) \in {"input", "op"} /\ EpochOf(x) = "fwd"
      BY <2>3 DEF MayRead
    <2>5. Len(ins) = OpArity[role]
      BY <1>1 DEF Whole, Ports
    <2> QED
      BY <2>1, <2>2, <2>4, <2>5
  <1>4. n \in D /\ ins \in Seq(D)
    <2>1. DOMAIN graph.node \subseteq D
      BY DEF GrowsBy
    <2>2. ins \in Seq(DOMAIN graph.node)
      BY <1>1 DEF IsGraph, Records
    <2>3. ToSet(ins) \subseteq D
      BY <2>1, <2>2, Entries
    <2> QED
      BY <2>1, <2>2, <2>3, Retyped
  <1>5. h = AddNodes(g, s, rec)
    BY DEF Differentiated
  <1> HIDE DEF h, s, ins, role
  <1>6. \A b \in B : rec[b] \in Records(D) /\ Whole(b, rec[b]) /\ c \in ToSet(rec[b].ins)
    <2> SUFFICES ASSUME NEW b \in B
                 PROVE  rec[b] \in Records(D) /\ Whole(b, rec[b]) /\ c \in ToSet(rec[b].ins)
      OBVIOUS
    <2>1. PICK p \in DOMAIN ins : b = <<"bw", n, p>>
      BY <1>2
    <2>2. rec[b] = BackwardOp(role, p, ins, n, c)
      BY <2>1
    <2> HIDE DEF rec
    <2>3. LET r == BackwardOp(role, p, ins, n, c)
          IN  r \in Records(D) /\ Whole(<<"bw", n, p>>, r) /\ c \in ToSet(r.ins)
      BY <1>3, <1>4, BackwardOpIs
    <2> QED
      BY <2>1, <2>2, <2>3
  <1> HIDE DEF rec
  <1>7. B \cap D = {}
    BY <1>2
  <1>8. \A i \in DOMAIN s : s[i] \in B
    BY DEF ToSet
  <1>9. IsGraph(h) /\ IsExtension(g, h, B, rec)
    <2>1. Records(D) \subseteq Records(D \cup B)
      BY RecordsGrow
    <2>2. \A i \in DOMAIN s : rec[s[i]] \in Records(D \cup ToSet(s))
      BY <2>1, <1>6, <1>8
    <2> QED
      BY <2>2, <1>2, <1>5, <1>7, AddNodesIs
  <1>10. Stacked(g, s, rec)
    <2> SUFFICES ASSUME NEW i \in DOMAIN s, NEW x \in ToSet(rec[s[i]].ins) PROVE x \in D
      BY DEF Stacked
    <2>1. rec[s[i]].ins \in Seq(D)
      BY <1>6, <1>8 DEF Records
    <2> QED
      BY <2>1, Entries
  <1>11. Acyclic(h)
    BY <1>2, <1>7, <1>9, <1>10, AddNodesAcyclic
  <1> QED
    BY <1>6, <1>7, <1>9, <1>11 DEF IsExtension, GrowsBy, h, s

\* Growing in two steps is growing.
LEMMA GrowsTwice ==
    ASSUME NEW g, NEW h, NEW k, NEW S, NEW T, GrowsBy(g, h, S), GrowsBy(h, k, T)
    PROVE  GrowsBy(g, k, S \cup T)
  BY DEF GrowsBy

\* The node whose turn it is, and what is known of it.
LEMMA TurnOf ==
    ASSUME Well(graph), IsDifferentiating(model, graph, todo, requires_grad, gradients),
           todo # <<>>, NEW n, n = Head(todo)
    PROVE  /\ n \in ToSet(todo) /\ n \in DOMAIN gradients
           /\ n \in DOMAIN graph.node /\ EpochOf(n) = "fwd"
           /\ ToSet(Tail(todo)) \subseteq DOMAIN gradients /\ n \notin ToSet(Tail(todo))
           /\ ToSet(todo) = {n} \cup ToSet(Tail(todo))
           /\ gradients[n] \in Seq(DOMAIN graph.node)
           /\ gradients[n] # <<>> => n \in requires_grad /\ TypeOf(n) # "output"
           /\ \A x \in ToSet(graph.node[n].ins) : x \in ToSet(Tail(todo)) /\ x # n
           /\ \A x \in DOMAIN graph.node :
                 OneOf(x, {"bw", "combine"} \cup SinkKinds) => x[2] # n
           /\ graph.node[n].type = TypeOf(n)
  <1>1. /\ Gathered(graph, requires_grad, gradients)
        /\ todo \in Seq(DOMAIN gradients) /\ Distinct(todo) /\ UsersFirst(graph, todo)
        /\ \A x \in DOMAIN graph.node :
              OneOf(x, {"bw", "combine"} \cup SinkKinds) => x[2] \notin ToSet(todo)
    BY DEF IsDifferentiating, UsersFirst
  <1>2. /\ n \in ToSet(todo) /\ n \in DOMAIN gradients
        /\ ToSet(todo) = {n} \cup ToSet(Tail(todo)) /\ n \notin ToSet(Tail(todo))
        /\ ToSet(todo) \subseteq DOMAIN gradients
    BY <1>1, Rest, Entries
  <1>3. \A x \in ToSet(graph.node[n].ins) : x \in ToSet(Tail(todo)) /\ x # n
    BY <1>1, UsersFirstTail
  <1>4. n \in DOMAIN graph.node /\ EpochOf(n) = "fwd"
    BY <1>1, <1>2 DEF Gathered
  <1>5. graph.node[n].type = TypeOf(n)
    BY <1>4 DEF Well, Whole, Fits
  <1> QED
    BY <1>1, <1>2, <1>3, <1>4, <1>5 DEF Gathered

\* Nothing is done for nodes without gradients.
LEMMA SkipKeeps ==
    ASSUME Well(graph), IsDifferentiating(model, graph, todo, requires_grad, gradients),
           todo # <<>>, gradients[Head(todo)] = <<>>
    PROVE  IsDifferentiating(model, graph, Tail(todo), requires_grad, gradients)
  <1> DEFINE n == Head(todo)
  <1>1. GrowsBy(graph, graph, {})
    BY DEF GrowsBy
  <1>2. Gathered(graph, requires_grad, gradients)
        /\ \A x \in ToSet(todo) : \A b \in ToSet(gradients[x]) : OneOf(b, GradKinds)
    BY DEF IsDifferentiating
  <1>3. ToSet(gradients[n]) = {}
    <2>1. ToSet(<<>>) = {}
      BY DEF ToSet
    <2> QED
      BY <2>1
  <1>4. ToSet(todo) = {n} \cup ToSet(Tail(todo))
    BY TurnOf
  <1>5. Visited(model, graph, todo, requires_grad, gradients, graph, gradients, {})
    BY <1>1, <1>2, <1>3, <1>4 DEF Visited
  <1> QED
    BY <1>5, VisitedKeeps

\* A trained leaf sends its gradient out, or has it accumulated.
LEMMA SinkIs ==
    ASSUME NEW n \in Leaves, NEW D, NEW c \in D, OneOf(c, GradKinds)
    PROVE  LET rec == IF n \in Weights THEN Node("queue", "grad_accumulator", "bwd", <<c>>)
                                       ELSE Node("output", "external", "bwd", <<c>>)
           IN  /\ rec \in Records(D) /\ Whole(Sink(n), rec) /\ rec.ins = <<c>>
               /\ OneOf(Sink(n), SinkKinds) /\ Sink(n)[2] = n
  <1> DEFINE rec == IF n \in Weights THEN Node("queue", "grad_accumulator", "bwd", <<c>>)
                                     ELSE Node("output", "external", "bwd", <<c>>)
             s == Sink(n)
  <1>1. s \notin Leaves /\ s[2] = n /\ s[1] = IF n \in Weights THEN "grad_acc" ELSE "output_grad"
    BY NotLeaves DEF Sink
  <1> HIDE DEF s
  <1>2. /\ OneOf(s, SinkKinds) /\ EpochOf(s) = "bwd" /\ s[1] \in AllKinds
        /\ TypeOf(s) = IF n \in Weights THEN "queue" ELSE "output"
        /\ RolesOf(s) = IF n \in Weights THEN {"grad_accumulator"} ELSE {"external"}
    <2>1. s \notin Weights
      BY <1>1 DEF Leaves
    <2> QED
      BY <1>1, <2>1 DEF OneOf, SinkKinds, EpochOf, FwdKinds, OptKinds, TypeOf, RolesOf, AllKinds
  <1>3. <<c>> \in Seq(D) /\ ToSet(<<c>>) = {c} /\ Len(<<c>>) = 1
    BY OneIs
  <1>4. /\ rec \in Records(D) /\ rec.epoch = "bwd" /\ rec.ins = <<c>>
        /\ rec.type = IF n \in Weights THEN "queue" ELSE "output"
        /\ rec.role = IF n \in Weights THEN "grad_accumulator" ELSE "external"
    <2>1. /\ "queue" \in Types /\ "output" \in Types /\ "grad_accumulator" \in Roles
          /\ "external" \in Roles /\ "bwd" \in Epochs
      BY DEF Types, Roles, Epochs
    <2>2. /\ Node("queue", "grad_accumulator", "bwd", <<c>>) \in Records(D)
          /\ Node("output", "external", "bwd", <<c>>) \in Records(D)
      BY <1>3, <2>1, NodeIs
    <2>3. rec \in Records(D)
      BY <2>2
    <2> QED
      BY <2>3 DEF Node
  <1> HIDE DEF rec
  <1>5. MayRead(s, rec.role, c)
    <2>1. ~OneOf(s, {"recompute"})
      BY <1>1 DEF OneOf
    <2>2. TypeOf(c) \in {"input", "op"} /\ EpochOf(c) = "bwd"
      BY GradientsAre
    <2> QED
      BY <2>1, <2>2, <1>2 DEF MayRead
  <1>6. Fits(s, rec)
    BY <1>2, <1>3, <1>4, <1>5 DEF Fits
  <1>7. Whole(s, rec)
    BY <1>3, <1>4, <1>6 DEF Whole, Ports
  <1> QED
    BY <1>1, <1>2, <1>4, <1>7 DEF rec, s

\* The end of a trained leaf's gradients.
LEMMA LeafKeeps ==
    ASSUME IsTraced(model), Well(graph), Listed(model, graph),
           IsDifferentiating(model, graph, todo, requires_grad, gradients),
           todo # <<>>, NEW n, n = Head(todo), n \in model.trained, gradients[n] # <<>>,
           NEW h, h = AddNode(Combined(n), Sink(n),
                              IF n \in Weights
                              THEN Node("queue", "grad_accumulator", "bwd",
                                        <<Sum(n, Len(gradients[n]))>>)
                              ELSE Node("output", "external", "bwd",
                                        <<Sum(n, Len(gradients[n]))>>)),
           NEW gr, gr = [gradients EXCEPT ![n] = <<Sink(n)>>]
    PROVE  /\ Well(h) /\ Listed(model, h) /\ IsDifferentiating(model, h, Tail(todo), requires_grad, gr)
           /\ SameForwards(graph, h)
           /\ GrowsBy(Combined(n), h, {Sink(n)})
           /\ h.node[Sink(n)].ins = <<Sum(n, Len(gradients[n]))>>
  <1> DEFINE D == DOMAIN graph.node
             g == Combined(n)
             c == Sum(n, Len(gradients[n]))
             S == {<<"combine", n, i>> : i \in 2..Len(gradients[n])}
             s == Sink(n)
             rec == IF n \in Weights THEN Node("queue", "grad_accumulator", "bwd", <<c>>)
                                     ELSE Node("output", "external", "bwd", <<c>>)
  <1>1. /\ n \in ToSet(todo) /\ n \in DOMAIN gradients /\ n \in D /\ EpochOf(n) = "fwd"
        /\ ToSet(Tail(todo)) \subseteq DOMAIN gradients /\ n \notin ToSet(Tail(todo))
        /\ ToSet(todo) = {n} \cup ToSet(Tail(todo))
        /\ n \in requires_grad /\ TypeOf(n) # "output"
        /\ \A x \in D : OneOf(x, {"bw", "combine"} \cup SinkKinds) => x[2] # n
    BY TurnOf
  <1>2. /\ IsGraph(g) /\ Acyclic(g) /\ GrowsBy(graph, g, S)
        /\ g.inputs = graph.inputs /\ g.outputs = graph.outputs
        /\ c \in DOMAIN g.node /\ OneOf(c, GradKinds)
        /\ \A b \in S \cup ToSet(gradients[n]) : b = c \/ Read(g, b)
    BY <1>1, CombinedIs
  <1>3. \A x \in S : OneOf(x, {"combine"}) /\ x[2] = n
    BY NotLeaves DEF OneOf
  <1> HIDE DEF g, c, S, s
  <1>4. n \in Leaves
    BY DEF IsTraced
  <1>5. /\ rec \in Records(DOMAIN g.node) /\ Whole(s, rec) /\ rec.ins = <<c>>
        /\ OneOf(s, SinkKinds) /\ s[2] = n
    BY <1>2, <1>4, SinkIs DEF s
  <1>6. s \notin DOMAIN g.node
    <2>1. OneOf(s, {"bw", "combine"} \cup SinkKinds)
      BY <1>5 DEF OneOf
    <2>2. s \notin D
      BY <2>1, <1>1, <1>5
    <2>3. s \notin S
      BY <1>3, <1>5 DEF OneOf, SinkKinds
    <2> QED
      BY <2>2, <2>3, <1>2 DEF GrowsBy
  <1>7. h = AddNode(g, s, rec)
    BY DEF g, s, c
  <1> HIDE DEF rec
  <1>8. /\ IsGraph(h) /\ Acyclic(h) /\ DOMAIN h.node = DOMAIN g.node \cup {s}
        /\ \A x \in DOMAIN g.node : h.node[x] = g.node[x]
        /\ h.node[s] = rec /\ h.inputs = g.inputs /\ h.outputs = g.outputs
    BY <1>2, <1>5, <1>6, <1>7, AddedIs
  <1>9. GrowsBy(g, h, {s})
    BY <1>5, <1>6, <1>8 DEF GrowsBy
  <1>10. GrowsBy(graph, h, S \cup {s})
    BY <1>2, <1>9, GrowsTwice
  <1>11. \A x \in S \cup {s} : OneOf(x, {"bw", "combine"} \cup SinkKinds) /\ x[2] = n
    BY <1>3, <1>5 DEF OneOf
  <1>12. Well(h)
    BY <1>8, <1>10, WellGrows
  <1>13. Listed(model, h)
    <2>1. \A x \in S \cup {s} : x \notin Leaves /\ ~OneOf(x, {"gradient"}) /\ ~OneOf(x, {"output"})
      BY <1>11, NamedFor
    <2>2. h.inputs = graph.inputs /\ h.outputs = graph.outputs
      BY <1>2, <1>8
    <2> QED
      BY <2>1, <2>2, <1>10, ListedGrows
  <1>14. \A b \in S \cup ToSet(gradients[n]) : Read(h, b)
    <2>1. Read(h, c)
      <3>1. h.node[s].ins = <<c>> /\ s \in DOMAIN h.node
        BY <1>5, <1>8
      <3>2. ToSet(<<c>>) = {c}
        BY OneIs, c \in {c}
      <3> QED
        BY <3>1, <3>2 DEF Read
    <2>2. \A b : Read(g, b) => Read(h, b)
      BY <1>9, ReadsGrow
    <2> QED
      BY <2>1, <2>2, <1>2
  <1>15. Gathered(h, requires_grad, gr)
    <2>1. Gathered(graph, requires_grad, gradients)
      BY DEF IsDifferentiating
    <2>2. NoneForward(S \cup {s})
      BY <1>11, NamedFor DEF NoneForward
    <2>3. Forwards(h) = Forwards(graph)
      <3>1. Needs(model, graph, requires_grad)
        BY DEF IsDifferentiating
      <3> QED
        BY <3>1, <2>2, <1>10, NeedsGrow
    <2>4. \A x \in Forwards(graph) : gradients[x] \in Seq(D) /\ gradients[x] \in Seq(DOMAIN h.node)
      <3>1. D \subseteq DOMAIN h.node
        BY <1>10 DEF GrowsBy
      <3>2. \A x \in Forwards(graph) : gradients[x] \in Seq(D)
        BY <2>1 DEF Gathered, Forwards
      <3> QED
        BY <3>1, <3>2, Entries, Retyped
    <2>5. <<s>> \in Seq(DOMAIN h.node)
      BY <1>8, OneIs
    <2>6. gradients = [x \in Forwards(graph) |-> gradients[x]]
      BY <2>1 DEF Gathered, Forwards
    <2>7. gr \in [Forwards(h) -> Seq(DOMAIN h.node)] /\ gr[n] = <<s>>
          /\ \A x \in Forwards(graph) : x # n => gr[x] = gradients[x]
      BY <2>3, <2>4, <2>5, <2>6, <1>1 DEF s
    <2> QED
      BY <2>1, <2>3, <2>7, <1>1 DEF Gathered, Forwards
  <1>16. gr[n] = <<s>> /\ \A x \in DOMAIN gradients : x # n => gr[x] = gradients[x]
    BY <1>1 DEF s
  <1>17. \A x \in ToSet(todo) : \A b \in ToSet(gradients[x]) : OneOf(b, GradKinds)
    BY DEF IsDifferentiating
  <1>18. ~OneOf(s, GradKinds)
    BY <1>5 DEF OneOf, SinkKinds, GradKinds
  <1>19. Visited(model, graph, todo, requires_grad, gradients, h, gr, S \cup {s})
    <2>1. \A x \in DOMAIN gradients \ ToSet(todo) : gr[x] = gradients[x]
      BY <1>1, <1>16
    <2>2. \A x \in ToSet(Tail(todo)) :
             ToSet(gradients[x]) \subseteq ToSet(gr[x]) /\ \A b \in ToSet(gr[x]) : OneOf(b, GradKinds)
      BY <1>1, <1>16, <1>17
    <2> QED
      BY <2>1, <2>2, <1>10, <1>11, <1>14, <1>15, <1>16, <1>18 DEF Visited, s
  <1>20. IsDifferentiating(model, h, Tail(todo), requires_grad, gr)
    BY <1>19, VisitedKeeps
  <1>21. SameForwards(graph, h)
    <2>1. NoneForward(S \cup {s})
      BY <1>11, NamedFor DEF NoneForward
    <2> QED
      BY <2>1, <1>10, ForwardsStay
  <1> QED
    BY <1>5, <1>8, <1>9, <1>12, <1>13, <1>20, <1>21 DEF g, c, s

\* What is handed on: the gradients of the operands, one for each port.
LEMMA HandedOnIs ==
    ASSUME Well(graph), NEW n \in DOMAIN graph.node,
           Gathered(graph, requires_grad, gradients), n \in requires_grad, EpochOf(n) = "fwd",
           TypeOf(n) # "output",
           n \notin ToSet(graph.node[n].ins),
           NEW h, DOMAIN graph.node \cup ToSet(BackwardOps(n)) \subseteq DOMAIN h.node,
           Forwards(h) = Forwards(graph), NEW c \in DOMAIN h.node
    PROVE  LET gr == HandedOn(n, c)
               B == ToSet(BackwardOps(n))
               ins == graph.node[n].ins
           IN  /\ Gathered(h, requires_grad, gr)
               /\ DOMAIN gr = DOMAIN gradients
               /\ \A x \in DOMAIN gradients : x # n =>
                     /\ ToSet(gradients[x]) \subseteq ToSet(gr[x])
                     /\ \A b \in ToSet(gr[x]) : b \in ToSet(gradients[x]) \/ b \in B
                     /\ x \notin ToSet(ins) => gr[x] = gradients[x]
               /\ \A b \in B : \E x \in ToSet(ins) : b \in ToSet(gr[x])
  <1> DEFINE D == DOMAIN graph.node
             ins == graph.node[n].ins
             s == BackwardOps(n)
             B == ToSet(s)
             gr == HandedOn(n, c)
             To(x) == {b \in B : ins[b[3]] = x}
             new(x) == Only(s, To(x))
  <1>1. IsGraph(graph)
    BY DEF Well
  <1>2. /\ s \in Seq(B)
        /\ \A b \in B : \E p \in DOMAIN ins : b = <<"bw", n, p>> /\ ins[p] \in requires_grad
    BY <1>1, BackwardOpsOf
  <1>3. gr = [x \in DOMAIN gradients |-> IF x = n THEN <<c>> ELSE gradients[x] \o new(x)]
    BY DEF HandedOn
  <1>4. /\ DOMAIN gradients = Forwards(graph)
        /\ \A x \in Forwards(graph) : gradients[x] \in Seq(D)
        /\ \A x \in Forwards(graph) : gradients[x] # <<>> => x \in requires_grad /\ TypeOf(x) # "output"
    BY DEF Gathered, Forwards
  <1>5. ins \in Seq(D) /\ \A x \in ToSet(ins) : x \in Forwards(graph) /\ TypeOf(x) # "output"
    <2>1. ins \in Seq(D)
      BY <1>1 DEF IsGraph, Records
    <2>2. \A x \in ToSet(ins) : MayRead(n, graph.node[n].role, x)
      BY DEF Well, Whole, Fits
    <2>3. \A x \in ToSet(ins) : EpochOf(x) = "fwd" /\ TypeOf(x) # "output"
      BY <2>2 DEF MayRead
    <2> QED
      BY <2>1, <2>3, Entries DEF Forwards
  <1> HIDE DEF gr, s, ins
  <1>6. \A x : new(x) \in Seq(B) /\ ToSet(new(x)) = To(x)
    <2> SUFFICES ASSUME NEW x PROVE new(x) \in Seq(B) /\ ToSet(new(x)) = To(x)
      OBVIOUS
    <2>1. new(x) \in Seq(B) /\ ToSet(new(x)) = ToSet(s) \cap To(x)
      BY <1>2, OnlyMembers
    <2> QED
      BY <2>1
  <1>7. \A x : To(x) # {} => x \in ToSet(ins) /\ x \in requires_grad
    <2> SUFFICES ASSUME NEW x, NEW b \in B, ins[b[3]] = x
                 PROVE  x \in ToSet(ins) /\ x \in requires_grad
      OBVIOUS
    <2>1. PICK p \in DOMAIN ins : b = <<"bw", n, p>> /\ ins[p] \in requires_grad
      BY <1>2
    <2>2. x = ins[p]
      BY <2>1
    <2> QED
      BY <2>1, <2>2 DEF ToSet
  <1>8. \A b \in B : ins[b[3]] \in ToSet(ins)
    BY <1>7
  <1> HIDE DEF new
  <1>9. ASSUME NEW x \in DOMAIN gradients, x # n
        PROVE  /\ gr[x] \in Seq(DOMAIN h.node)
               /\ ToSet(gr[x]) = ToSet(gradients[x]) \cup To(x)
               /\ To(x) = {} => gr[x] = gradients[x]
    <2> DEFINE E == DOMAIN h.node
    <2>1. gradients[x] \in Seq(E) /\ new(x) \in Seq(E)
      <3>1. ToSet(gradients[x]) \subseteq E
        BY <1>4, Entries
      <3>2. ToSet(new(x)) \subseteq E
        BY <1>6 DEF s
      <3> QED
        BY <3>1, <3>2, <1>4, <1>6, Retyped
    <2>2. gr[x] = gradients[x] \o new(x)
      BY <1>3, <1>9
    <2>3. gr[x] \in Seq(E) /\ ToSet(gr[x]) = ToSet(gradients[x]) \cup ToSet(new(x))
      BY <2>1, <2>2, Joined
    <2>4. ASSUME To(x) = {} PROVE gr[x] = gradients[x]
      <3>1. new(x) = <<>>
        BY <2>4, <1>6, Entries
      <3> QED
        BY <3>1, <2>1, <2>2
    <2> QED
      BY <2>3, <2>4, <1>6
  <1>10. n \in DOMAIN gradients /\ gr[n] = <<c>> /\ <<c>> \in Seq(DOMAIN h.node)
    <2>1. n \in DOMAIN gradients
      BY <1>4 DEF Forwards
    <2> QED
      BY <2>1, <1>3, OneIs
  <1>11. DOMAIN gr = DOMAIN gradients
    BY <1>3
  <1> HIDE DEF To
  <1>12. Gathered(h, requires_grad, gr)
    <2>1. gr = [x \in Forwards(h) |-> gr[x]]
      BY <1>3, <1>4
    <2>2. \A x \in Forwards(h) : gr[x] \in Seq(DOMAIN h.node)
      BY <1>4, <1>9, <1>10
    <2>3. gr \in [Forwards(h) -> Seq(DOMAIN h.node)]
      BY <2>1, <2>2
    <2>4. ASSUME NEW x \in Forwards(h), gr[x] # <<>>
          PROVE  x \in requires_grad /\ TypeOf(x) # "output"
      <3>1. CASE x = n
        BY <3>1
      <3>2. CASE x # n /\ To(x) = {}
        BY <3>2, <2>4, <1>4, <1>9
      <3>3. CASE x # n /\ To(x) # {}
        BY <3>3, <1>5, <1>7
      <3> QED
        BY <3>1, <3>2, <3>3
    <2> QED
      BY <2>3, <2>4, <1>11, <1>4 DEF Gathered, Forwards
  <1>13. \A x \in DOMAIN gradients : x # n =>
            /\ ToSet(gradients[x]) \subseteq ToSet(gr[x])
            /\ \A b \in ToSet(gr[x]) : b \in ToSet(gradients[x]) \/ b \in B
            /\ x \notin ToSet(ins) => gr[x] = gradients[x]
    BY <1>7, <1>9 DEF To
  <1>14. \A b \in B : \E x \in ToSet(ins) : b \in ToSet(gr[x])
    <2> SUFFICES ASSUME NEW b \in B PROVE b \in ToSet(gr[ins[b[3]]])
      BY <1>8
    <2>1. ins[b[3]] \in ToSet(ins) /\ ins[b[3]] # n
      BY <1>8 DEF ins
    <2>2. ins[b[3]] \in DOMAIN gradients
      BY <2>1, <1>4, <1>5
    <2> QED
      BY <2>1, <2>2, <1>9 DEF To
  <1> QED
    BY <1>11, <1>12, <1>13, <1>14 DEF gr, s, ins

\* An op hands its gradient on to its operands.
LEMMA OpKeeps ==
    ASSUME IsTraced(model), Well(graph), Listed(model, graph),
           IsDifferentiating(model, graph, todo, requires_grad, gradients),
           todo # <<>>, NEW n, n = Head(todo), graph.node[n].type = "op", gradients[n] # <<>>,
           NEW h, h = Differentiated(n, Combined(n), Sum(n, Len(gradients[n]))),
           NEW gr, gr = HandedOn(n, Sum(n, Len(gradients[n])))
    PROVE  /\ Well(h) /\ Listed(model, h) /\ IsDifferentiating(model, h, Tail(todo), requires_grad, gr)
           /\ SameForwards(graph, h)
           /\ GrowsBy(Combined(n), h, ToSet(BackwardOps(n)))
  <1> DEFINE D == DOMAIN graph.node
             g == Combined(n)
             c == Sum(n, Len(gradients[n]))
             S == {<<"combine", n, i>> : i \in 2..Len(gradients[n])}
             ins == graph.node[n].ins
             B == ToSet(BackwardOps(n))
  <1>1. /\ n \in ToSet(todo) /\ n \in DOMAIN gradients /\ n \in D /\ EpochOf(n) = "fwd"
        /\ ToSet(Tail(todo)) \subseteq DOMAIN gradients /\ n \notin ToSet(Tail(todo))
        /\ ToSet(todo) = {n} \cup ToSet(Tail(todo))
        /\ n \in requires_grad /\ TypeOf(n) # "output" /\ TypeOf(n) = "op"
        /\ \A x \in ToSet(ins) : x \in ToSet(Tail(todo)) /\ x # n
        /\ \A x \in D : OneOf(x, {"bw", "combine"} \cup SinkKinds) => x[2] # n
    BY TurnOf
  <1>2. /\ IsGraph(g) /\ Acyclic(g) /\ GrowsBy(graph, g, S)
        /\ g.inputs = graph.inputs /\ g.outputs = graph.outputs
        /\ c \in DOMAIN g.node /\ OneOf(c, GradKinds)
        /\ \A b \in S \cup ToSet(gradients[n]) : b = c \/ Read(g, b)
    BY <1>1, CombinedIs
  <1>3. \A x \in S : OneOf(x, {"combine"}) /\ x[2] = n
    BY NotLeaves DEF OneOf
  <1> HIDE DEF g, c, S
  <1>4. \A p : <<"bw", n, p>> \notin DOMAIN g.node
    <2> SUFFICES ASSUME NEW p PROVE <<"bw", n, p>> \notin DOMAIN g.node
      OBVIOUS
    <2>1. OneOf(<<"bw", n, p>>, {"bw", "combine"} \cup SinkKinds) /\ <<"bw", n, p>>[2] = n
          /\ ~OneOf(<<"bw", n, p>>, {"combine"})
      BY NotLeaves DEF OneOf
    <2> QED
      BY <2>1, <1>1, <1>2, <1>3 DEF GrowsBy
  <1>5. /\ IsGraph(h) /\ Acyclic(h) /\ GrowsBy(g, h, B)
        /\ h.inputs = g.inputs /\ h.outputs = g.outputs
        /\ \A b \in B : c \in ToSet(h.node[b].ins)
    <2>1. h = Differentiated(n, g, c)
      BY DEF g, c
    <2> QED
      BY <2>1, <1>1, <1>2, <1>4, DifferentiatedIs
  <1>6. /\ \A b \in B : \E p \in DOMAIN ins : b = <<"bw", n, p>> /\ ins[p] \in requires_grad
        /\ \A p \in DOMAIN ins : ins[p] \in requires_grad => <<"bw", n, p>> \in B
    BY <1>1, BackwardOpsOf DEF Well
  <1>7. \A b \in B : OneOf(b, {"bw"}) /\ b[2] = n
    BY <1>6, NotLeaves DEF OneOf
  <1>8. B # {}
    <2>1. n \notin Leaves
      BY <1>1 DEF TypeOf
    <2>2. Needs(model, graph, requires_grad)
      BY DEF IsDifferentiating
    <2>3. PICK x \in ToSet(ins) : x \in requires_grad
      BY <1>1, <2>1, <2>2 DEF Needs
    <2>4. PICK p \in DOMAIN ins : ins[p] = x
      BY DEF ToSet
    <2> QED
      BY <2>3, <2>4, <1>6
  <1> HIDE DEF B, ins
  <1>9. GrowsBy(graph, h, S \cup B)
    BY <1>2, <1>5, GrowsTwice
  <1>10. \A x \in S \cup B : OneOf(x, {"bw", "combine"} \cup SinkKinds) /\ x[2] = n
    BY <1>3, <1>7 DEF OneOf
  <1>11. Well(h)
    BY <1>5, <1>9, WellGrows
  <1>12. Listed(model, h)
    <2>1. \A x \in S \cup B : x \notin Leaves /\ ~OneOf(x, {"gradient"}) /\ ~OneOf(x, {"output"})
      BY <1>10, NamedFor
    <2>2. h.inputs = graph.inputs /\ h.outputs = graph.outputs
      BY <1>2, <1>5
    <2> QED
      BY <2>1, <2>2, <1>9, ListedGrows
  <1>13. \A b \in S \cup ToSet(gradients[n]) : Read(h, b)
    <2>1. Read(h, c)
      BY <1>5, <1>8 DEF Read, GrowsBy
    <2>2. \A b : Read(g, b) => Read(h, b)
      BY <1>5, ReadsGrow
    <2> QED
      BY <2>1, <2>2, <1>2
  <1>14. Forwards(h) = Forwards(graph)
    <2>1. NoneForward(S \cup B)
      BY <1>10, NamedFor DEF NoneForward
    <2>2. Needs(model, graph, requires_grad)
      BY DEF IsDifferentiating
    <2> QED
      BY <2>1, <2>2, <1>9, NeedsGrow
  <1>15. /\ Gathered(h, requires_grad, gr)
         /\ DOMAIN gr = DOMAIN gradients
         /\ \A x \in DOMAIN gradients : x # n =>
               /\ ToSet(gradients[x]) \subseteq ToSet(gr[x])
               /\ \A b \in ToSet(gr[x]) : b \in ToSet(gradients[x]) \/ b \in B
               /\ x \notin ToSet(ins) => gr[x] = gradients[x]
         /\ \A b \in B : \E x \in ToSet(ins) : b \in ToSet(gr[x])
    <2>1. Gathered(graph, requires_grad, gradients)
      BY DEF IsDifferentiating
    <2>2. D \cup ToSet(BackwardOps(n)) \subseteq DOMAIN h.node
      BY <1>9 DEF GrowsBy, B
    <2>3. c \in DOMAIN h.node
      BY <1>2, <1>5 DEF GrowsBy
    <2>4. n \notin ToSet(graph.node[n].ins)
      BY <1>1 DEF ins
    <2>5. gr = HandedOn(n, c)
      BY DEF c
    <2> QED
      BY <2>1, <2>2, <2>3, <2>4, <2>5, <1>1, <1>14, HandedOnIs DEF B, ins
  <1>16. \A x \in ToSet(todo) : \A b \in ToSet(gradients[x]) : OneOf(b, GradKinds)
    BY DEF IsDifferentiating
  <1>17. \A b \in B : OneOf(b, GradKinds)
    BY <1>7 DEF OneOf, GradKinds
  <1>18. n \notin model.trained
    <2>1. n \notin Leaves
      BY <1>1 DEF TypeOf
    <2> QED
      BY <2>1 DEF IsTraced
  <1>19. Visited(model, graph, todo, requires_grad, gradients, h, gr, S \cup B)
    <2>1. \A x \in DOMAIN gradients \ ToSet(todo) : gr[x] = gradients[x]
      BY <1>1, <1>15
    <2>2. \A x \in ToSet(Tail(todo)) :
             ToSet(gradients[x]) \subseteq ToSet(gr[x]) /\ \A b \in ToSet(gr[x]) : OneOf(b, GradKinds)
      BY <1>1, <1>15, <1>16, <1>17
    <2>3. \A b \in B : \E x \in ToSet(Tail(todo)) : b \in ToSet(gr[x])
      BY <1>1, <1>15
    <2> QED
      BY <2>1, <2>2, <2>3, <1>9, <1>10, <1>13, <1>15, <1>18 DEF Visited
  <1>20. IsDifferentiating(model, h, Tail(todo), requires_grad, gr)
    BY <1>19, VisitedKeeps
  <1>21. SameForwards(graph, h)
    <2>1. NoneForward(S \cup B)
      BY <1>10, NamedFor DEF NoneForward
    <2> QED
      BY <2>1, <1>9, ForwardsStay
  <1> QED
    BY <1>5, <1>11, <1>12, <1>20, <1>21 DEF g, B

\* What a turn does: nothing for a node without gradients, a sink for a trained leaf, and
\* backward ops for an op.
PassesOver(n) == gradients[n] = <<>> /\ UNCHANGED <<graph, gradients>>
PassesBack(n) ==
    /\ TypeOf(n) = "op" /\ graph.node[n].type = "op" /\ gradients[n] # <<>>
    /\ graph' = Differentiated(n, Combined(n), Sum(n, Len(gradients[n])))
    /\ gradients' = HandedOn(n, Sum(n, Len(gradients[n])))
PassesOut(n) ==
    /\ n \in model.trained /\ gradients[n] # <<>>
    /\ graph' = AddNode(Combined(n), Sink(n),
                        IF n \in Weights
                        THEN Node("queue", "grad_accumulator", "bwd",
                                  <<Sum(n, Len(gradients[n]))>>)
                        ELSE Node("output", "external", "bwd",
                                  <<Sum(n, Len(gradients[n]))>>))
    /\ gradients' = [gradients EXCEPT ![n] = <<Sink(n)>>]

\* An output and an input that is not trained have no gradients.
LEMMA DifferentiateTurns ==
    ASSUME IsTraced(model), Well(graph),
           IsDifferentiating(model, graph, todo, requires_grad, gradients), Differentiate,
           NEW n, n = Head(todo)
    PROVE  /\ todo # <<>> /\ todo' = Tail(todo)
           /\ PassesOver(n) \/ PassesBack(n) \/ PassesOut(n)
  <1> DEFINE c == Sum(n, Len(gradients[n]))
  <1>1. todo # <<>> /\ todo' = Tail(todo)
    BY DEF Differentiate
  <1>2. /\ n \in DOMAIN gradients /\ n \in DOMAIN graph.node /\ EpochOf(n) = "fwd"
        /\ gradients[n] # <<>> => n \in requires_grad /\ TypeOf(n) # "output"
        /\ graph.node[n].type = TypeOf(n)
    BY <1>1, TurnOf
  <1>3. CASE /\ \/ graph.node[n].type = "output"
                \/ graph.node[n].type = "input" /\ n \notin model.trained
                \/ gradients[n] = <<>>
             /\ UNCHANGED <<graph, gradients>>
    <2>1. gradients[n] = <<>>
      <3>1. CASE graph.node[n].type = "output"
        BY <3>1, <1>2
      <3>2. CASE graph.node[n].type = "input" /\ n \notin model.trained
        <4>1. n \in Leaves
          <5>1. n \in Leaves \/ n[1] \in {"gradient", "lr"}
            BY <3>2, <1>2 DEF TypeOf
          <5> QED
            BY <5>1, <1>2 DEF EpochOf, FwdKinds
        <4>2. Needs(model, graph, requires_grad)
          BY DEF IsDifferentiating
        <4> QED
          BY <3>2, <4>1, <4>2, <1>2 DEF Needs
      <3> QED
        BY <3>1, <3>2, <1>3
    <2> QED
      BY <2>1, <1>1, <1>3 DEF PassesOver
  <1>4. CASE /\ graph.node[n].type = "op" /\ gradients[n] # <<>>
             /\ graph' = Differentiated(n, Combined(n), c)
             /\ gradients' = HandedOn(n, c)
    BY <1>1, <1>2, <1>4 DEF PassesBack
  <1>5. CASE /\ n \in model.trained /\ gradients[n] # <<>>
             /\ LET sink == IF graph.node[n].role = "parameter" THEN <<"grad_acc", n>>
                                                                ELSE <<"output_grad", n>>
                IN  /\ graph' = AddNode(Combined(n), sink,
                           IF graph.node[n].role = "parameter"
                           THEN Node("queue", "grad_accumulator", "bwd", <<c>>)
                           ELSE Node("output", "external", "bwd", <<c>>))
                    /\ gradients' = [gradients EXCEPT ![n] = <<sink>>]
    <2>1. n \in Leaves
      BY <1>5 DEF IsTraced
    <2>2. graph.node[n].role = "parameter" <=> n \in Weights
      <3>1. graph.node[n].role \in RolesOf(n)
        BY <1>2 DEF Well, Whole, Fits
      <3> QED
        BY <3>1, <2>1 DEF RolesOf
    <2>3. /\ graph' = AddNode(Combined(n), Sink(n),
                              IF n \in Weights
                              THEN Node("queue", "grad_accumulator", "bwd", <<c>>)
                              ELSE Node("output", "external", "bwd", <<c>>))
          /\ gradients' = [gradients EXCEPT ![n] = <<Sink(n)>>]
      BY <2>2, <1>5 DEF Sink
    <2> QED
      BY <2>3, <1>1, <1>5 DEF PassesOut
  <1> QED
    BY <1>1, <1>3, <1>4, <1>5 DEF Differentiate

\* The backward pass grows node by node, from the outputs back to the leaves.
LEMMA DifferentiateKeeps ==
    ASSUME IsTraced(model), Well(graph), Listed(model, graph),
           IsDifferentiating(model, graph, todo, requires_grad, gradients), Differentiate
    PROVE  /\ Well(graph') /\ Listed(model, graph')
           /\ IsDifferentiating(model, graph', todo', requires_grad, gradients')
           /\ SameForwards(graph, graph')
  <1> DEFINE n == Head(todo)
  <1>1. todo # <<>> /\ todo' = Tail(todo) /\ (PassesOver(n) \/ PassesBack(n) \/ PassesOut(n))
    BY DifferentiateTurns
  <1>2. CASE PassesOver(n)
    <2>1. IsDifferentiating(model, graph, Tail(todo), requires_grad, gradients)
      BY <1>1, <1>2, SkipKeeps DEF PassesOver
    <2> QED
      BY <2>1, <1>1, <1>2 DEF PassesOver, SameForwards
  <1>3. CASE PassesBack(n)
    BY <1>1, <1>3, OpKeeps DEF PassesBack
  <1>4. CASE PassesOut(n)
    BY <1>1, <1>4, LeafKeeps DEF PassesOut
  <1> QED
    BY <1>1, <1>2, <1>3, <1>4

\* When nothing is left to differentiate, every gradient has been read.
LEMMA StartGivesOptimizing ==
    ASSUME IsTraced(model), Well(graph), DOMAIN loopback = {},
           IsDifferentiating(model, graph, todo, requires_grad, gradients), StartOptimizer
    PROVE  IsOptimizing(model, graph, todo', gradients, loopback)
  <1> DEFINE D == DOMAIN graph.node
  <1>1. todo = <<>> /\ todo' = IF model.optimizer THEN TopologicalSort(graph) ELSE <<>>
    BY DEF StartOptimizer
  <1>2. ToSet(<<>>) = {}
    BY DEF ToSet
  <1>3. /\ OnlyKinds(graph, FwdKinds \cup GradKinds \cup SinkKinds)
        /\ Gathered(graph, requires_grad, gradients)
        /\ Sunk(model, gradients, DOMAIN gradients)
        /\ Awaited(graph, gradients, {}) /\ Seeded(model, graph, {})
    <2>1. DOMAIN gradients \ {} = DOMAIN gradients
      OBVIOUS
    <2> QED
      BY <2>1, <1>1, <1>2 DEF IsDifferentiating
  <1>4. todo' \in Seq(D) /\ Distinct(todo')
    <2>1. TopologicalSort(graph) \in Seq(D) /\ Distinct(TopologicalSort(graph))
      BY TopologicalSortSorts DEF Well, Sorted
    <2>2. <<>> \in Seq(D)
      OBVIOUS
    <2>3. Distinct(<<>>)
      BY DEF Distinct
    <2> QED
      BY <2>1, <2>2, <2>3, <1>1
  <1>5. \A n \in D : ~OneOf(n, OptKinds)
    <2> SUFFICES ASSUME NEW n \in D, n \notin Leaves, n[1] \in OptKinds PROVE FALSE
      BY DEF OneOf
    <2>1. n[1] \in FwdKinds \cup GradKinds \cup SinkKinds
      BY <1>3 DEF OnlyKinds
    <2> QED
      BY <2>1 DEF FwdKinds, GradKinds, SinkKinds, OptKinds
  <1>6. OnlyKinds(graph, AllKinds \ {"recompute"})
    BY <1>3 DEF OnlyKinds, AllKinds, FwdKinds, GradKinds, SinkKinds
  <1>7. Updates(model, graph, loopback)
    BY <1>5 DEF Updates
  <1>8. AllRead(graph)
    BY <1>3 DEF Awaited, AllRead
  <1> QED
    BY <1>3, <1>4, <1>5, <1>6, <1>7, <1>8 DEF IsOptimizing, Gathered

\* What the name of a node of the optimizer tells.
IsOptNode(n, w) ==
    /\ n \notin Leaves /\ n[1] \in OptKinds /\ n[2] = w /\ n = <<n[1], n[2]>>
    /\ EpochOf(n) = "opt" /\ n[1] \in AllKinds \ {"recompute"}
    /\ TypeOf(n) = IF n[1] = "lr" THEN "input" ELSE "op"
    /\ RolesOf(n) = IF n[1] = "lr" THEN {"optimizer_parameter"} ELSE DOMAIN OpArity
    /\ OneOf(n, OptKinds) /\ ~OneOf(n, GradKinds)
    /\ ~OneOf(n, {"gradient"}) /\ ~OneOf(n, {"output"})

\* The nodes of an update have the type, the epoch and the roles of their kind.
LEMMA OptNodesAre ==
    ASSUME NEW w
    PROVE  \A n \in {<<"lr", w>>, <<"opt_multiply", w>>, <<"opt_subtract", w>>} : IsOptNode(n, w)
  <1> SUFFICES ASSUME NEW n \in {<<"lr", w>>, <<"opt_multiply", w>>, <<"opt_subtract", w>>}
               PROVE  IsOptNode(n, w)
    OBVIOUS
  <1>1. n \notin Leaves /\ n \notin Weights
    BY NotLeaves DEF Leaves
  <1> QED
    BY <1>1 DEF IsOptNode, OptKinds, AllKinds, OneOf, EpochOf, FwdKinds, GradKinds, SinkKinds,
                TypeOf, RolesOf

\* The three nodes that update a weight.
LEMMA UpdateIs ==
    ASSUME NEW m, NEW g, Well(g), Listed(m, g), NEW w \in Weights, w \in DOMAIN g.node,
           NEW acc \in DOMAIN g.node, acc = <<"grad_acc", w>>,
           \A n \in DOMAIN g.node : OneOf(n, OptKinds) => n[2] # w,
           NEW h, h = AddNode(AddNode(AddNode(g,
                        <<"lr", w>>, Node("input", "optimizer_parameter", "opt", <<>>)),
                        <<"opt_multiply", w>>, Node("op", "Multiply", "opt", <<acc, <<"lr", w>>>>)),
                        <<"opt_subtract", w>>, Node("op", "Subtract", "opt", <<w, <<"opt_multiply", w>>>>))
    PROVE  /\ Well(h) /\ Listed(m, h)
           /\ GrowsBy(g, h, {<<"lr", w>>, <<"opt_multiply", w>>, <<"opt_subtract", w>>})
           /\ h.node[<<"opt_multiply", w>>] = Node("op", "Multiply", "opt", <<acc, <<"lr", w>>>>)
           /\ h.node[<<"opt_subtract", w>>] = Node("op", "Subtract", "opt", <<w, <<"opt_multiply", w>>>>)
  <1> DEFINE lr == <<"lr", w>>
             mul == <<"opt_multiply", w>>
             sub == <<"opt_subtract", w>>
             S == {lr, mul, sub}
             D == DOMAIN g.node
             r1 == Node("input", "optimizer_parameter", "opt", <<>>)
             r2 == Node("op", "Multiply", "opt", <<acc, lr>>)
             r3 == Node("op", "Subtract", "opt", <<w, mul>>)
             g1 == AddNode(g, lr, r1)
             g2 == AddNode(g1, mul, r2)
  <1>1. lr # mul /\ lr # sub /\ mul # sub
    BY KindsDiffer
  <1>2. \A n \in S :
           /\ n \notin Leaves /\ n[1] \in OptKinds /\ n[2] = w
           /\ EpochOf(n) = "opt" /\ n[1] \in AllKinds
           /\ TypeOf(n) = IF n[1] = "lr" THEN "input" ELSE "op"
           /\ RolesOf(n) = IF n[1] = "lr" THEN {"optimizer_parameter"} ELSE DOMAIN OpArity
           /\ OneOf(n, OptKinds)
           /\ ~OneOf(n, {"gradient"}) /\ ~OneOf(n, {"output"})
    <2>1. \A n \in S : IsOptNode(n, w)
      BY OptNodesAre
    <2> HIDE DEF S
    <2> QED
      BY <2>1 DEF IsOptNode
  <1>3. lr[1] = "lr" /\ mul[1] = "opt_multiply" /\ sub[1] = "opt_subtract"
    OBVIOUS
  <1>4. TypeOf(acc) = "queue" /\ EpochOf(acc) = "bwd" /\ TypeOf(w) = "input" /\ EpochOf(w) = "fwd"
    <2>1. TypeOf(<<"grad_acc", w>>) = "queue" /\ EpochOf(<<"grad_acc", w>>) = "bwd"
      BY NamesAre
    <2>2. w \in Leaves
      BY DEF Leaves
    <2> QED
      BY <2>1, <2>2, LeavesAre
  <1>5. S \cap D = {}
    BY <1>2
  <1>6. \A n \in S : ~OneOf(n, SinkKinds) /\ ~OneOf(n, {"bw"}) /\ ~OneOf(n, {"recompute"})
    BY <1>2 DEF OneOf, OptKinds, SinkKinds
  <1> HIDE DEF lr, mul, sub
  <1>7. /\ TypeOf(lr) = "input" /\ TypeOf(mul) = "op" /\ TypeOf(sub) = "op"
        /\ EpochOf(lr) = "opt" /\ EpochOf(mul) = "opt" /\ EpochOf(sub) = "opt"
    BY <1>2, <1>3
  <1>8. \A n \in S : \A role : /\ MayRead(n, role, acc) /\ MayRead(n, role, lr)
                           /\ MayRead(n, role, w) /\ MayRead(n, role, mul)
    <2>1. \A n \in S : EpochOf(n) = "opt" /\ ~OneOf(n, SinkKinds) /\ ~OneOf(n, {"recompute"})
      BY <1>2, <1>6
    <2>2. \A n \in S : ~OneOf(n, GradKinds)
      BY <2>1, GradientsAre
    <2>3. TypeOf(w) \in {"input", "op"} /\ TypeOf(lr) \in {"input", "op"}
          /\ TypeOf(mul) \in {"input", "op"}
      BY <1>4, <1>7
    <2> HIDE DEF S
    <2>4. \A n \in S : \A role, x : TypeOf(x) \in {"input", "op", "queue"} => MayRead(n, role, x)
      BY <2>1, <2>2 DEF MayRead
    <2> QED
      BY <2>3, <2>4, <1>4
  <1>9. /\ "op" \in Types /\ "input" \in Types /\ "optimizer_parameter" \in Roles
        /\ "Multiply" \in Roles /\ "Subtract" \in Roles /\ "opt" \in Epochs
        /\ "Multiply" \in DOMAIN OpArity /\ OpArity["Multiply"] = 2
        /\ "Subtract" \in DOMAIN OpArity /\ OpArity["Subtract"] = 2
    BY DEF Types, Roles, Epochs, OpArity
  <1>10. r1 \in Records(D) /\ Whole(lr, r1)
    <2>1. <<>> \in Seq(D)
      OBVIOUS
    <2>2. r1 \in Records(D)
      BY <2>1, <1>9, NodeIs
    <2>3. r1.type = "input" /\ r1.role = "optimizer_parameter" /\ r1.epoch = "opt" /\ r1.ins = <<>>
      BY DEF Node
    <2>4. ToSet(<<>>) = {} /\ Len(<<>>) = 0
      BY DEF ToSet
    <2> HIDE DEF r1
    <2> QED
      BY <2>2, <2>3, <2>4, <1>2, <1>3 DEF Whole, Fits, Ports
  <1>11. /\ IsGraph(g1) /\ Acyclic(g1) /\ DOMAIN g1.node = D \cup {lr}
         /\ \A n \in D : g1.node[n] = g.node[n]
         /\ g1.node[lr] = r1 /\ g1.inputs = g.inputs /\ g1.outputs = g.outputs
    <2> HIDE DEF r1
    <2> QED
      BY <1>5, <1>10, AddedIs DEF Well
  <1>12. r2 \in Records(DOMAIN g1.node) /\ Whole(mul, r2)
    <2>1. /\ <<acc, lr>> \in Seq(DOMAIN g1.node) /\ ToSet(<<acc, lr>>) = {acc, lr}
          /\ Len(<<acc, lr>>) = 2
      <3>1. acc \in DOMAIN g1.node /\ lr \in DOMAIN g1.node
        BY <1>11
      <3> DEFINE E == DOMAIN g1.node
      <3> HIDE DEF g1, r2, E
      <3>2. acc \in E /\ lr \in E
        BY <3>1 DEF E
      <3>3. /\ <<acc, lr>> \in Seq(E) /\ ToSet(<<acc, lr>>) = {acc, lr}
            /\ Len(<<acc, lr>>) = 2
        BY <3>2, TwoAre
      <3> QED
        BY <3>3 DEF E
    <2>2. r2 \in Records(DOMAIN g1.node)
      BY <2>1, <1>9, NodeIs
    <2>3. r2.type = "op" /\ r2.role = "Multiply" /\ r2.epoch = "opt" /\ r2.ins = <<acc, lr>>
      BY DEF Node
    <2> HIDE DEF r2
    <2> QED
      BY <2>1, <2>2, <2>3, <1>2, <1>3, <1>8, <1>9 DEF Whole, Fits, Ports
  <1>13. /\ IsGraph(g2) /\ Acyclic(g2) /\ DOMAIN g2.node = D \cup {lr, mul}
         /\ \A n \in D : g2.node[n] = g.node[n]
         /\ g2.node[lr] = r1 /\ g2.node[mul] = r2 /\ g2.inputs = g.inputs /\ g2.outputs = g.outputs
    <2> HIDE DEF r1, r2, g1
    <2>1. mul \notin DOMAIN g1.node
      BY <1>1, <1>5, <1>11 DEF lr, mul
    <2>2. /\ IsGraph(g2) /\ Acyclic(g2) /\ DOMAIN g2.node = DOMAIN g1.node \cup {mul}
          /\ \A n \in DOMAIN g1.node : g2.node[n] = g1.node[n]
          /\ g2.node[mul] = r2 /\ g2.inputs = g1.inputs /\ g2.outputs = g1.outputs
      <3>1. IsGraph(g1) /\ Acyclic(g1) /\ r2 \in Records(DOMAIN g1.node) /\ g2 = AddNode(g1, mul, r2)
        BY <1>11, <1>12
      <3> HIDE DEF g2
      <3> QED
        BY <2>1, <3>1, AddedIs
    <2> QED
      BY <2>2, <1>11
  <1>14. r3 \in Records(DOMAIN g2.node) /\ Whole(sub, r3)
    <2>1. /\ <<w, mul>> \in Seq(DOMAIN g2.node) /\ ToSet(<<w, mul>>) = {w, mul}
          /\ Len(<<w, mul>>) = 2
      <3>1. w \in DOMAIN g2.node /\ mul \in DOMAIN g2.node
        BY <1>13
      <3> DEFINE E == DOMAIN g2.node
      <3> HIDE DEF g1, g2, r3, E
      <3>2. w \in E /\ mul \in E
        BY <3>1 DEF E
      <3>3. /\ <<w, mul>> \in Seq(E) /\ ToSet(<<w, mul>>) = {w, mul}
            /\ Len(<<w, mul>>) = 2
        BY <3>2, TwoAre
      <3> QED
        BY <3>3 DEF E
    <2>2. r3 \in Records(DOMAIN g2.node)
      BY <2>1, <1>9, NodeIs
    <2>3. r3.type = "op" /\ r3.role = "Subtract" /\ r3.epoch = "opt" /\ r3.ins = <<w, mul>>
      BY DEF Node
    <2> HIDE DEF r3
    <2> QED
      BY <2>1, <2>2, <2>3, <1>2, <1>3, <1>8, <1>9 DEF Whole, Fits, Ports
  <1>15. /\ IsGraph(h) /\ Acyclic(h) /\ DOMAIN h.node = D \cup S
         /\ \A n \in D : h.node[n] = g.node[n]
         /\ h.node[lr] = r1 /\ h.node[mul] = r2 /\ h.node[sub] = r3
         /\ h.inputs = g.inputs /\ h.outputs = g.outputs
    <2>1. h = AddNode(g2, sub, r3)
      BY DEF lr, mul, sub
    <2> HIDE DEF r1, r2, r3, g1, g2
    <2>2. sub \notin DOMAIN g2.node
      BY <1>1, <1>5, <1>13 DEF lr, mul, sub
    <2>3. /\ IsGraph(h) /\ Acyclic(h) /\ DOMAIN h.node = DOMAIN g2.node \cup {sub}
          /\ \A n \in DOMAIN g2.node : h.node[n] = g2.node[n]
          /\ h.node[sub] = r3 /\ h.inputs = g2.inputs /\ h.outputs = g2.outputs
      <3>1. IsGraph(g2) /\ Acyclic(g2) /\ r3 \in Records(DOMAIN g2.node)
        BY <1>13, <1>14
      <3> QED
        BY <2>1, <2>2, <3>1, AddedIs
    <2> QED
      BY <2>3, <1>13
  <1> HIDE DEF r1, r2, r3
  <1>16. GrowsBy(g, h, S)
    BY <1>5, <1>10, <1>12, <1>14, <1>15 DEF GrowsBy
  <1>17. Well(h)
    BY <1>15, <1>16, WellGrows
  <1>18. Listed(m, h)
    BY <1>2, <1>15, <1>16, ListedGrows
  <1> QED
    BY <1>15, <1>16, <1>17, <1>18 DEF lr, mul, sub, r2, r3

\* The nodes of g are in h as they are.
StaysIn(g, h) ==
    DOMAIN g.node \subseteq DOMAIN h.node /\ \A n \in DOMAIN g.node : h.node[n] = g.node[n]

\* One parameter after another gets its update.
LEMMA OptimizeKeeps ==
    ASSUME IsTraced(model), Well(graph), Listed(model, graph),
           IsOptimizing(model, graph, todo, gradients, loopback), OptimizeParameter
    PROVE  /\ Well(graph') /\ Listed(model, graph')
           /\ IsOptimizing(model, graph', todo', gradients, loopback')
           /\ SameForwards(graph, graph') /\ StaysIn(graph, graph')
  <1> DEFINE D == DOMAIN graph.node
             w == Head(todo)
             lr == <<"lr", w>>
             mul == <<"opt_multiply", w>>
             sub == <<"opt_subtract", w>>
             acc == <<"grad_acc", w>>
             S == {lr, mul, sub}
             F == {n \in D : EpochOf(n) = "fwd"}
  <1>1. todo # <<>> /\ todo' = Tail(todo)
    BY DEF OptimizeParameter
  <1>2. /\ OnlyKinds(graph, AllKinds \ {"recompute"})
        /\ gradients \in [F -> Seq(D)]
        /\ Sunk(model, gradients, DOMAIN gradients) /\ Updates(model, graph, loopback)
        /\ todo \in Seq(D) /\ Distinct(todo)
        /\ \A n \in D : OneOf(n, OptKinds) => n[2] \notin ToSet(todo)
        /\ AllRead(graph) /\ Seeded(model, graph, {})
    BY DEF IsOptimizing
  <1>3. /\ ToSet(todo) = {w} \cup ToSet(todo') /\ w \notin ToSet(todo') /\ todo' \in Seq(D)
        /\ Distinct(todo') /\ w \in D
    BY <1>1, <1>2, Rest
  <1>4. CASE w \notin Weights \cap model.trained
    <2>1. graph' = graph /\ loopback' = loopback
      BY <1>4 DEF OptimizeParameter
    <2>2. IsOptimizing(model, graph, todo', gradients, loopback)
      BY <1>2, <1>3 DEF IsOptimizing
    <2> QED
      BY <2>1, <2>2 DEF SameForwards, StaysIn
  <1>5. CASE w \in Weights \cap model.trained
    <2>1. /\ Len(gradients[w]) = 1
          /\ graph' = AddNode(AddNode(AddNode(graph,
                        lr, Node("input", "optimizer_parameter", "opt", <<>>)),
                        mul, Node("op", "Multiply", "opt", <<gradients[w][1], lr>>)),
                        sub, Node("op", "Subtract", "opt", <<w, mul>>))
          /\ loopback' = With(loopback, w, sub)
      BY <1>5 DEF OptimizeParameter
    <2>2. w \in F /\ w \in Weights
      <3>1. w \in Leaves
        BY <1>5 DEF Leaves
      <3> QED
        BY <3>1, <1>3, <1>5, LeavesAre
    <2>3. gradients[w] = <<acc>> /\ gradients[w][1] = acc /\ acc \in D
      <3>1. gradients[w] = <<>> \/ gradients[w] = <<Sink(w)>>
        BY <2>2, <1>2, <1>5 DEF Sunk
      <3>2. Len(<<>>) = 0
        OBVIOUS
      <3>3. gradients[w] = <<acc>>
        BY <3>1, <3>2, <2>1, <2>2 DEF Sink
      <3>4. gradients[w] \in Seq(D) /\ ToSet(<<acc>>) = {acc}
        BY <2>2, <1>2, OneIs, acc \in {acc}
      <3>5. acc \in D
        BY <3>3, <3>4, Entries
      <3> QED
        BY <3>3, <3>5
    <2> HIDE DEF w
    <2>4. \A n \in D : OneOf(n, OptKinds) => n[2] # w
      BY <1>2, <1>3
    <2>5. /\ Well(graph') /\ Listed(model, graph') /\ GrowsBy(graph, graph', S)
          /\ graph'.node[mul] = Node("op", "Multiply", "opt", <<acc, lr>>)
          /\ graph'.node[sub] = Node("op", "Subtract", "opt", <<w, mul>>)
      <3>1. graph' = AddNode(AddNode(AddNode(graph,
                        lr, Node("input", "optimizer_parameter", "opt", <<>>)),
                        mul, Node("op", "Multiply", "opt", <<acc, lr>>)),
                        sub, Node("op", "Subtract", "opt", <<w, mul>>))
        BY <2>1, <2>3
      <3>2. w \in Weights /\ w \in D /\ acc \in D
        BY <2>2, <2>3
      <3> QED
        BY <3>1, <3>2, <2>4, UpdateIs
    <2>6. \A n \in S :
             /\ n \notin Leaves /\ n[1] \in OptKinds /\ n[2] = w /\ n = <<n[1], n[2]>>
             /\ EpochOf(n) = "opt" /\ n[1] \in AllKinds \ {"recompute"}
             /\ OneOf(n, OptKinds) /\ ~OneOf(n, GradKinds)
      <3>1. \A n \in S : IsOptNode(n, w)
        BY OptNodesAre
      <3> HIDE DEF S
      <3> QED
        BY <3>1 DEF IsOptNode
    <2>7. DOMAIN graph'.node = D \cup S /\ \A n \in D : graph'.node[n] = graph.node[n]
      BY <2>5 DEF GrowsBy
    <2>8. OnlyKinds(graph', AllKinds \ {"recompute"})
      BY <2>6, <2>7, <1>2 DEF OnlyKinds
    <2>9. {n \in DOMAIN graph'.node : EpochOf(n) = "fwd"} = F
      BY <2>6, <2>7
    <2>10. gradients \in [F -> Seq(DOMAIN graph'.node)]
      <3>1. Seq(D) \subseteq Seq(DOMAIN graph'.node)
        BY <2>7, SeqMonotonic
      <3> QED
        BY <3>1, <1>2
    <2>11. /\ DOMAIN loopback' = DOMAIN loopback \cup {w} /\ loopback'[w] = sub
           /\ \A v \in DOMAIN loopback : v # w => loopback'[v] = loopback[v]
      BY <2>1 DEF With
    <2>12. w \notin DOMAIN loopback
      <3>1. \A v \in DOMAIN loopback : <<"lr", v>> \in D
        BY <1>2 DEF Updates
      <3>2. OneOf(<<"lr", w>>, OptKinds) /\ <<"lr", w>>[2] = w
        BY <2>6
      <3> QED
        BY <3>1, <3>2, <2>4
    <2>13. Updates(model, graph', loopback')
      <3>1. DOMAIN loopback' \subseteq model.trained \cap Weights \cap DOMAIN graph'.node
        BY <2>7, <2>11, <1>2, <1>3, <1>5 DEF Updates, w
      <3>2. ASSUME NEW v \in DOMAIN loopback'
            PROVE  /\ loopback'[v] = <<"opt_subtract", v>>
                   /\ {<<"lr", v>>, <<"opt_multiply", v>>, <<"opt_subtract", v>>, <<"grad_acc", v>>}
                         \subseteq DOMAIN graph'.node
                   /\ graph'.node[<<"opt_multiply", v>>] =
                         Node("op", "Multiply", "opt", <<<<"grad_acc", v>>, <<"lr", v>>>>)
                   /\ graph'.node[<<"opt_subtract", v>>] =
                         Node("op", "Subtract", "opt", <<v, <<"opt_multiply", v>>>>)
        <4>1. CASE v = w
          BY <4>1, <2>3, <2>5, <2>7, <2>11
        <4>2. CASE v # w
          <5>1. v \in DOMAIN loopback
            BY <4>2, <2>11
          <5>2. /\ loopback[v] = <<"opt_subtract", v>>
                /\ {<<"lr", v>>, <<"opt_multiply", v>>, <<"opt_subtract", v>>, <<"grad_acc", v>>}
                      \subseteq D
                /\ graph.node[<<"opt_multiply", v>>] =
                      Node("op", "Multiply", "opt", <<<<"grad_acc", v>>, <<"lr", v>>>>)
                /\ graph.node[<<"opt_subtract", v>>] =
                      Node("op", "Subtract", "opt", <<v, <<"opt_multiply", v>>>>)
            BY <5>1, <1>2 DEF Updates
          <5> QED
            BY <5>1, <5>2, <4>2, <2>7, <2>11
        <4> QED
          BY <4>1, <4>2
      <3>3. \A n \in DOMAIN graph'.node :
               OneOf(n, OptKinds) => n[2] \in DOMAIN loopback' /\ n = <<n[1], n[2]>>
        BY <2>6, <2>7, <2>11, <1>2 DEF Updates
      <3> QED
        BY <3>1, <3>2, <3>3 DEF Updates
    <2>14. todo' \in Seq(DOMAIN graph'.node)
      <3>1. Seq(D) \subseteq Seq(DOMAIN graph'.node)
        BY <2>7, SeqMonotonic
      <3> QED
        BY <3>1, <1>3
    <2>15. \A n \in DOMAIN graph'.node : OneOf(n, OptKinds) => n[2] \notin ToSet(todo')
      BY <2>6, <2>7, <1>2, <1>3
    <2>16. AllRead(graph')
      <3> SUFFICES ASSUME NEW b \in DOMAIN graph'.node, OneOf(b, GradKinds) PROVE Read(graph', b)
        BY DEF AllRead
      <3>1. b \in D
        BY <2>6, <2>7
      <3>2. Read(graph, b)
        BY <3>1, <1>2 DEF AllRead
      <3> QED
        BY <3>2, <2>5, ReadsGrow
    <2>17. Seeded(model, graph', {})
      BY <2>7, <1>2 DEF Seeded
    <2>18. SameForwards(graph, graph')
      BY <2>7, <2>9 DEF SameForwards, Forwards
    <2>19. StaysIn(graph, graph')
      BY <2>7 DEF StaysIn
    <2> QED
      BY <2>5, <2>8, <2>9, <2>10, <2>13, <2>14, <2>15, <2>16, <2>17, <2>18, <2>19, <1>2, <1>3
         DEF IsOptimizing
  <1> QED
    BY <1>4, <1>5

\* h is g without some of the clones.
OnlyClonesGone(g, h) ==
    /\ DOMAIN h.node \subseteq DOMAIN g.node
    /\ \A n \in DOMAIN h.node : h.node[n] = g.node[n]
    /\ \A n \in DOMAIN g.node : OneOf(n, {"recompute"}) \/ n \in DOMAIN h.node

\* Nothing but clones hangs on a clone that nobody reads.
LEMMA RemoveCloneKeeps ==
    ASSUME NEW m, NEW g, NEW lb, IsTraced(m), Well(g), Listed(m, g), IsTrainable(m, g, lb),
           NEW n \in DOMAIN g.node, OneOf(n, {"recompute"}), Users(g, n) = <<>>
    PROVE  /\ Well(RemoveNode(g, n)) /\ Listed(m, RemoveNode(g, n))
           /\ IsTrainable(m, RemoveNode(g, n), lb)
           /\ DOMAIN RemoveNode(g, n).node = DOMAIN g.node \ {n}
           /\ SameForwards(g, RemoveNode(g, n)) /\ OnlyClonesGone(g, RemoveNode(g, n))
  <1> DEFINE h == RemoveNode(g, n)
             D == DOMAIN g.node
  <1>1. IsGraph(g) /\ Acyclic(g) /\ \A x \in D : Whole(x, g.node[x])
    BY DEF Well
  <1>2. \A x \in D : n \notin ToSet(g.node[x].ins)
    BY <1>1, UsersAre
  <1>3. n \notin Leaves /\ n[1] = "recompute"
    BY DEF OneOf
  <1>4. n \notin ToSet(g.inputs) /\ n \notin ToSet(g.outputs)
    <2>1. n \notin ToSet(g.inputs)
      BY <1>3 DEF Listed, OneOf, Leaves
    <2>2. ToSet(g.outputs) = {Output(t) : t \in ToSet(m.outs)}
      BY OutputsAre DEF Listed, OutputNodes
    <2> QED
      BY <2>1, <2>2, <1>3 DEF Output
  <1>5. /\ IsGraph(h) /\ DOMAIN h.node = D \ {n}
        /\ \A x \in D \ {n} : h.node[x] = g.node[x]
        /\ h.inputs = g.inputs /\ h.outputs = g.outputs /\ Acyclic(h)
    BY <1>1, <1>2, <1>4, RemoveNodeIs
  <1> HIDE DEF h
  <1>6. Well(h)
    BY <1>1, <1>5 DEF Well
  <1>7. Listed(m, h)
    BY <1>5 DEF Listed
  <1>8. Updates(m, h, lb)
    <2>1. \A w : /\ <<"lr", w>> # n /\ <<"opt_multiply", w>> # n /\ <<"opt_subtract", w>> # n
                 /\ <<"grad_acc", w>> # n
      BY <1>3
    <2>2. \A w \in Weights : w # n
      BY <1>3 DEF Leaves
    <2>3. Updates(m, g, lb)
      BY DEF IsTrainable
    <2>4. DOMAIN lb \subseteq m.trained \cap Weights \cap DOMAIN h.node
      BY <2>2, <2>3, <1>5 DEF Updates
    <2>5. ASSUME NEW w \in DOMAIN lb
          PROVE  /\ lb[w] = <<"opt_subtract", w>>
                 /\ {<<"lr", w>>, <<"opt_multiply", w>>, <<"opt_subtract", w>>, <<"grad_acc", w>>}
                       \subseteq DOMAIN h.node
                 /\ h.node[<<"opt_multiply", w>>] =
                       Node("op", "Multiply", "opt", <<<<"grad_acc", w>>, <<"lr", w>>>>)
                 /\ h.node[<<"opt_subtract", w>>] =
                       Node("op", "Subtract", "opt", <<w, <<"opt_multiply", w>>>>)
      <3>1. /\ lb[w] = <<"opt_subtract", w>>
            /\ {<<"lr", w>>, <<"opt_multiply", w>>, <<"opt_subtract", w>>, <<"grad_acc", w>>}
                  \subseteq D
            /\ g.node[<<"opt_multiply", w>>] =
                  Node("op", "Multiply", "opt", <<<<"grad_acc", w>>, <<"lr", w>>>>)
            /\ g.node[<<"opt_subtract", w>>] =
                  Node("op", "Subtract", "opt", <<w, <<"opt_multiply", w>>>>)
        BY <2>3 DEF Updates
      <3> QED
        BY <3>1, <2>1, <1>5
    <2>6. \A x \in DOMAIN h.node : OneOf(x, OptKinds) => x[2] \in DOMAIN lb /\ x = <<x[1], x[2]>>
      BY <2>3, <1>5 DEF Updates
    <2> QED
      BY <2>4, <2>5, <2>6 DEF Updates
  <1>9. AllRead(h)
    <2> SUFFICES ASSUME NEW b \in DOMAIN h.node, OneOf(b, GradKinds) PROVE Read(h, b)
      BY DEF AllRead
    <2>1. PICK u \in D : b \in ToSet(g.node[u].ins)
      BY <1>5 DEF IsTrainable, AllRead, Read
    <2>2. u # n
      <3> SUFFICES ASSUME u = n PROVE FALSE
        OBVIOUS
      <3>1. MayRead(n, g.node[n].role, b)
        BY <2>1, <1>1 DEF Whole, Fits
      <3>2. EpochOf(b) = "fwd" \/ OneOf(b, {"recompute"})
        BY <3>1 DEF MayRead
      <3>3. EpochOf(b) = "bwd"
        BY GradientsAre
      <3> QED
        BY <3>2, <3>3 DEF OneOf, GradKinds
    <2> QED
      BY <2>1, <2>2, <1>5 DEF Read
  <1>10. Seeded(m, h, {})
    <2>1. \A o : <<"gradient", o>> # n
      BY <1>3
    <2> QED
      BY <2>1, <1>5 DEF IsTrainable, Seeded
  <1>11. SameForwards(g, h)
    <2>1. EpochOf(n) # "fwd"
      BY <1>3 DEF EpochOf, FwdKinds, OptKinds
    <2> QED
      BY <2>1, <1>5 DEF SameForwards, Forwards
  <1>12. OnlyClonesGone(g, h)
    BY <1>5 DEF OnlyClonesGone
  <1> QED
    BY <1>5, <1>6, <1>7, <1>8, <1>9, <1>10, <1>11, <1>12 DEF h, IsTrainable

\* What is left of a graph after each of the nodes of s had its turn.
LeftUpTo(g, s, n, left) ==
    left = [i \in 0..n |->
               IF i = 0 THEN g
               ELSE IF Users(left[i - 1], s[i]) = <<>> THEN RemoveNode(left[i - 1], s[i])
                                                       ELSE left[i - 1]]

\* The function Pruned chooses exists.
LEMMA PrunedDefined ==
    ASSUME NEW g, NEW T, NEW s \in Seq(T)
    PROVE  \E left : LeftUpTo(g, s, Len(s), left) /\ Pruned(g, s) = left[Len(s)]
  <1> DEFINE Good == {n \in Nat : \E left : LeftUpTo(g, s, n, left)}
  <1>1. 0 \in Good
    <2> DEFINE left == [i \in 0..0 |-> g]
    <2>1. LeftUpTo(g, s, 0, left)
      BY DEF LeftUpTo
    <2> QED
      BY <2>1
  <1>2. ASSUME NEW n \in Nat, n \in Good PROVE n + 1 \in Good
    <2>1. PICK left : LeftUpTo(g, s, n, left)
      BY <1>2
    <2> DEFINE next == IF Users(left[n], s[n + 1]) = <<>> THEN RemoveNode(left[n], s[n + 1])
                                                          ELSE left[n]
               more == [i \in 0..(n + 1) |-> IF i = n + 1 THEN next ELSE left[i]]
    <2>2. LeftUpTo(g, s, n + 1, more)
      <3>1. \A i \in 0..n : more[i] = left[i]
        OBVIOUS
      <3>2. \A i \in 0..n : left[i] = IF i = 0 THEN g
               ELSE IF Users(left[i - 1], s[i]) = <<>> THEN RemoveNode(left[i - 1], s[i])
                                                       ELSE left[i - 1]
        BY <2>1 DEF LeftUpTo
      <3>3. ASSUME NEW i \in 0..(n + 1)
            PROVE  more[i] = IF i = 0 THEN g
               ELSE IF Users(more[i - 1], s[i]) = <<>> THEN RemoveNode(more[i - 1], s[i])
                                                       ELSE more[i - 1]
        <4>1. CASE i = n + 1
          <5>1. i - 1 = n /\ n \in 0..n /\ i # 0
            BY <4>1
          <5>2. more[i] = next /\ more[i - 1] = left[n]
            BY <4>1, <5>1
          <5> QED
            BY <4>1, <5>1, <5>2
        <4>2. CASE i \in 1..n
          <5>1. i - 1 \in 0..n /\ i \in 0..n
            BY <4>2
          <5>2. more[i] = left[i] /\ more[i - 1] = left[i - 1]
            BY <5>1, <3>1
          <5> HIDE DEF more
          <5> QED
            BY <4>2, <5>1, <5>2, <3>2
        <4>3. CASE i = 0
          BY <4>3, <3>1, <3>2
        <4> QED
          BY <4>1, <4>2, <4>3
      <3> HIDE DEF more, next
      <3> QED
        BY <3>3 DEF LeftUpTo, more
    <2> QED
      BY <2>2
  <1>3. Len(s) \in Good
    <2> HIDE DEF Good
    <2> QED
      BY <1>1, <1>2, SetInduction
  <1>4. PICK left : LeftUpTo(g, s, Len(s), left)
    BY <1>3
  <1> DEFINE chosen == CHOOSE f : LeftUpTo(g, s, Len(s), f)
  <1>5. LeftUpTo(g, s, Len(s), chosen)
    BY <1>4
  <1>6. Pruned(g, s) = chosen[Len(s)]
    BY DEF Pruned, LeftUpTo
  <1> QED
    BY <1>5, <1>6

\* Pruning clones leaves what is trained.
LEMMA PrunedKeeps ==
    ASSUME NEW m, IsTraced(m), NEW g, NEW lb, Well(g), Listed(m, g), IsTrainable(m, g, lb),
           NEW s \in Seq(DOMAIN g.node), Distinct(s), \A n \in ToSet(s) : OneOf(n, {"recompute"})
    PROVE  /\ Well(Pruned(g, s)) /\ Listed(m, Pruned(g, s)) /\ IsTrainable(m, Pruned(g, s), lb)
           /\ SameForwards(g, Pruned(g, s)) /\ OnlyClonesGone(g, Pruned(g, s))
  <1>1. PICK left : LeftUpTo(g, s, Len(s), left) /\ Pruned(g, s) = left[Len(s)]
    BY PrunedDefined
  <1>2. DOMAIN s = 1..Len(s) /\ Len(s) \in Nat /\ \A i \in DOMAIN s : s[i] \in ToSet(s)
    BY Entries
  <1>3. left[0] = g /\ \A i \in 1..Len(s) :
           left[i] = IF Users(left[i - 1], s[i]) = <<>> THEN RemoveNode(left[i - 1], s[i])
                                                        ELSE left[i - 1]
    BY <1>1, <1>2 DEF LeftUpTo
  <1> DEFINE Done(i) == /\ Well(left[i]) /\ Listed(m, left[i]) /\ IsTrainable(m, left[i], lb)
                        /\ SameForwards(g, left[i]) /\ OnlyClonesGone(g, left[i])
                        /\ \A j \in (i + 1)..Len(s) : s[j] \in DOMAIN left[i].node
             Good == {i \in Nat : i <= Len(s) => Done(i)}
  <1>4. 0 \in Good
    BY <1>2, <1>3 DEF SameForwards, OnlyClonesGone
  <1>5. ASSUME NEW i \in Nat, i + 1 <= Len(s), Done(i) PROVE Done(i + 1)
    <2>1. i + 1 \in 1..Len(s) /\ (i + 1) - 1 = i /\ i + 1 \in DOMAIN s
      BY <1>2, <1>5
    <2>2. left[i + 1] = IF Users(left[i], s[i + 1]) = <<>> THEN RemoveNode(left[i], s[i + 1])
                                                           ELSE left[i]
      BY <2>1, <1>3
    <2>3. s[i + 1] \in DOMAIN left[i].node /\ OneOf(s[i + 1], {"recompute"})
      BY <2>1, <1>2, <1>5
    <2>4. \A j \in ((i + 1) + 1)..Len(s) : j \in (i + 1)..Len(s) /\ j \in DOMAIN s /\ j # i + 1
      BY <1>2
    <2>5. \A j \in ((i + 1) + 1)..Len(s) : s[j] \in DOMAIN left[i].node /\ s[j] # s[i + 1]
      BY <2>1, <2>4, <1>5 DEF Distinct
    <2>6. CASE Users(left[i], s[i + 1]) = <<>>
      <3>1. left[i + 1] = RemoveNode(left[i], s[i + 1])
        BY <2>2, <2>6
      <3>2. Well(left[i]) /\ Listed(m, left[i]) /\ IsTrainable(m, left[i], lb)
        BY <1>5
      <3>3. /\ Well(left[i + 1]) /\ Listed(m, left[i + 1]) /\ IsTrainable(m, left[i + 1], lb)
            /\ DOMAIN left[i + 1].node = DOMAIN left[i].node \ {s[i + 1]}
            /\ SameForwards(left[i], left[i + 1]) /\ OnlyClonesGone(left[i], left[i + 1])
        BY <3>1, <3>2, <2>3, <2>6, RemoveCloneKeeps
      <3>4. SameForwards(g, left[i + 1])
        BY <3>3, <1>5 DEF SameForwards
      <3>5. OnlyClonesGone(g, left[i + 1])
        BY <3>3, <1>5 DEF OnlyClonesGone
      <3> QED
        BY <3>3, <3>4, <3>5, <2>5
    <2>7. CASE Users(left[i], s[i + 1]) # <<>>
      BY <2>2, <2>5, <2>7, <1>5
    <2> QED
      BY <2>6, <2>7
  <1>6. \A i \in Nat : i \in Good
    <2>1. ASSUME NEW i \in Nat, i \in Good PROVE i + 1 \in Good
      <3> SUFFICES ASSUME i + 1 <= Len(s) PROVE Done(i + 1)
        OBVIOUS
      <3>1. i <= Len(s)
        BY <1>2
      <3>2. Done(i)
        BY <3>1, <2>1
      <3> HIDE DEF Done
      <3> QED
        BY <3>2, <1>5
    <2> HIDE DEF Good
    <2> QED
      BY <2>1, <1>4, SetInduction
  <1>7. Done(Len(s))
    <2> HIDE DEF Done
    <2> QED
      BY <1>2, <1>6
  <1> QED
    BY <1>1, <1>7

\* A record with other operands.
LEMMA RewrittenIs ==
    ASSUME NEW D, NEW E, NEW nd \in Records(D), NEW t \in Seq(E)
    PROVE  /\ [nd EXCEPT !.ins = t] \in Records(E)
           /\ Rereads([nd EXCEPT !.ins = t], nd, t)
  BY DEF Records, Rereads

\* h is g with a clone of each op of O behind its operands' clones, and with these
\* clones in place of the ops wherever the backward pass reads one.
IsCloning(s, t, O) == t = [i \in DOMAIN s |-> IF s[i] \in O THEN <<"recompute", s[i]>> ELSE s[i]]
Recloned(s, t, O) ==
    /\ IsCloning(s, t, O)
    /\ DOMAIN t = DOMAIN s /\ Len(t) = Len(s)
    /\ \A y \in ToSet(t) : \/ y \in ToSet(s) /\ y \notin O
                           \/ \E x \in ToSet(s) \cap O : y = <<"recompute", x>>
    /\ \A x \in ToSet(s) \ O : x \in ToSet(t)

IsRecomputed(g, h, O) ==
    /\ IsGraph(h) /\ h.inputs = g.inputs /\ h.outputs = g.outputs
    /\ DOMAIN h.node = DOMAIN g.node \cup {<<"recompute", x>> : x \in O}
    /\ \A n \in DOMAIN g.node :
          IF EpochOf(n) = "bwd"
          THEN /\ Rereads(h.node[n], g.node[n], h.node[n].ins)
               /\ Recloned(g.node[n].ins, h.node[n].ins, O)
          ELSE h.node[n] = g.node[n]
    /\ \A x \in O : LET nd == h.node[<<"recompute", x>>]
                    IN  /\ nd.type = "op" /\ nd.epoch = "bwd" /\ nd.role = g.node[x].role
                        /\ Recloned(g.node[x].ins, nd.ins, O)

ForwardOps(g) == {n \in DOMAIN g.node : TypeOf(n) = "op" /\ EpochOf(n) = "fwd"}

\* The clones keep every node what its name says.
LEMMA RecomputedFits ==
    ASSUME NEW g, Well(g), NEW h, IsRecomputed(g, h, ForwardOps(g))
    PROVE  \A n \in DOMAIN h.node : Whole(n, h.node[n])
  <1> DEFINE D == DOMAIN g.node
             O == ForwardOps(g)
  <1>1. IsGraph(g) /\ \A n \in D : Whole(n, g.node[n])
    BY DEF Well
  <1>2. /\ DOMAIN h.node = D \cup {<<"recompute", x>> : x \in O}
        /\ \A n \in D :
              IF EpochOf(n) = "bwd"
              THEN /\ Rereads(h.node[n], g.node[n], h.node[n].ins)
                   /\ Recloned(g.node[n].ins, h.node[n].ins, O)
              ELSE h.node[n] = g.node[n]
        /\ \A x \in O : LET nd == h.node[<<"recompute", x>>]
                        IN  /\ nd.type = "op" /\ nd.epoch = "bwd" /\ nd.role = g.node[x].role
                            /\ Recloned(g.node[x].ins, nd.ins, O)
    BY DEF IsRecomputed
  <1>3. \A x : LET c == <<"recompute", x>>
               IN  /\ c \notin Leaves /\ c[1] = "recompute" /\ c[1] \in AllKinds
                   /\ TypeOf(c) = "op" /\ EpochOf(c) = "bwd" /\ RolesOf(c) = DOMAIN OpArity
                   /\ OneOf(c, {"recompute"}) /\ ~OneOf(c, SinkKinds) /\ ~OneOf(c, {"bw"})
                   /\ ~OneOf(c, GradKinds)
    <2> SUFFICES ASSUME NEW c, c \notin Leaves, c[1] = "recompute"
                 PROVE  /\ c[1] \in AllKinds
                        /\ TypeOf(c) = "op" /\ EpochOf(c) = "bwd" /\ RolesOf(c) = DOMAIN OpArity
                        /\ OneOf(c, {"recompute"}) /\ ~OneOf(c, SinkKinds) /\ ~OneOf(c, {"bw"})
                        /\ ~OneOf(c, GradKinds)
      BY NotLeaves
    <2>1. OneOf(c, {"bw", "combine", "recompute"})
      BY DEF OneOf
    <2> QED
      BY <2>1, BackwardOpsAre DEF OneOf, SinkKinds, GradKinds, AllKinds
  <1>4. \A x \in O : x \in D /\ TypeOf(x) = "op" /\ EpochOf(x) = "fwd"
    BY DEF ForwardOps
  <1>5. ASSUME NEW n \in D PROVE Whole(n, h.node[n])
    <2>1. CASE EpochOf(n) # "bwd"
      BY <2>1, <1>1, <1>2
    <2>2. CASE EpochOf(n) = "bwd"
      <3>1. /\ Rereads(h.node[n], g.node[n], h.node[n].ins)
            /\ Recloned(g.node[n].ins, h.node[n].ins, O)
        BY <2>2, <1>2
      <3>2. Whole(n, g.node[n])
        BY <1>1
      <3>3. ASSUME NEW y \in ToSet(h.node[n].ins) PROVE MayRead(n, h.node[n].role, y)
        <4>1. h.node[n].role = g.node[n].role
          BY <3>1 DEF Rereads
        <4>2. CASE y \in ToSet(g.node[n].ins)
          BY <4>1, <4>2, <3>2 DEF Whole, Fits
        <4>3. CASE \E x \in ToSet(g.node[n].ins) \cap O : y = <<"recompute", x>>
          <5>1. PICK x \in ToSet(g.node[n].ins) \cap O : y = <<"recompute", x>>
            BY <4>3
          <5>2. MayRead(n, g.node[n].role, x)
            BY <5>1, <3>2 DEF Whole, Fits
          <5>3. ~OneOf(x, GradKinds)
            BY <5>1, <1>4, GradientsAre
          <5>4. TypeOf(y) = "op" /\ EpochOf(y) = "bwd" /\ OneOf(y, {"recompute"})
            BY <5>1, <1>3
          <5> QED
            BY <5>2, <5>3, <5>4, <4>1, <2>2 DEF MayRead
        <4> QED
          BY <3>1, <4>2, <4>3 DEF Recloned
      <3> QED
        BY <3>1, <3>2, <3>3 DEF Whole, Fits, Rereads, Recloned, Ports
    <2> QED
      BY <2>1, <2>2
  <1>6. ASSUME NEW x \in O PROVE Whole(<<"recompute", x>>, h.node[<<"recompute", x>>])
    <2> DEFINE c == <<"recompute", x>>
               nd == h.node[c]
    <2>1. /\ nd.type = "op" /\ nd.epoch = "bwd" /\ nd.role = g.node[x].role
          /\ Recloned(g.node[x].ins, nd.ins, O)
      BY <1>2
    <2>2. /\ c \notin Leaves /\ c[1] = "recompute" /\ c[1] \in AllKinds
          /\ TypeOf(c) = "op" /\ EpochOf(c) = "bwd" /\ RolesOf(c) = DOMAIN OpArity
          /\ OneOf(c, {"recompute"}) /\ ~OneOf(c, SinkKinds) /\ ~OneOf(c, {"bw"})
          /\ ~OneOf(c, GradKinds)
      BY <1>3
    <2>3. Whole(x, g.node[x]) /\ TypeOf(x) = "op" /\ EpochOf(x) = "fwd"
      BY <1>1, <1>4
    <2> HIDE DEF c, nd
    <2>4. nd.role \in DOMAIN OpArity
      <3>1. x \notin Leaves /\ x[1] \in FwdKinds /\ x[1] # "output"
        <4>1. x \notin Leaves /\ x[1] # "output"
          BY <2>3 DEF TypeOf
        <4> QED
          BY <4>1, <2>3 DEF EpochOf
      <3>2. RolesOf(x) = {"Add", "Multiply", "Exp", "Nop"}
        BY <3>1 DEF RolesOf, FwdKinds, Leaves
      <3> QED
        BY <3>2, <2>1, <2>3 DEF Whole, Fits, OpArity
    <2>5. ASSUME NEW y \in ToSet(nd.ins) PROVE MayRead(c, nd.role, y)
      <3>1. CASE y \in ToSet(g.node[x].ins) /\ y \notin O
        <4>1. MayRead(x, g.node[x].role, y)
          BY <3>1, <2>3 DEF Whole, Fits
        <4> QED
          BY <4>1, <2>2, <2>3 DEF MayRead
      <3>2. CASE \E z \in ToSet(g.node[x].ins) \cap O : y = <<"recompute", z>>
        <4>1. TypeOf(y) = "op" /\ EpochOf(y) = "bwd" /\ OneOf(y, {"recompute"})
          BY <3>2, <1>3
        <4> QED
          BY <4>1, <2>2 DEF MayRead
      <3> QED
        BY <3>1, <3>2, <2>1 DEF Recloned
    <2>6. Len(nd.ins) = OpArity[nd.role]
      BY <2>1, <2>3 DEF Whole, Fits, Ports, Recloned
    <2>7. Whole(c, nd)
      BY <2>1, <2>2, <2>4, <2>5, <2>6 DEF Whole, Fits, Ports
    <2> QED
      BY <2>7 DEF c, nd
  <1> QED
    BY <1>2, <1>5, <1>6

\* The clones close no cycle: they only read forward inputs and clones.
LEMMA RecomputedAcyclic ==
    ASSUME NEW g, Well(g), NEW h, IsRecomputed(g, h, ForwardOps(g)),
           \A n \in DOMAIN g.node : ~OneOf(n, {"recompute"})
    PROVE  Acyclic(h)
  <1> DEFINE D == DOMAIN g.node
             O == ForwardOps(g)
             C == {<<"recompute", x>> : x \in O}
  <1>1. IsGraph(g) /\ Acyclic(g) /\ \A n \in D : Whole(n, g.node[n])
    BY DEF Well
  <1>2. PICK r \in Ranks(g) : TRUE
    BY <1>1 DEF Acyclic
  <1>3. PICK K \in Nat : \A n \in D : r[n] < K
    BY <1>1, RanksBounded
  <1>4. r \in [D -> Nat] /\ \A n \in D : \A y \in ToSet(g.node[n].ins) : r[y] < r[n]
    BY <1>2 DEF Ranks
  <1>5. \A x \in O : x \in D /\ EpochOf(x) = "fwd"
    BY DEF ForwardOps
  <1>6. \A n \in D : \A y \in ToSet(g.node[n].ins) :
           y \in D /\ (EpochOf(n) = "fwd" => EpochOf(y) = "fwd")
    <2> SUFFICES ASSUME NEW n \in D, NEW y \in ToSet(g.node[n].ins)
                 PROVE  y \in D /\ (EpochOf(n) = "fwd" => EpochOf(y) = "fwd")
      OBVIOUS
    <2>1. g.node[n].ins \in Seq(D)
      BY <1>1 DEF IsGraph, Records
    <2>2. MayRead(n, g.node[n].role, y)
      BY <1>1 DEF Whole, Fits
    <2> QED
      BY <2>1, <2>2, Entries DEF MayRead
  <1>7. /\ DOMAIN h.node = D \cup C
        /\ \A n \in D :
              IF EpochOf(n) = "bwd"
              THEN Recloned(g.node[n].ins, h.node[n].ins, O)
              ELSE h.node[n] = g.node[n]
        /\ \A x \in O : Recloned(g.node[x].ins, h.node[<<"recompute", x>>].ins, O)
    BY DEF IsRecomputed
  <1>8. \A x : <<"recompute", x>> \notin D
    <2>1. \A x : OneOf(<<"recompute", x>>, {"recompute"})
      BY NotLeaves DEF OneOf
    <2> QED
      BY <2>1
  <1> DEFINE of(n) == IF EpochOf(n) = "fwd" THEN r[n] ELSE K + K + r[n]
             q == [n \in D \cup C |-> IF n \in D THEN of(n) ELSE K + r[n[2]]]
  <1>9. /\ \A n \in D : q[n] = of(n)
        /\ \A x \in O : q[<<"recompute", x>>] = K + r[x]
    BY <1>8
  <1>10. q \in [D \cup C -> Nat]
    BY <1>3, <1>4, <1>5
  <1> HIDE DEF O, q
  <1>11. ASSUME NEW n \in D, NEW y \in ToSet(h.node[n].ins) PROVE q[y] < q[n]
    <2>1. r[n] \in Nat
      BY <1>4
    <2>2. CASE y \in ToSet(g.node[n].ins)
      <3>1. y \in D /\ r[y] < r[n] /\ r[y] \in Nat /\ q[y] = of(y) /\ q[n] = of(n)
        BY <2>2, <1>4, <1>6, <1>9
      <3>2. EpochOf(n) = "fwd" => EpochOf(y) = "fwd"
        BY <2>2, <1>6
      <3> QED
        BY <3>1, <3>2, <2>1, <1>3
    <2>3. CASE EpochOf(n) = "bwd" /\ \E x \in ToSet(g.node[n].ins) \cap O : y = <<"recompute", x>>
      <3>1. PICK x \in ToSet(g.node[n].ins) \cap O : y = <<"recompute", x>>
        BY <2>3
      <3>2. q[y] = K + r[x] /\ r[x] < K /\ r[x] \in Nat
        BY <3>1, <1>3, <1>4, <1>5, <1>9
      <3>3. q[n] = K + K + r[n]
        BY <2>3, <1>9
      <3> QED
        BY <3>2, <3>3, <2>1
    <2> QED
      BY <2>2, <2>3, <1>7 DEF Recloned
  <1>12. ASSUME NEW x \in O, NEW y \in ToSet(h.node[<<"recompute", x>>].ins)
         PROVE  q[y] < q[<<"recompute", x>>]
    <2>1. q[<<"recompute", x>>] = K + r[x] /\ r[x] \in Nat /\ x \in D /\ EpochOf(x) = "fwd"
      BY <1>4, <1>5, <1>9
    <2>2. Recloned(g.node[x].ins, h.node[<<"recompute", x>>].ins, O)
      BY <1>7
    <2>3. CASE y \in ToSet(g.node[x].ins)
      <3>1. y \in D /\ r[y] < r[x] /\ r[y] \in Nat /\ q[y] = r[y]
        BY <2>1, <2>3, <1>4, <1>6, <1>9
      <3> QED
        BY <3>1, <2>1
    <2>4. CASE \E z \in ToSet(g.node[x].ins) \cap O : y = <<"recompute", z>>
      <3>1. PICK z \in ToSet(g.node[x].ins) \cap O : y = <<"recompute", z>>
        BY <2>4
      <3>2. q[y] = K + r[z] /\ r[z] < r[x] /\ r[z] \in Nat
        BY <3>1, <2>1, <1>4, <1>5, <1>9
      <3> QED
        BY <3>2, <2>1
    <2> QED
      BY <2>2, <2>3, <2>4 DEF Recloned
  <1>13. q \in Ranks(h)
    BY <1>7, <1>10, <1>11, <1>12 DEF Ranks
  <1> QED
    BY <1>13 DEF Acyclic

\* The ops that are cloned.
LEMMA ForwardOpsAre ==
    ASSUME NEW g, Well(g)
    PROVE  LET ops == OfEpoch(g, Only(TopologicalSort(g), ToSet(OfType(g, "op"))), "fwd")
           IN  ops \in Seq(DOMAIN g.node) /\ Distinct(ops) /\ ToSet(ops) = ForwardOps(g)
  <1> DEFINE D == DOMAIN g.node
             s == TopologicalSort(g)
             A == {n \in DOMAIN g.node : g.node[n].type = "op"}
             F == {n \in DOMAIN g.node : g.node[n].epoch = "fwd"}
             t == Only(s, ToSet(OfType(g, "op")))
  <1>1. IsGraph(g) /\ Acyclic(g) /\ \A n \in D : Whole(n, g.node[n])
    BY DEF Well
  <1>2. s \in Seq(D) /\ Distinct(s) /\ ToSet(s) = D
    BY <1>1, TopologicalSortSorts DEF Sorted
  <1>3. g.nodes \in Seq(D) /\ ToSet(g.nodes) = D
    BY <1>1 DEF IsGraph
  <1>4. ToSet(OfType(g, "op")) = A
    <2>1. ToSet(Only(g.nodes, A)) = ToSet(g.nodes) \cap A
      BY <1>3, OnlyMembers
    <2> QED
      BY <2>1, <1>3 DEF OfType
  <1>5. t \in Seq(D) /\ ToSet(t) = D \cap A /\ Distinct(t)
    BY <1>2, <1>4, OnlyMembers, OnlyDistinct
  <1> HIDE DEF s, t
  <1>6. Only(t, F) \in Seq(D) /\ ToSet(Only(t, F)) = ToSet(t) \cap F /\ Distinct(Only(t, F))
    BY <1>5, OnlyMembers, OnlyDistinct
  <1>7. D \cap A \cap F = ForwardOps(g)
    BY <1>1 DEF ForwardOps, Whole, Fits
  <1>8. OfEpoch(g, t, "fwd") = Only(t, F)
    BY DEF OfEpoch
  <1> QED
    BY <1>5, <1>6, <1>7, <1>8 DEF s, t

\* What is trained stays so with the clones.
LEMMA RecomputedTrains ==
    ASSUME NEW m, IsTraced(m), NEW g, Well(g), Listed(m, g), NEW lb, IsTrainable(m, g, lb),
           \A n \in DOMAIN g.node : ~OneOf(n, {"recompute"}),
           NEW h, IsRecomputed(g, h, ForwardOps(g))
    PROVE  Well(h) /\ Listed(m, h) /\ IsTrainable(m, h, lb)
  <1> DEFINE D == DOMAIN g.node
             O == ForwardOps(g)
             C == {<<"recompute", x>> : x \in O}
  <1>1. Well(h)
    BY RecomputedFits, RecomputedAcyclic DEF Well, IsRecomputed
  <1>2. /\ DOMAIN h.node = D \cup C
        /\ h.inputs = g.inputs /\ h.outputs = g.outputs
        /\ \A n \in D :
              IF EpochOf(n) = "bwd"
              THEN Recloned(g.node[n].ins, h.node[n].ins, O)
              ELSE h.node[n] = g.node[n]
    BY DEF IsRecomputed
  <1>3. \A c \in C : /\ c \notin Leaves /\ ~OneOf(c, GradKinds) /\ ~OneOf(c, OptKinds)
                     /\ ~OneOf(c, {"gradient"}) /\ ~OneOf(c, {"output"})
                     /\ c \notin ToSet(Activations)
    <2> SUFFICES ASSUME NEW c, c \notin Leaves, c[1] = "recompute"
                 PROVE  /\ ~OneOf(c, GradKinds) /\ ~OneOf(c, OptKinds)
                        /\ ~OneOf(c, {"gradient"}) /\ ~OneOf(c, {"output"})
                        /\ c \notin ToSet(Activations)
      BY NotLeaves
    <2> QED
      BY DEF OneOf, GradKinds, OptKinds, Leaves
  <1>4. Listed(m, h)
    BY <1>2, <1>3 DEF Listed
  <1>5. Updates(m, h, lb)
    <2>1. Updates(m, g, lb)
      BY DEF IsTrainable
    <2>2. \A w : EpochOf(<<"opt_multiply", w>>) = "opt" /\ EpochOf(<<"opt_subtract", w>>) = "opt"
      BY OptNodesAre DEF IsOptNode
    <2>3. \A w \in DOMAIN lb : /\ h.node[<<"opt_multiply", w>>] = g.node[<<"opt_multiply", w>>]
                               /\ h.node[<<"opt_subtract", w>>] = g.node[<<"opt_subtract", w>>]
      <3> SUFFICES ASSUME NEW w \in DOMAIN lb
                   PROVE  /\ h.node[<<"opt_multiply", w>>] = g.node[<<"opt_multiply", w>>]
                          /\ h.node[<<"opt_subtract", w>>] = g.node[<<"opt_subtract", w>>]
        OBVIOUS
      <3>1. <<"opt_multiply", w>> \in D /\ <<"opt_subtract", w>> \in D
        BY <2>1 DEF Updates
      <3> QED
        BY <3>1, <2>2, <1>2
    <2>4. \A n \in DOMAIN h.node : OneOf(n, OptKinds) => n \in D
      BY <1>2, <1>3
    <2>5. D \subseteq DOMAIN h.node
      BY <1>2
    <2> QED
      BY <2>1, <2>3, <2>4, <2>5 DEF Updates
  <1>6. AllRead(h)
    <2> SUFFICES ASSUME NEW b \in DOMAIN h.node, OneOf(b, GradKinds) PROVE Read(h, b)
      BY DEF AllRead
    <2>1. b \in D
      BY <1>2, <1>3
    <2>2. PICK u \in D : b \in ToSet(g.node[u].ins)
      BY <2>1 DEF IsTrainable, AllRead, Read
    <2>3. b \notin O
      BY GradientsAre DEF ForwardOps
    <2>4. b \in ToSet(h.node[u].ins)
      BY <2>2, <2>3, <1>2 DEF Recloned
    <2> QED
      BY <2>4, <1>2 DEF Read
  <1>7. Seeded(m, h, {})
    BY <1>2 DEF IsTrainable, Seeded
  <1> QED
    BY <1>1, <1>4, <1>5, <1>6, <1>7 DEF IsTrainable

\* U has the clones of O.
HasClones(T, O, U) == T \subseteq U /\ \A x \in O \cap T : <<"recompute", x>> \in U

\* The same of such a list, in one word.
LEMMA ReclonedIs ==
    ASSUME NEW T, NEW s \in Seq(T), NEW O, NEW U, HasClones(T, O, U), NEW t, IsCloning(s, t, O)
    PROVE  t \in Seq(U) /\ Recloned(s, t, O)
  <1>1. T \subseteq U /\ \A x \in O \cap T : <<"recompute", x>> \in U
    BY DEF HasClones
  <1>2. t = [i \in DOMAIN s |-> IF s[i] \in O THEN <<"recompute", s[i]>> ELSE s[i]]
    BY DEF IsCloning
  <1>3. DOMAIN s = 1..Len(s) /\ Len(s) \in Nat /\ \A i \in DOMAIN s : s[i] \in T /\ s[i] \in ToSet(s)
    BY Entries
  <1>4. t \in [1..Len(s) -> U]
    BY <1>1, <1>2, <1>3
  <1>5. t \in Seq(U) /\ DOMAIN t = 1..Len(s)
    BY <1>3, <1>4
  <1>6. Len(t) = Len(s)
    BY <1>3, <1>5
  <1>7. ASSUME NEW i \in DOMAIN s
        PROVE  \/ t[i] \in ToSet(s) /\ t[i] \notin O
               \/ \E x \in ToSet(s) \cap O : t[i] = <<"recompute", x>>
    BY <1>2, <1>3
  <1>8. \A x \in ToSet(s) \ O : x \in ToSet(t)
    BY <1>2, <1>3, <1>5 DEF ToSet
  <1> QED
    BY <1>3, <1>5, <1>6, <1>7, <1>8 DEF ToSet, Recloned

\* What insert_recompute_ops makes before it prunes.
LEMMA RecomputedIs ==
    ASSUME NEW g, Well(g), \A n \in DOMAIN g.node : ~OneOf(n, {"recompute"})
    PROVE  \E h, s : /\ Recomputed(g) = Pruned(h, s) /\ IsRecomputed(g, h, ForwardOps(g))
                     /\ s \in Seq(DOMAIN h.node) /\ Distinct(s)
                     /\ \A n \in ToSet(s) : OneOf(n, {"recompute"})
  <1> DEFINE D == DOMAIN g.node
             O == ForwardOps(g)
             ops == OfEpoch(g, Only(TopologicalSort(g), ToSet(OfType(g, "op"))), "fwd")
             Clone(n) == <<"recompute", n>>
             Clones(ins) == [i \in DOMAIN ins |->
                                IF ins[i] \in ToSet(ops) THEN Clone(ins[i]) ELSE ins[i]]
             clones == Clones(ops)
             rec == [c \in ToSet(clones) |->
                        Node("op", g.node[c[2]].role, "bwd", Clones(g.node[c[2]].ins))]
             cloned == AddNodes(g, clones, rec)
             rewired == [cloned EXCEPT !.node = [n \in DOMAIN cloned.node |->
                           IF HasNode(g, n) /\ g.node[n].epoch = "bwd"
                           THEN [g.node[n] EXCEPT !.ins = Clones(g.node[n].ins)] ELSE cloned.node[n]]]
             C == {<<"recompute", x>> : x \in O}
             E == D \cup C
  <1>1. Recomputed(g) = Pruned(rewired, Reverse(clones))
    BY DEF Recomputed
  <1>2. ops \in Seq(D) /\ Distinct(ops) /\ ToSet(ops) = O
    BY ForwardOpsAre
  <1>3. IsGraph(g) /\ \A n \in D : Whole(n, g.node[n]) /\ g.node[n] \in Records(D)
    BY DEF Well, IsGraph
  <1> HIDE DEF ops, O
  <1>4. ASSUME NEW s \in Seq(D)
        PROVE  Clones(s) \in Seq(E) /\ Recloned(s, Clones(s), O)
    <2>1. IsCloning(s, Clones(s), O)
      BY <1>2 DEF IsCloning
    <2>2. HasClones(D, O, E)
      BY DEF HasClones
    <2> HIDE DEF E, Clones
    <2> QED
      BY <2>1, <2>2, ReclonedIs
  <1>5. \A x : /\ OneOf(<<"recompute", x>>, {"recompute"}) /\ <<"recompute", x>>[2] = x
               /\ <<"recompute", x>> \notin D
    <2>1. \A x : OneOf(<<"recompute", x>>, {"recompute"}) /\ <<"recompute", x>>[2] = x
      BY NotLeaves DEF OneOf
    <2> QED
      BY <2>1
  <1>6. clones \in Seq(C) /\ Distinct(clones) /\ ToSet(clones) = C
    <2>1. DOMAIN ops = 1..Len(ops) /\ Len(ops) \in Nat /\ \A i \in DOMAIN ops : ops[i] \in O
      BY <1>2, Entries
    <2>2. clones = [i \in 1..Len(ops) |-> <<"recompute", ops[i]>>]
      BY <2>1, <1>2
    <2>3. clones \in [1..Len(ops) -> C]
      BY <2>1, <2>2
    <2>4. clones \in Seq(C)
      BY <2>1, <2>3
    <2>5. Distinct(clones)
      <3> SUFFICES ASSUME NEW i \in 1..Len(ops), NEW j \in 1..Len(ops), clones[i] = clones[j]
                   PROVE  i = j
        BY <2>2 DEF Distinct
      <3>1. ops[i] = ops[j]
        BY <2>2
      <3> QED
        BY <3>1, <2>1, <1>2 DEF Distinct
    <2>6. ToSet(clones) = C
      <3>1. ToSet(clones) \subseteq C
        BY <2>4, Entries
      <3>2. ASSUME NEW x \in O PROVE <<"recompute", x>> \in ToSet(clones)
        <4>1. PICK i \in DOMAIN ops : ops[i] = x
          BY <1>2 DEF ToSet
        <4> QED
          BY <4>1, <2>1, <2>2 DEF ToSet
      <3> QED
        BY <3>1, <3>2
    <2> QED
      BY <2>4, <2>5, <2>6
  <1>7. \A x \in O : /\ x \in D /\ g.node[x].ins \in Seq(D) /\ g.node[x].role \in Roles
    BY <1>3 DEF O, ForwardOps, Records
  <1>8. ASSUME NEW x \in O
        PROVE  LET nd == rec[<<"recompute", x>>]
               IN  /\ nd \in Records(E)
                   /\ nd.type = "op" /\ nd.epoch = "bwd" /\ nd.role = g.node[x].role
                   /\ Recloned(g.node[x].ins, nd.ins, O)
    <2> DEFINE t == Clones(g.node[x].ins)
    <2>1. t \in Seq(E) /\ Recloned(g.node[x].ins, t, O)
      BY <1>4, <1>7
    <2>2. <<"recompute", x>> \in ToSet(clones)
      BY <1>6
    <2>3. rec[<<"recompute", x>>] = Node("op", g.node[x].role, "bwd", t)
      BY <2>2, <1>5
    <2> HIDE DEF t, rec, E
    <2>4. "op" \in Types /\ "bwd" \in Epochs /\ g.node[x].role \in Roles
      BY <1>7 DEF Types, Epochs
    <2>5. LET nd == Node("op", g.node[x].role, "bwd", t)
          IN  nd \in Records(E) /\ nd.type = "op" /\ nd.epoch = "bwd"
              /\ nd.role = g.node[x].role /\ nd.ins = t
      BY <2>1, <2>4, NodeIs
    <2> QED
      BY <2>1, <2>3, <2>5
  <1>9. /\ IsGraph(cloned)
        /\ DOMAIN cloned.node = E
        /\ \A n \in D : cloned.node[n] = g.node[n]
        /\ \A c \in C : cloned.node[c] = rec[c]
        /\ cloned.inputs = g.inputs /\ cloned.outputs = g.outputs
    <2> HIDE DEF clones, rec
    <2>1. \A i \in DOMAIN clones : clones[i] \in C
      BY <1>6, Entries
    <2>2. \A i \in DOMAIN clones : rec[clones[i]] \in Records(DOMAIN g.node \cup ToSet(clones))
      BY <2>1, <1>6, <1>8
    <2>3. ToSet(clones) \cap DOMAIN g.node = {}
      BY <1>5, <1>6
    <2>4. IsGraph(cloned) /\ IsExtension(g, cloned, ToSet(clones), rec)
      BY <1>3, <1>6, <2>2, <2>3, AddNodesIs
    <2> QED
      BY <2>4, <1>6 DEF IsExtension
  <1> HIDE DEF cloned, clones, rec
  <1>10. rewired.node = [n \in E |-> IF n \in D /\ g.node[n].epoch = "bwd"
                                     THEN [g.node[n] EXCEPT !.ins = Clones(g.node[n].ins)]
                                     ELSE cloned.node[n]]
         /\ rewired.nodes = cloned.nodes
         /\ rewired.inputs = g.inputs /\ rewired.outputs = g.outputs
         /\ rewired = [nodes |-> rewired.nodes, node |-> rewired.node,
                       inputs |-> rewired.inputs, outputs |-> rewired.outputs]
    <2>1. cloned = [nodes |-> cloned.nodes, node |-> cloned.node,
                    inputs |-> cloned.inputs, outputs |-> cloned.outputs]
      BY <1>9 DEF IsGraph
    <2> QED
      BY <2>1, <1>9 DEF HasNode
  <1>11. \A n \in D : g.node[n].epoch = EpochOf(n)
    BY <1>3 DEF Whole, Fits
  <1>12. ASSUME NEW n \in D, EpochOf(n) = "bwd"
         PROVE  /\ rewired.node[n] \in Records(E)
                /\ Rereads(rewired.node[n], g.node[n], rewired.node[n].ins)
                /\ Recloned(g.node[n].ins, rewired.node[n].ins, O)
    <2> DEFINE t == Clones(g.node[n].ins)
    <2>1. g.node[n] \in Records(D) /\ g.node[n].ins \in Seq(D)
      BY <1>3 DEF Records
    <2>2. t \in Seq(E) /\ Recloned(g.node[n].ins, t, O)
      BY <2>1, <1>4
    <2>3. rewired.node[n] = [g.node[n] EXCEPT !.ins = t]
      <3>1. n \in E /\ g.node[n].epoch = "bwd"
        BY <1>11, <1>12
      <3> HIDE DEF E, Clones, rewired
      <3> QED
        BY <3>1, <1>10
    <2> HIDE DEF t, E
    <2>4. [g.node[n] EXCEPT !.ins = t] \in Records(E) /\ Rereads([g.node[n] EXCEPT !.ins = t], g.node[n], t)
      BY <2>1, <2>2, RewrittenIs
    <2>5. [g.node[n] EXCEPT !.ins = t].ins = t
      BY <2>4 DEF Rereads
    <2> QED
      BY <2>2, <2>3, <2>4, <2>5
  <1>13. \A n \in E : EpochOf(n) # "bwd" \/ n \notin D => rewired.node[n] = cloned.node[n]
    BY <1>10, <1>11
  <1>14. DOMAIN rewired.node = E
    BY <1>10
  <1> HIDE DEF rewired
  <1>15. IsGraph(rewired)
    <2>1. \A n \in E : rewired.node[n] \in Records(E)
      BY <1>12, <1>13, <1>9 DEF IsGraph
    <2>2. /\ cloned.nodes \in Seq(E) /\ ToSet(cloned.nodes) = E /\ Distinct(cloned.nodes)
          /\ g.inputs \in Seq(E) /\ g.outputs \in Seq(E)
      BY <1>9 DEF IsGraph
    <2>3. rewired.node \in [E -> Records(E)]
      BY <2>1, <1>10
    <2> QED
      BY <2>1, <2>2, <2>3, <1>10, <1>14 DEF IsGraph
  <1>16. IsRecomputed(g, rewired, O)
    <2>1. \A n \in D : IF EpochOf(n) = "bwd"
                       THEN /\ Rereads(rewired.node[n], g.node[n], rewired.node[n].ins)
                            /\ Recloned(g.node[n].ins, rewired.node[n].ins, O)
                       ELSE rewired.node[n] = g.node[n]
      BY <1>9, <1>12, <1>13
    <2>2. ASSUME NEW x \in O
          PROVE  LET nd == rewired.node[<<"recompute", x>>]
                 IN  /\ nd.type = "op" /\ nd.epoch = "bwd" /\ nd.role = g.node[x].role
                     /\ Recloned(g.node[x].ins, nd.ins, O)
      <3>1. rewired.node[<<"recompute", x>>] = rec[<<"recompute", x>>]
        BY <1>5, <1>9, <1>13
      <3> QED
        BY <3>1, <1>8
    <2> QED
      BY <2>1, <2>2, <1>10, <1>14, <1>15 DEF IsRecomputed
  <1>17. /\ Reverse(clones) \in Seq(DOMAIN rewired.node) /\ Distinct(Reverse(clones))
         /\ \A n \in ToSet(Reverse(clones)) : OneOf(n, {"recompute"})
    <2>1. Reverse(clones) \in Seq(C) /\ ToSet(Reverse(clones)) = C /\ Distinct(Reverse(clones))
      BY <1>6, Reversed
    <2>2. C \subseteq DOMAIN rewired.node
      BY <1>14
    <2>3. Reverse(clones) \in Seq(DOMAIN rewired.node)
      BY <2>1, <2>2, Retyped
    <2> QED
      BY <2>1, <2>3, <1>5
  <1> QED
    BY <1>1, <1>16, <1>17 DEF O

\* insert_recompute_ops clones the forward ops, and takes some of the clones out again.
Recomputes(h) ==
    /\ IsRecomputed(graph, h, ForwardOps(graph)) /\ Well(h) /\ Listed(model, h)
    /\ IsTrainable(model, h, loopback) /\ OnlyClonesGone(h, graph') /\ SameForwards(h, graph')
    /\ Well(graph') /\ Listed(model, graph') /\ IsTrainable(model, graph', loopback)

\* It does so when it is asked to.
LEMMA RecomputesOnce ==
    ASSUME IsTraced(model), Well(graph), Listed(model, graph), model.recompute,
           IsOptimizing(model, graph, todo, gradients, loopback), InsertRecomputeOps
    PROVE  \E h : Recomputes(h)
  <1>1. IsTrainable(model, graph, loopback)
    BY DEF IsOptimizing, IsTrainable
  <1>2. \A n \in DOMAIN graph.node : ~OneOf(n, {"recompute"})
    BY DEF IsOptimizing, OnlyKinds, OneOf
  <1>3. PICK h, s : /\ Recomputed(graph) = Pruned(h, s) /\ IsRecomputed(graph, h, ForwardOps(graph))
                    /\ s \in Seq(DOMAIN h.node) /\ Distinct(s)
                    /\ \A n \in ToSet(s) : OneOf(n, {"recompute"})
    BY <1>2, RecomputedIs
  <1>4. Well(h) /\ Listed(model, h) /\ IsTrainable(model, h, loopback)
    BY <1>3, <1>1, <1>2, RecomputedTrains
  <1>5. graph' = Pruned(h, s)
    BY <1>3 DEF InsertRecomputeOps
  <1>6. /\ Well(graph') /\ Listed(model, graph') /\ IsTrainable(model, graph', loopback)
        /\ SameForwards(h, graph') /\ OnlyClonesGone(h, graph')
    BY <1>3, <1>4, <1>5, PrunedKeeps
  <1> QED
    BY <1>3, <1>4, <1>6 DEF Recomputes

\* insert_recompute_ops leaves a graph that trains, and the Nops to remove from it.
LEMMA InsertRecomputeKeeps ==
    ASSUME IsTraced(model), Well(graph), Listed(model, graph),
           IsOptimizing(model, graph, todo, gradients, loopback), InsertRecomputeOps
    PROVE  /\ Well(graph') /\ Listed(model, graph') /\ IsTrainable(model, graph', loopback)
           /\ IsRemoving(graph', todo') /\ SameForwards(graph, graph')
  <1>1. IsTrainable(model, graph, loopback)
    BY DEF IsOptimizing, IsTrainable
  <1>2. /\ Well(graph') /\ Listed(model, graph') /\ IsTrainable(model, graph', loopback)
        /\ SameForwards(graph, graph')
    <2>1. CASE model.recompute
      <3>1. PICK h : Recomputes(h)
        BY <2>1, RecomputesOnce
      <3>2. SameForwards(graph, h)
        <4>1. \A x : EpochOf(<<"recompute", x>>) = "bwd"
          BY NamesAre
        <4> QED
          BY <4>1, <3>1 DEF Recomputes, SameForwards, Forwards, IsRecomputed
      <3> QED
        BY <3>1, <3>2 DEF Recomputes, SameForwards
    <2>2. CASE ~model.recompute
      BY <2>2, <1>1 DEF InsertRecomputeOps, SameForwards
    <2> QED
      BY <2>1, <2>2
  <1>3. IsRemoving(graph', todo')
    <2> DEFINE h == graph'
               R == {n \in DOMAIN h.node : h.node[n].role = "Nop"}
    <2>1. todo' = Only(TopologicalSort(h), ToSet(Only(h.nodes, R)))
      BY DEF InsertRecomputeOps, OfRole
    <2>2. h.nodes \in Seq(DOMAIN h.node)
      BY <1>2 DEF Well, IsGraph
    <2>3. TopologicalSort(h) \in Seq(DOMAIN h.node) /\ Distinct(TopologicalSort(h))
      BY <1>2, TopologicalSortSorts DEF Well, Sorted
    <2> HIDE DEF h
    <2>4. ToSet(Only(h.nodes, R)) = ToSet(h.nodes) \cap R
      BY <2>2, OnlyMembers
    <2>5. /\ todo' \in Seq(DOMAIN h.node) /\ Distinct(todo')
          /\ ToSet(todo') = ToSet(TopologicalSort(h)) \cap ToSet(Only(h.nodes, R))
      BY <2>1, <2>3, OnlyMembers, OnlyDistinct
    <2>6. \A n \in ToSet(todo') : h.node[n].role = "Nop"
      BY <2>4, <2>5
    <2> QED
      BY <2>5, <2>6 DEF IsRemoving, h
  <1> QED
    BY <1>2, <1>3

-----------------------------------------------------------------------------
\* What holds at each stage.

Early == {"trace", "propagate", "outputs", "differentiate"}

AutogradInv ==
    /\ IsTraced(model) /\ requires_grad \subseteq DOMAIN gradients
    /\ stage \in Early => DOMAIN loopback = {}
    /\ stage = "trace" => IsTracing(model, graph, todo) /\ requires_grad = {}
    /\ stage # "trace" => Well(graph) /\ Listed(model, graph)
    /\ stage = "propagate" => IsTrace(model, graph)
    /\ stage = "outputs" => IsSeeding(model, graph, todo, requires_grad, gradients)
    /\ stage = "differentiate" => IsDifferentiating(model, graph, todo, requires_grad, gradients)
    /\ stage = "optimizer" => IsOptimizing(model, graph, todo, gradients, loopback)
    /\ stage \notin Early \cup {"optimizer"} => IsTrainable(model, graph, loopback)
    /\ stage = "nops" => IsRemoving(graph, todo)

\* It holds of the first graph.
LEMMA AutogradStarts ==
    ASSUME AutogradInit
    PROVE  AutogradInv
  <1>1. IsTraced(model) /\ IsTracing(model, graph, todo)
    BY InitIsTraced, InitIsTracing
  <1>2. stage = "trace" /\ requires_grad = {} /\ loopback = [n \in {} |-> n]
    BY DEF AutogradInit
  <1> QED
    BY <1>1, <1>2 DEF AutogradInv, Early

\* No step of the differentiation drops the list of a node's gradients.
LEMMA GradientsStay ==
    ASSUME CreateGradientInput \/ Differentiate, requires_grad \subseteq DOMAIN gradients
    PROVE  requires_grad' \subseteq DOMAIN gradients'
  <1>1. CASE CreateGradientInput
    BY <1>1 DEF CreateGradientInput
  <1>2. CASE Differentiate
    BY <1>2 DEF Differentiate, HandedOn
  <1> QED
    BY <1>1, <1>2

\* Every step of generate_graph and of the autograd engine keeps it.
LEMMA AutogradKeeps ==
    ASSUME AutogradInv, AutogradNext
    PROVE  AutogradInv'
  <1>1. IsTraced(model) /\ requires_grad \subseteq DOMAIN gradients
    BY DEF AutogradInv
  <1>2. CASE VisitTensor
    <2>1. IsTracing(model, graph, todo)
      BY <1>2 DEF AutogradInv, VisitTensor
    <2>2. IsTracing(model, graph', todo')
      BY <1>1, <1>2, <2>1, VisitKeepsTracing
    <2>3. stage = "trace" /\ UNCHANGED <<model, stage, requires_grad, gradients, loopback>>
      BY <1>2 DEF VisitTensor
    <2> QED
      BY <2>2, <2>3 DEF AutogradInv, Early
  <1>3. CASE RegisterModule
    <2>1. IsTracing(model, graph, todo)
      BY <1>3 DEF AutogradInv, RegisterModule
    <2>2. Well(graph') /\ Listed(model, graph') /\ IsTrace(model, graph')
      BY <1>1, <1>3, <2>1, RegisterGivesTrace
    <2>3. /\ stage = "trace" /\ stage' = "propagate"
          /\ UNCHANGED <<model, todo, requires_grad, gradients, loopback>>
      BY <1>3 DEF RegisterModule
    <2> QED
      BY <2>2, <2>3 DEF AutogradInv, Early
  <1>4. CASE PropagateRequiresGrad
    <2>1. Well(graph) /\ Listed(model, graph) /\ IsTrace(model, graph)
      BY <1>4 DEF AutogradInv, PropagateRequiresGrad
    <2>2. IsSeeding(model, graph, todo', requires_grad', gradients')
      BY <1>1, <1>4, <2>1, PropagateGivesSeeding
    <2>3. /\ stage = "propagate" /\ stage' = "outputs"
          /\ UNCHANGED <<model, graph, loopback>>
      BY <1>4 DEF PropagateRequiresGrad
    <2>4. requires_grad' \subseteq DOMAIN gradients'
      BY <2>2 DEF IsSeeding, Needs, Gathered
    <2> QED
      BY <2>1, <2>2, <2>3, <2>4 DEF AutogradInv, Early
  <1>5. CASE CreateGradientInput
    <2>1. /\ Well(graph) /\ Listed(model, graph)
          /\ IsSeeding(model, graph, todo, requires_grad, gradients)
      BY <1>5 DEF AutogradInv, CreateGradientInput
    <2>2. /\ Well(graph') /\ Listed(model, graph')
          /\ IsSeeding(model, graph', todo', requires_grad, gradients')
      BY <1>1, <1>5, <2>1, CreateKeepsSeeding
    <2>3. stage = "outputs" /\ UNCHANGED <<model, stage, requires_grad, loopback>>
      BY <1>5 DEF CreateGradientInput
    <2>4. requires_grad' \subseteq DOMAIN gradients'
      BY <1>1, <1>5, GradientsStay
    <2> QED
      BY <2>2, <2>3, <2>4 DEF AutogradInv, Early
  <1>6. CASE StartDifferentiation
    <2>1. /\ Well(graph) /\ Listed(model, graph)
          /\ IsSeeding(model, graph, todo, requires_grad, gradients)
      BY <1>6 DEF AutogradInv, StartDifferentiation
    <2>2. IsDifferentiating(model, graph, todo', requires_grad, gradients)
      BY <1>1, <1>6, <2>1, StartGivesDifferentiating
    <2>3. /\ stage = "outputs" /\ stage' = "differentiate"
          /\ UNCHANGED <<model, graph, requires_grad, gradients, loopback>>
      BY <1>6 DEF StartDifferentiation
    <2> QED
      BY <2>1, <2>2, <2>3 DEF AutogradInv, Early
  <1>7. CASE Differentiate
    <2>1. /\ Well(graph) /\ Listed(model, graph)
          /\ IsDifferentiating(model, graph, todo, requires_grad, gradients)
      BY <1>7 DEF AutogradInv, Differentiate
    <2>2. /\ Well(graph') /\ Listed(model, graph')
          /\ IsDifferentiating(model, graph', todo', requires_grad, gradients')
      BY <1>1, <1>7, <2>1, DifferentiateKeeps
    <2>3. stage = "differentiate" /\ UNCHANGED <<model, stage, requires_grad, loopback>>
      BY <1>7 DEF Differentiate
    <2>4. requires_grad' \subseteq DOMAIN gradients'
      BY <1>1, <1>7, GradientsStay
    <2> QED
      BY <2>2, <2>3, <2>4 DEF AutogradInv, Early
  <1>8. CASE StartOptimizer
    <2>1. /\ Well(graph) /\ Listed(model, graph) /\ DOMAIN loopback = {}
          /\ IsDifferentiating(model, graph, todo, requires_grad, gradients)
      BY <1>8 DEF AutogradInv, StartOptimizer, Early
    <2>2. IsOptimizing(model, graph, todo', gradients, loopback)
      BY <1>1, <1>8, <2>1, StartGivesOptimizing
    <2>3. /\ stage = "differentiate" /\ stage' = "optimizer"
          /\ UNCHANGED <<model, graph, requires_grad, gradients, loopback>>
      BY <1>8 DEF StartOptimizer
    <2> QED
      BY <2>1, <2>2, <2>3 DEF AutogradInv, Early
  <1>9. CASE OptimizeParameter
    <2>1. /\ Well(graph) /\ Listed(model, graph)
          /\ IsOptimizing(model, graph, todo, gradients, loopback)
      BY <1>9 DEF AutogradInv, OptimizeParameter
    <2>2. /\ Well(graph') /\ Listed(model, graph')
          /\ IsOptimizing(model, graph', todo', gradients, loopback')
      BY <1>1, <1>9, <2>1, OptimizeKeeps
    <2>3. stage = "optimizer" /\ UNCHANGED <<model, stage, requires_grad, gradients>>
      BY <1>9 DEF OptimizeParameter
    <2> QED
      BY <1>1, <2>2, <2>3 DEF AutogradInv, Early
  <1>10. CASE InsertRecomputeOps
    <2>1. /\ Well(graph) /\ Listed(model, graph)
          /\ IsOptimizing(model, graph, todo, gradients, loopback)
      BY <1>10 DEF AutogradInv, InsertRecomputeOps
    <2>2. /\ Well(graph') /\ Listed(model, graph') /\ IsTrainable(model, graph', loopback)
          /\ IsRemoving(graph', todo')
      BY <1>1, <1>10, <2>1, InsertRecomputeKeeps
    <2>3. /\ stage = "optimizer" /\ stage' = "nops"
          /\ UNCHANGED <<model, requires_grad, gradients, loopback>>
      BY <1>10 DEF InsertRecomputeOps
    <2> QED
      BY <1>1, <2>2, <2>3 DEF AutogradInv, Early
  <1> QED
    BY <1>2, <1>3, <1>4, <1>5, <1>6, <1>7, <1>8, <1>9, <1>10 DEF AutogradNext

=============================================================================
