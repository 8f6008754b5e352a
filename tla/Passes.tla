------------------------------- MODULE Passes -------------------------------
(***************************************************************************)
(* The passes on the graph before and after the decompositions             *)
(* (forge/csrc/passes).  graph is the sequence of its outputs.  A pass     *)
(* rewrites one node at a time: XMatches(graph, z) says that it rewrites   *)
(* node z, XRewritten(graph, z) is the graph then.                         *)
(***************************************************************************)
EXTENDS Decompositions

\* Every output of the graph, and whether one could not be built.
Through(F(_), graph) == [i \in DOMAIN graph |-> F(graph[i])]
Replaced(graph, old, new) == [i \in DOMAIN graph |-> Substituted(graph[i], old, new)]

RECURSIVE Broken(_)
Broken(t) == ~Built(t) \/ \E i \in DOMAIN t.ins : Broken(t.ins[i])
Unbuildable(graph) == \E i \in DOMAIN graph : Broken(graph[i])

RecalculateShapes(graph) == [i \in DOMAIN graph |-> Recalculated(graph[i])]
Users(graph, z) == {e[1] : e \in UserEdges(graph, z)}
IsLeaf(t) == t.op \in Leaves

-----------------------------------------------------------------------------
\* decompose_nd_reshape_split: a reshape that splits a dimension, all of whose users pick
\* one index of it each, for a reshape: the users slice the operand instead.
\* (An index that is itself an output is taken for an op: the pass crashes.  An assertion
\* fails if the dimension cannot be shared among the users.)
SplitMatches(graph, z) ==
    LET users == Users(graph, z)
        s == Producer(z.ins[1]).shape
        one == CHOOSE u \in users : TRUE
        dim == one.attrs.dim
        d == Positive(dim, Len(z.shape))
        differ == {i \in DOMAIN s : s[i] # z.shape[i]}
        od == Min(differ)
        Squeezes(v, u) == v.op = "reshape" /\ Size(v.shape) = Size(u.shape)
                          /\ Len(v.shape) + 1 = Len(u.shape)
        next == UNION {Users(graph, u) : u \in users}
    IN  /\ z.op = "reshape" /\ Len(z.shape) = Len(s) + 1
        /\ \A u \in users : u.op = "index"
        /\ \A u \in users : u.attrs.dim = dim /\ SameShape(u.shape, one.shape) /\ u.attrs.stride = 1
        /\ Cardinality(users) * At(one.shape, d) = At(z.shape, d)
        /\ \A u \in users : u.attrs.stop - u.attrs.start = 1
        /\ \A u \in users : /\ Cardinality(UserEdges(graph, u)) = 1
                            /\ \A v \in Users(graph, u) : v.op = "output" \/ Squeezes(v, u)
        /\ \/ \E v \in next : v.op = "output"
           \/ differ # {} /\ s[od] = z.shape[od] * z.shape[od + 1]

SplitRewritten(graph, z) ==
    LET x == z.ins[1]
        s == Producer(x).shape
        od == Min({i \in DOMAIN s : s[i] # z.shape[i]})
        n == s[od] \div Cardinality(Users(graph, z))
        Slices(g, u) == Replaced(g, u, Node("index",
                            [dim |-> od - 1, start |-> u.attrs.start * n,
                             stop |-> u.attrs.start * n + n, stride |-> 1],
                            <<x>>, [s EXCEPT ![od] = n]))
        users == Users(graph, z)
        read == \E u \in users : \E v \in Users(graph, u) : v.op = "output"
        divides == s[od] % Cardinality(users) = 0
    IN  IF read \/ ~divides
        THEN Replaced(graph, z, NoTerm)
        ELSE RecalculateShapes(FoldSet(LAMBDA u, g : Slices(g, u), graph, users))

\* fuse_pad_conv2d: constant padding into the convolutions that read it, which it expects
\* to have seven attributes.
ConvAttributes == {"stride", "dilation", "groups", "padding", "channel_last"}
PadMatches(graph, z) ==
    /\ z.op = "pad" /\ z.attrs.mode = 0
    /\ \A u \in Users(graph, z) : u.op = "conv2d"

PadRewritten(graph, z) ==
    Replaced(graph, z, IF Cardinality(ConvAttributes) = 7 THEN z.ins[1] ELSE NoTerm)

\* explicate_unsqueeze: the operand of lower rank is unsqueezed, if an op computes it.
UnsqueezeMatches(graph, z) ==
    LET n(i) == Len(Producer(z.ins[i]).shape)
        lower == IF n(1) < n(2) THEN 1 ELSE 2
    IN  z.op \in BinaryOps /\ n(1) # n(2) /\ ~IsLeaf(Producer(z.ins[lower]))

UnsqueezeRewritten(graph, z) ==
    LET n(i) == Len(Producer(z.ins[i]).shape)
        lower == IF n(1) < n(2) THEN 1 ELSE 2
        times == [i \in 1..(n(3 - lower) - n(lower)) |-> 0]
        full == Rewrapped(FoldLeft(Unsqueeze, Producer(z.ins[lower]), times),
                          Broadcasts(z.ins[lower]))
    IN  RecalculateShapes(Replaced(graph, z, [z EXCEPT !.ins[lower] = full]))

\* fuse_conv2d_bias: what is added to a convolution with a broadcast becomes its bias.
BiasMatches(graph, z) ==
    /\ z.op = "add"
    /\ LET conv == Producer(z.ins[1])
       IN  /\ conv.op = "conv2d" /\ Len(conv.ins) = 2
           /\ Cardinality(UserEdges(graph, conv)) = 1
    /\ z.ins[2].op = "tm"

BiasRewritten(graph, z) ==
    LET conv == Producer(z.ins[1])
    IN  Replaced(graph, z, [conv EXCEPT !.ins = @ \o <<Producer(z.ins[2])>>])

\* bypass_nop_tms: a reshape to the shape of its operand, unless that is an input.
NopMatchesBySize(graph, z) ==
    z.op = "reshape" /\ Size(Producer(z.ins[1]).shape) = Size(z.shape)
NopMatches(graph, z) ==
    /\ z.op = "reshape" /\ ~IsLeaf(Producer(z.ins[1]))
    /\ SameShape(Producer(z.ins[1]).shape, z.shape)

NopRewritten(graph, z) == [i \in DOMAIN graph |-> Bypassed(graph[i], z)]

-----------------------------------------------------------------------------
\* run_pre_lowering_passes: convert_broadcast_ops_to_tms and remove_nops, with the shapes
\* recalculated before and after.
RECURSIVE BroadcastsAsTms(_)
BroadcastsAsTms(t) ==
    [t EXCEPT !.op = IF @ = "broadcast" THEN "tm" ELSE @,
              !.ins = [i \in DOMAIN @ |-> BroadcastsAsTms(@[i])]]

RECURSIVE WithoutNops(_)
WithoutNops(t) ==
    IF t.op = "nop" THEN WithoutNops(t.ins[1])
    ELSE [t EXCEPT !.ins = [i \in DOMAIN @ |-> WithoutNops(@[i])]]

PreLowered(graph) ==
    [i \in DOMAIN graph |-> Recalculated(WithoutNops(BroadcastsAsTms(Recalculated(graph[i]))))]

\* The ops lower_to_mlir.cpp has a handler for.
Lowerable == {"abs", "add", "atan", "argmax", "avg_pool2d", "batchnorm", "bitwise_and", "cast",
    "clip", "concatenate", "constant_pad", "conv2d", "cosine", "cumsum", "divide", "embedding_bw",
    "embedding", "equal", "erf", "exp", "fill_cache", "gelu", "greater", "greater_equal", "index",
    "leaky_relu", "less", "less_equal", "log", "logical_not", "matmul", "max_pool2d", "maximum",
    "minimum", "multiply", "not_equal", "power", "reciprocal", "reduce_avg", "reduce_max",
    "reduce_sum", "relu", "remainder", "repeat", "repeat_interleave", "conv2d_transpose",
    "reshape", "select", "sigmoid", "sine", "softmax", "sqrt", "squeeze", "subtract", "tanh",
    "transpose", "unsqueeze", "update_cache", "upsample2d", "where"}

=============================================================================
