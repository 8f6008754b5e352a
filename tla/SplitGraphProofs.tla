-------------------------- MODULE SplitGraphProofs --------------------------
(***************************************************************************)
(* What holds of the graph while its Nops are removed, and of the three    *)
(* graphs it is split into.                                                *)
(***************************************************************************)
EXTENDS SplitGraph, AutogradProofs

-----------------------------------------------------------------------------
\* remove_nops.

\* The nodes that update a weight.
LEMMA UpdatesAre ==
    ASSUME NEW m, NEW g, NEW lb, Updates(m, g, lb), NEW w \in DOMAIN lb,
           NEW lr, lr = <<"lr", w>>, NEW mul, mul = <<"opt_multiply", w>>,
           NEW sub, sub = <<"opt_subtract", w>>, NEW acc, acc = <<"grad_acc", w>>
    PROVE  /\ {lr, mul, sub, acc} \subseteq DOMAIN g.node /\ w \in Leaves /\ w \in DOMAIN g.node
           /\ w \in Weights /\ lb[w] = sub
           /\ g.node[mul].role = "Multiply" /\ g.node[mul].ins = <<acc, lr>>
           /\ g.node[sub].role = "Subtract" /\ g.node[sub].ins = <<w, mul>>
  <1>1. /\ {lr, mul, sub, acc} \subseteq DOMAIN g.node /\ w \in Weights /\ w \in DOMAIN g.node
        /\ lb[w] = sub
        /\ g.node[mul] = Node("op", "Multiply", "opt", <<acc, lr>>)
        /\ g.node[sub] = Node("op", "Subtract", "opt", <<w, mul>>)
    BY DEF Updates
  <1>2. \A o, ins : Node("op", o, "opt", ins).role = o /\ Node("op", o, "opt", ins).ins = ins
    BY DEF Node
  <1> QED
    BY <1>1, <1>2 DEF Leaves

\* A Nop has one operand, and is no node of the optimizer.
LEMMA NopIs ==
    ASSUME NEW m, NEW g, NEW lb, Well(g), Listed(m, g), Updates(m, g, lb),
           NEW n \in DOMAIN g.node, g.node[n].role = "Nop"
    PROVE  /\ n \notin Leaves /\ TypeOf(n) = "op" /\ EpochOf(n) # "opt"
           /\ g.node[n].ins \in Seq(DOMAIN g.node) /\ Len(g.node[n].ins) = 1
           /\ ToSet(g.node[n].ins) = {g.node[n].ins[1]}
           /\ g.node[n].ins[1] \in DOMAIN g.node
           /\ n \notin ToSet(g.inputs) /\ n \notin ToSet(g.outputs)
           /\ ~OneOf(n, {"gradient"}) /\ ~OneOf(n, {"output"}) /\ ~OneOf(n, OptKinds)
           /\ ~OneOf(n, SinkKinds)
  <1> DEFINE nd == g.node[n]
  <1>1. nd \in Records(DOMAIN g.node) /\ Whole(n, nd) /\ nd.role = "Nop"
    BY DEF Well, IsGraph
  <1>2. /\ n \in Leaves \/ n[1] \in AllKinds
        /\ nd.type = TypeOf(n) /\ nd.epoch = EpochOf(n) /\ "Nop" \in RolesOf(n)
        /\ Len(nd.ins) = Ports(nd)
    BY <1>1 DEF Whole, Fits
  <1>3. n \notin Leaves /\ n[1] \notin {"gradient", "lr", "output", "output_grad", "grad_acc"}
    BY <1>2 DEF RolesOf, Leaves
  <1>4. TypeOf(n) = "op"
    BY <1>3 DEF TypeOf
  <1>5. Len(nd.ins) = 1
    BY <1>1, <1>2, <1>4 DEF Ports, OpArity
  <1>6. nd.ins \in Seq(DOMAIN g.node)
    BY <1>1 DEF Records
  <1>7. ToSet(nd.ins) = {nd.ins[1]} /\ nd.ins[1] \in DOMAIN g.node
    <2>1. DOMAIN nd.ins = {1}
      BY <1>5, <1>6
    <2> QED
      BY <1>6, <2>1, Entries DEF ToSet
  <1>8. /\ ~OneOf(n, {"gradient"}) /\ ~OneOf(n, {"output"}) /\ ~OneOf(n, SinkKinds)
    BY <1>3 DEF OneOf, SinkKinds
  <1>9. ~OneOf(n, OptKinds)
    <2> SUFFICES ASSUME OneOf(n, OptKinds) PROVE FALSE
      OBVIOUS
    <2> HIDE DEF nd
    <2>1. n[2] \in DOMAIN lb /\ n = <<n[1], n[2]>> /\ n[1] \in {"opt_multiply", "opt_subtract"}
      BY <1>3 DEF Updates, OneOf, OptKinds
    <2>2. PICK w \in DOMAIN lb : n = <<"opt_multiply", w>> \/ n = <<"opt_subtract", w>>
      BY <2>1
    <2> DEFINE lr == <<"lr", w>>
               mul == <<"opt_multiply", w>>
               sub == <<"opt_subtract", w>>
               acc == <<"grad_acc", w>>
    <2>3. w \in DOMAIN lb
      BY <2>2
    <2>4. /\ {lr, mul, sub, acc} \subseteq DOMAIN g.node
          /\ g.node[mul].role = "Multiply" /\ g.node[sub].role = "Subtract"
      BY <2>3, UpdatesAre
    <2> QED
      BY <1>1, <2>2, <2>4 DEF nd
  <1>10. EpochOf(n) # "opt"
    BY <1>3, <1>9 DEF EpochOf, OneOf, FwdKinds
  <1>11. n \notin ToSet(g.inputs)
    BY <1>3, <1>8 DEF Listed, Leaves
  <1>12. n \notin ToSet(g.outputs)
    <2> SUFFICES ASSUME NEW i \in DOMAIN m.outs, n = Output(m.outs[i]) PROVE FALSE
      BY DEF Listed, ModuleOutputs, ToSet
    <2> QED
      BY <1>3, KindsDiffer DEF Output
  <1> QED
    BY <1>3, <1>4, <1>5, <1>6, <1>7, <1>8, <1>9, <1>10, <1>11, <1>12

\* The users of a Nop may read its operand.
LEMMA NopHandsOn ==
    ASSUME NEW u, NEW role, NEW n, NEW x, MayRead(u, role, n), MayRead(n, "Nop", x),
           EpochOf(n) # "opt", TypeOf(n) = "op", n \notin Leaves
    PROVE  MayRead(u, role, x)
  <1>1. EpochOf(n) \in {"fwd", "bwd"}
    BY DEF EpochOf
  <1>2. TypeOf(x) \in {"input", "op"}
    BY DEF MayRead
  <1>3. EpochOf(u) = "fwd" => EpochOf(x) = "fwd"
    BY DEF MayRead
  <1>4. EpochOf(u) = "bwd" => EpochOf(x) # "opt"
    BY <1>1 DEF MayRead
  <1>5. OneOf(u, SinkKinds) \/ (OneOf(u, GradKinds) /\ role = "Nop") => OneOf(x, GradKinds)
    BY DEF MayRead
  <1>6. OneOf(u, {"recompute"}) => EpochOf(x) = "fwd" \/ OneOf(x, {"recompute"})
    BY DEF MayRead
  <1> QED
    BY <1>2, <1>3, <1>4, <1>5, <1>6 DEF MayRead

\* Records are known by their fields.
LEMMA SameRecord ==
    ASSUME NEW D, NEW a \in Records(D), NEW b \in Records(D), Rereads(a, b, b.ins)
    PROVE  a = b
  BY DEF Records, Rereads

\* Removing a Nop leaves what is trained.
LEMMA BypassKeeps ==
    ASSUME NEW m, IsTraced(m), NEW g, NEW lb, Well(g), Listed(m, g), IsTrainable(m, g, lb),
           NEW n \in DOMAIN g.node, g.node[n].role = "Nop", NEW h, h = Bypassed(g, n)
    PROVE  /\ Well(h) /\ Listed(m, h) /\ IsTrainable(m, h, lb)
           /\ DOMAIN h.node = DOMAIN g.node \ {n}
           /\ h.inputs = g.inputs /\ h.outputs = g.outputs
           /\ \A u \in DOMAIN h.node :
                 Rereads(h.node[u], g.node[u], Replaced(g.node[u].ins, n, g.node[n].ins[1]))
  <1> DEFINE D == DOMAIN g.node
             x == g.node[n].ins[1]
  <1>1. /\ n \notin Leaves /\ TypeOf(n) = "op" /\ EpochOf(n) # "opt"
        /\ g.node[n].ins \in Seq(D) /\ Len(g.node[n].ins) = 1
        /\ ToSet(g.node[n].ins) = {x} /\ x \in D
        /\ n \notin ToSet(g.inputs) /\ n \notin ToSet(g.outputs)
        /\ ~OneOf(n, {"gradient"}) /\ ~OneOf(n, {"output"}) /\ ~OneOf(n, OptKinds)
        /\ ~OneOf(n, SinkKinds)
    BY NopIs DEF IsTrainable
  <1>2. IsGraph(g) /\ Acyclic(g) /\ \A u \in D : Whole(u, g.node[u]) /\ g.node[u] \in Records(D)
    BY DEF Well, IsGraph
  <1>3. /\ IsGraph(h) /\ Acyclic(h) /\ DOMAIN h.node = D \ {n} /\ x \in DOMAIN h.node
        /\ \A u \in D \ {n} : Rereads(h.node[u], g.node[u], Replaced(g.node[u].ins, n, x))
        /\ h.inputs = g.inputs /\ h.outputs = g.outputs
    <2>1. x \in ToSet(g.node[n].ins)
      BY <1>1
    <2>2. h = RemoveNode(Redirect(g, n, x), n)
      BY DEF Bypassed
    <2> HIDE DEF x
    <2> QED
      BY <1>1, <1>2, <2>1, <2>2, BypassIs
  <1> HIDE DEF x
  <1>4. ASSUME NEW u \in D
        PROVE  /\ Len(Replaced(g.node[u].ins, n, x)) = Len(g.node[u].ins)
               /\ ToSet(Replaced(g.node[u].ins, n, x)) =
                     (ToSet(g.node[u].ins) \ {n}) \cup (IF n \in ToSet(g.node[u].ins) THEN {x} ELSE {})
               /\ n \notin ToSet(g.node[u].ins) =>
                     Replaced(g.node[u].ins, n, x) = g.node[u].ins
    <2>1. g.node[u].ins \in Seq(D)
      BY <1>2 DEF Records
    <2> QED
      BY <2>1, <1>1, ReplacedIs
  <1>5. ASSUME NEW u \in D \ {n} PROVE Whole(u, h.node[u])
    <2>1. Rereads(h.node[u], g.node[u], Replaced(g.node[u].ins, n, x)) /\ Whole(u, g.node[u])
      BY <1>2, <1>3
    <2>2. MayRead(n, "Nop", x)
      BY <1>1, <1>2 DEF Whole, Fits
    <2>3. ASSUME NEW y \in ToSet(h.node[u].ins) PROVE MayRead(u, h.node[u].role, y)
      <3>1. CASE y \in ToSet(g.node[u].ins)
        BY <2>1, <3>1 DEF Whole, Fits, Rereads
      <3>2. CASE y = x /\ n \in ToSet(g.node[u].ins)
        <4>1. MayRead(u, g.node[u].role, n)
          BY <2>1, <3>2 DEF Whole, Fits
        <4>2. MayRead(u, g.node[u].role, x)
          BY <4>1, <2>2, <1>1, NopHandsOn
        <4> QED
          BY <4>2, <3>2, <2>1 DEF Rereads
      <3>3. ToSet(h.node[u].ins) = (ToSet(g.node[u].ins) \ {n})
               \cup (IF n \in ToSet(g.node[u].ins) THEN {x} ELSE {})
        BY <2>1, <1>4 DEF Rereads
      <3> QED
        BY <3>1, <3>2, <3>3
    <2>4. Len(h.node[u].ins) = Len(g.node[u].ins)
      BY <2>1, <1>4 DEF Rereads
    <2> QED
      BY <2>1, <2>3, <2>4 DEF Whole, Fits, Rereads, Ports
  <1>6. Well(h)
    BY <1>3, <1>5 DEF Well
  <1>7. Listed(m, h)
    BY <1>1, <1>3, NotLeaves DEF Listed
  <1>8. Updates(m, h, lb)
    <2>1. Updates(m, g, lb)
      BY DEF IsTrainable
    <2>2. ASSUME NEW w \in DOMAIN lb
          PROVE  /\ {<<"lr", w>>, <<"opt_multiply", w>>, <<"opt_subtract", w>>, <<"grad_acc", w>>}
                        \subseteq DOMAIN h.node
                 /\ h.node[<<"opt_multiply", w>>] = g.node[<<"opt_multiply", w>>]
                 /\ h.node[<<"opt_subtract", w>>] = g.node[<<"opt_subtract", w>>]
                 /\ w \in DOMAIN h.node
      <3> DEFINE lr == <<"lr", w>>
                 mul == <<"opt_multiply", w>>
                 sub == <<"opt_subtract", w>>
                 acc == <<"grad_acc", w>>
      <3>1. /\ {lr, mul, sub, acc} \subseteq D /\ w \in Leaves /\ w \in D
            /\ g.node[mul].ins = <<acc, lr>> /\ g.node[sub].ins = <<w, mul>>
        BY <2>1, UpdatesAre
      <3>2. n \notin {lr, mul, sub, acc} /\ n # w
        <4>1. OneOf(lr, OptKinds) /\ OneOf(mul, OptKinds) /\ OneOf(sub, OptKinds) /\ OneOf(acc, SinkKinds)
          BY NotLeaves DEF OneOf, OptKinds, SinkKinds
        <4> HIDE DEF lr, mul, sub, acc
        <4> QED
          BY <4>1, <3>1, <1>1
      <3>3. ToSet(<<acc, lr>>) = {acc, lr} /\ ToSet(<<w, mul>>) = {w, mul}
        BY PairLists
      <3> HIDE DEF lr, mul, sub, acc
      <3>4. mul \in D \ {n} /\ sub \in D \ {n}
        BY <3>1, <3>2
      <3>5. ASSUME NEW u \in {mul, sub} PROVE h.node[u] = g.node[u]
        <4>1. u \in D \ {n} /\ n \notin ToSet(g.node[u].ins)
          BY <3>1, <3>2, <3>3, <3>4
        <4>2. Rereads(h.node[u], g.node[u], g.node[u].ins)
          BY <4>1, <1>3, <1>4
        <4>3. g.node[u] \in Records(D) /\ h.node[u] \in Records(DOMAIN h.node)
          BY <4>1, <1>2, <1>3 DEF IsGraph
        <4>4. h.node[u] \in Records(D)
          BY <4>3, <1>3, RecordsGrow
        <4> QED
          BY <4>2, <4>3, <4>4, SameRecord
      <3>6. {lr, mul, sub, acc} \subseteq DOMAIN h.node /\ w \in DOMAIN h.node
        BY <3>1, <3>2, <1>3
      <3>7. /\ {lr, mul, sub, acc} \subseteq DOMAIN h.node
            /\ h.node[mul] = g.node[mul] /\ h.node[sub] = g.node[sub] /\ w \in DOMAIN h.node
        BY <3>5, <3>6
      <3> QED
        BY <3>7 DEF lr, mul, sub, acc
    <2>3. DOMAIN h.node \subseteq D
      BY <1>3
    <2>4. DOMAIN lb \subseteq m.trained \cap Weights \cap DOMAIN h.node
      BY <2>1, <2>2 DEF Updates
    <2>5. \A w \in DOMAIN lb :
             /\ lb[w] = <<"opt_subtract", w>>
             /\ h.node[<<"opt_multiply", w>>] =
                   Node("op", "Multiply", "opt", <<<<"grad_acc", w>>, <<"lr", w>>>>)
             /\ h.node[<<"opt_subtract", w>>] =
                   Node("op", "Subtract", "opt", <<w, <<"opt_multiply", w>>>>)
      BY <2>1, <2>2 DEF Updates
    <2>6. \A u \in DOMAIN h.node : OneOf(u, OptKinds) => u[2] \in DOMAIN lb /\ u = <<u[1], u[2]>>
      BY <2>1, <2>3 DEF Updates
    <2> QED
      BY <2>2, <2>4, <2>5, <2>6 DEF Updates
  <1>9. AllRead(h)
    <2> SUFFICES ASSUME NEW b \in DOMAIN h.node, OneOf(b, GradKinds) PROVE Read(h, b)
      BY DEF AllRead
    <2>1. b \in D /\ b # n
      BY <1>3
    <2>2. ASSUME NEW u \in D \ {n}, b \in ToSet(g.node[u].ins) PROVE Read(h, b)
      <3>1. b \in ToSet(h.node[u].ins)
        BY <2>1, <2>2, <1>3, <1>4 DEF Rereads
      <3> QED
        BY <3>1, <1>3 DEF Read
    <2>3. PICK u \in D : b \in ToSet(g.node[u].ins)
      BY <2>1 DEF IsTrainable, AllRead, Read
    <2>4. CASE u = n
      <3>1. b = x /\ MayRead(n, "Nop", b) /\ EpochOf(b) = "bwd"
        BY <2>3, <2>4, <1>1, <1>2, GradientsAre DEF Whole, Fits
      <3>2. EpochOf(n) # "fwd"
        BY <3>1 DEF MayRead
      <3>3. ~OneOf(n, {"recompute"})
        <4>1. ~OneOf(b, {"recompute"})
          BY DEF OneOf, GradKinds
        <4> QED
          BY <3>1, <4>1 DEF MayRead
      <3>4. OneOf(n, GradKinds)
        <4>1. n[1] \in AllKinds
          BY <1>1, <1>2 DEF Whole, Fits
        <4>2. n[1] \notin FwdKinds
          BY <3>2 DEF EpochOf
        <4> QED
          BY <1>1, <3>3, <4>1, <4>2 DEF OneOf, AllKinds, GradKinds
      <3>5. PICK v \in D : n \in ToSet(g.node[v].ins)
        BY <3>4 DEF IsTrainable, AllRead, Read
      <3>6. v # n
        BY <3>1, <3>5, <1>1, <2>1
      <3>7. x \in ToSet(h.node[v].ins)
        BY <3>5, <3>6, <1>3, <1>4 DEF Rereads
      <3> QED
        BY <3>1, <3>6, <3>7, <1>3 DEF Read
    <2> QED
      BY <2>2, <2>3, <2>4
  <1>10. Seeded(m, h, {})
    <2>1. \A o : <<"gradient", o>> \in D => <<"gradient", o>> \in DOMAIN h.node
      <3> SUFFICES ASSUME NEW o, <<"gradient", o>> = n PROVE FALSE
        BY <1>3
      <3> QED
        BY <1>1, KindsDiffer
    <2> QED
      BY <2>1 DEF IsTrainable, Seeded
  <1> QED
    BY <1>3, <1>6, <1>7, <1>8, <1>9, <1>10 DEF x, IsTrainable

\* remove_nops removes one after the other.
LEMMA RemoveNopKeeps ==
    ASSUME IsTraced(model), Well(graph), Listed(model, graph),
           IsTrainable(model, graph, loopback), IsRemoving(graph, todo), RemoveNop
    PROVE  /\ Well(graph') /\ Listed(model, graph') /\ IsTrainable(model, graph', loopback)
           /\ IsRemoving(graph', todo')
  <1> DEFINE n == Head(todo)
             h == Bypassed(graph, n)
  <1>1. todo \in Seq(DOMAIN graph.node) /\ Distinct(todo) /\ todo # <<>>
        /\ \A u \in ToSet(todo) : graph.node[u].role = "Nop"
    BY DEF IsRemoving, RemoveNop
  <1>2. /\ n \in ToSet(todo) /\ n \in DOMAIN graph.node
        /\ Tail(todo) \in Seq(DOMAIN graph.node)
        /\ ToSet(todo) = {n} \cup ToSet(Tail(todo))
        /\ Distinct(Tail(todo)) /\ n \notin ToSet(Tail(todo))
    BY <1>1, Rest
  <1>3. graph' = h /\ todo' = Tail(todo)
    BY DEF RemoveNop
  <1> HIDE DEF n, h
  <1>4. /\ Well(h) /\ Listed(model, h) /\ IsTrainable(model, h, loopback)
        /\ DOMAIN h.node = DOMAIN graph.node \ {n}
        /\ \A u \in DOMAIN h.node :
              Rereads(h.node[u], graph.node[u], Replaced(graph.node[u].ins, n, graph.node[n].ins[1]))
    BY <1>1, <1>2, BypassKeeps DEF h
  <1>5. ToSet(Tail(todo)) \subseteq DOMAIN h.node
    BY <1>2, <1>4, Entries
  <1>6. Tail(todo) \in Seq(DOMAIN h.node)
    BY <1>2, <1>5, Retyped
  <1>7. \A u \in ToSet(Tail(todo)) : h.node[u].role = "Nop"
    BY <1>1, <1>2, <1>4, <1>5 DEF Rereads
  <1> QED
    BY <1>2, <1>3, <1>4, <1>6, <1>7 DEF IsRemoving

-----------------------------------------------------------------------------
\* The lists split_graph goes through.

\* All nodes of a type.
LEMMA OfTypeIs ==
    ASSUME NEW g, IsGraph(g), NEW type
    PROVE  /\ OfType(g, type) \in Seq(DOMAIN g.node) /\ Distinct(OfType(g, type))
           /\ ToSet(OfType(g, type)) = {n \in DOMAIN g.node : g.node[n].type = type}
  <1> DEFINE S == {n \in DOMAIN g.node : g.node[n].type = type}
  <1>1. g.nodes \in Seq(DOMAIN g.node) /\ Distinct(g.nodes) /\ ToSet(g.nodes) = DOMAIN g.node
    BY DEF IsGraph
  <1>2. /\ Only(g.nodes, S) \in Seq(DOMAIN g.node) /\ Distinct(Only(g.nodes, S))
        /\ ToSet(Only(g.nodes, S)) = ToSet(g.nodes) \cap S
    BY <1>1, OnlyMembers, OnlyDistinct
  <1> QED
    BY <1>1, <1>2 DEF OfType

\* All nodes of a role.
LEMMA OfRoleIs ==
    ASSUME NEW g, IsGraph(g), NEW role
    PROVE  /\ OfRole(g, role) \in Seq(DOMAIN g.node) /\ Distinct(OfRole(g, role))
           /\ ToSet(OfRole(g, role)) = {n \in DOMAIN g.node : g.node[n].role = role}
  <1> DEFINE S == {n \in DOMAIN g.node : g.node[n].role = role}
  <1>1. g.nodes \in Seq(DOMAIN g.node) /\ Distinct(g.nodes) /\ ToSet(g.nodes) = DOMAIN g.node
    BY DEF IsGraph
  <1>2. /\ Only(g.nodes, S) \in Seq(DOMAIN g.node) /\ Distinct(Only(g.nodes, S))
        /\ ToSet(Only(g.nodes, S)) = ToSet(g.nodes) \cap S
    BY <1>1, OnlyMembers, OnlyDistinct
  <1> QED
    BY <1>1, <1>2 DEF OfRole

\* The nodes of a list that are of an epoch.
LEMMA OfEpochIs ==
    ASSUME NEW g, Well(g), NEW s \in Seq(DOMAIN g.node), NEW epoch
    PROVE  /\ OfEpoch(g, s, epoch) \in Seq(DOMAIN g.node)
           /\ ToSet(OfEpoch(g, s, epoch)) = {n \in ToSet(s) : EpochOf(n) = epoch}
           /\ Distinct(s) => Distinct(OfEpoch(g, s, epoch))
  <1> DEFINE S == {n \in DOMAIN g.node : g.node[n].epoch = epoch}
  <1>1. \A n \in DOMAIN g.node : g.node[n].epoch = EpochOf(n)
    BY DEF Well, Whole, Fits
  <1>2. /\ Only(s, S) \in Seq(DOMAIN g.node) /\ ToSet(Only(s, S)) = ToSet(s) \cap S
        /\ Distinct(s) => Distinct(Only(s, S))
    BY OnlyMembers, OnlyDistinct
  <1>3. ToSet(s) \subseteq DOMAIN g.node
    BY Entries
  <1>4. OfEpoch(g, s, epoch) = Only(s, S)
    BY DEF OfEpoch
  <1> QED
    BY <1>1, <1>2, <1>3, <1>4

\* The nodes of an epoch, operands first.
LEMMA EpochOrder ==
    ASSUME NEW g, Well(g), NEW epoch
    PROVE  LET order == OfEpoch(g, TopologicalSort(g), epoch)
           IN  /\ order \in Seq(DOMAIN g.node) /\ Distinct(order)
               /\ ToSet(order) = {n \in DOMAIN g.node : EpochOf(n) = epoch}
               /\ \A j \in DOMAIN order : \A x \in ToSet(g.node[order[j]].ins) :
                     EpochOf(x) = epoch => \E i \in DOMAIN order : i < j /\ order[i] = x
  <1> DEFINE D == DOMAIN g.node
             S == {n \in DOMAIN g.node : g.node[n].epoch = epoch}
             s == TopologicalSort(g)
             t == Only(s, S)
  <1>1. IsGraph(g) /\ Acyclic(g) /\ \A n \in D : g.node[n].epoch = EpochOf(n)
    BY DEF Well, Whole, Fits
  <1>2. /\ s \in Seq(D) /\ Distinct(s) /\ ToSet(s) = D
        /\ \A j \in DOMAIN s : \A x \in ToSet(g.node[s[j]].ins) :
              \E i \in DOMAIN s : i < j /\ s[i] = x
    BY <1>1, TopologicalSortSorts DEF Sorted
  <1>3. \A n : n \in S <=> n \in D /\ EpochOf(n) = epoch
    BY <1>1
  <1>4. OfEpoch(g, s, epoch) = t
    BY DEF OfEpoch
  <1> HIDE DEF s, S
  <1>5. t \in Seq(D) /\ ToSet(t) = ToSet(s) \cap S /\ Distinct(t)
    BY <1>2, OnlyMembers, OnlyDistinct
  <1>6. ASSUME NEW j \in DOMAIN t, NEW x \in ToSet(g.node[t[j]].ins), EpochOf(x) = epoch
        PROVE  \E i \in DOMAIN t : i < j /\ t[i] = x
    <2>1. t[j] \in S /\ t[j] \in D
      BY <1>5, Entries
    <2>2. PICK b \in DOMAIN s : s[b] = t[j]
      BY <2>1, <1>2 DEF ToSet
    <2>3. PICK a \in DOMAIN s : a < b /\ s[a] = x
      BY <2>2, <1>2, <1>6
    <2>4. s[a] \in S /\ s[b] \in S
      BY <2>1, <2>2, <2>3, <1>2, <1>3, <1>6, Entries
    <2>5. PICK k, l \in DOMAIN t : k < l /\ t[k] = s[a] /\ t[l] = s[b]
      BY <1>2, <2>2, <2>3, <2>4, OnlyOrder
    <2>6. l = j
      BY <2>2, <2>5, <1>5, <1>6 DEF Distinct
    <2> QED
      BY <2>3, <2>5, <2>6
  <1>7. ToSet(t) = {n \in D : EpochOf(n) = epoch}
    BY <1>2, <1>3, <1>5
  <1> HIDE DEF t
  <1> QED
    BY <1>4, <1>5, <1>6, <1>7 DEF s

ReadIn(g, n, epoch) ==
    \E u \in DOMAIN g.node : n \in ToSet(g.node[u].ins) /\ EpochOf(u) = epoch

\* Who reads a node.
LEMMA ReadInIs ==
    ASSUME NEW g, Well(g), NEW n, NEW epoch
    PROVE  HasUsersIn(g, n, epoch) <=> ReadIn(g, n, epoch)
  <1>1. ToSet(Users(g, n)) = {u \in DOMAIN g.node : n \in ToSet(g.node[u].ins)}
    BY UsersAre DEF Well
  <1>2. \A u \in DOMAIN g.node : g.node[u].epoch = EpochOf(u)
    BY DEF Well, Whole, Fits
  <1> QED
    BY <1>1, <1>2 DEF HasUsersIn, ReadIn

\* The inputs that go on to the lowering are those that are read.
LEMMA OrderedInputsAre ==
    ASSUME NEW g, IsGraph(g)
    PROVE  /\ OrderedModuleInputs(g) \in Seq(DOMAIN g.node)
           /\ ToSet(OrderedModuleInputs(g)) = {n \in ToSet(g.inputs) : Read(g, n)}
           /\ Distinct(g.inputs) => Distinct(OrderedModuleInputs(g))
  <1> DEFINE S == {n \in ToSet(g.inputs) : Users(g, n) # <<>>}
  <1>1. g.inputs \in Seq(DOMAIN g.node)
    BY DEF IsGraph
  <1>2. /\ Only(g.inputs, S) \in Seq(DOMAIN g.node)
        /\ ToSet(Only(g.inputs, S)) = ToSet(g.inputs) \cap S
        /\ Distinct(g.inputs) => Distinct(Only(g.inputs, S))
    BY <1>1, OnlyMembers, OnlyDistinct
  <1>3. \A n : Users(g, n) # <<>> <=> Read(g, n)
    BY UsersAre DEF Read
  <1> QED
    BY <1>2, <1>3 DEF OrderedModuleInputs

-----------------------------------------------------------------------------
\* extract_forward_graph.

\* The ops whose results are saved by an output of their own.
Saves(g) ==
    {n \in ForwardOps(g) :
        /\ ReadIn(g, n, "bwd")
        /\ ~\E o \in DOMAIN g.node : n \in ToSet(g.node[o].ins) /\ TypeOf(o) = "output"}

Intermediates(g) == {<<"intermediate", n>> : n \in Saves(g)}

\* h has the forward nodes of g, and the outputs that are added.
IsForward(g, h) ==
    /\ IsGraph(h) /\ DOMAIN h.node = Forwards(g) \cup Intermediates(g)
    /\ \A n \in Forwards(g) :
          /\ h.node[n].type = TypeOf(n) /\ h.node[n].ins = g.node[n].ins
          /\ h.node[n].role = IF TypeOf(n) = "output" /\ ReadIn(g, g.node[n].ins[1], "bwd")
                              THEN "shared" ELSE g.node[n].role
    /\ \A n \in Saves(g) :
          /\ h.node[<<"intermediate", n>>].type = "output"
          /\ h.node[<<"intermediate", n>>].role = "internal"
          /\ h.node[<<"intermediate", n>>].ins = <<n>>
    /\ h.inputs = OfEpoch(g, OrderedModuleInputs(g), "fwd")
    /\ \E names \in Seq(Intermediates(g)) :
          /\ h.outputs = g.outputs \o names
          /\ Distinct(names) /\ ToSet(names) = Intermediates(g)

\* What the code asks of a node before it saves it.
LEMMA SavesAre ==
    ASSUME NEW g, Well(g), NEW n \in DOMAIN g.node
    PROVE  NeedsIntermediateOutput(g, n) <=> n \in Saves(g)
  <1>1. IsGraph(g) /\ \A u \in DOMAIN g.node : g.node[u].epoch = EpochOf(u) /\ g.node[u].type = TypeOf(u)
    BY DEF Well, Whole, Fits
  <1>2. HasUsersIn(g, n, "bwd") <=> ReadIn(g, n, "bwd")
    BY ReadInIs
  <1>3. ToSet(Users(g, n)) = {u \in DOMAIN g.node : n \in ToSet(g.node[u].ins)}
    BY <1>1, UsersAre
  <1>4. (\A u \in ToSet(Users(g, n)) : g.node[u].type # "output")
           <=> ~\E o \in DOMAIN g.node : n \in ToSet(g.node[o].ins) /\ TypeOf(o) = "output"
    BY <1>1, <1>3
  <1> QED
    BY <1>1, <1>2, <1>4 DEF NeedsIntermediateOutput, Saves, ForwardOps

\* The names of saved nodes are new.
LEMMA IntermediatesAreNew ==
    /\ \A n : <<"intermediate", n>> \notin Leaves /\ <<"intermediate", n>>[1] = "intermediate"
              /\ <<"intermediate", n>>[2] = n
    /\ \A g : Well(g) => \A n : <<"intermediate", n>> \notin DOMAIN g.node
  <1>1. \A n : <<"intermediate", n>> \notin Leaves /\ <<"intermediate", n>>[1] = "intermediate"
              /\ <<"intermediate", n>>[2] = n
    BY NotLeaves
  <1>2. "intermediate" \notin AllKinds
    BY DEF AllKinds, FwdKinds, GradKinds, SinkKinds, OptKinds
  <1> QED
    BY <1>1, <1>2 DEF Well, Whole, Fits

\* Nodes made of a list of others, each named for its own.
IsNaming(s, kind, names) == names = [i \in DOMAIN s |-> <<kind, s[i]>>]

\* Nodes named for the entries of a list are a list as long, without repetitions.
LEMMA NamesOf ==
    ASSUME NEW T, NEW s \in Seq(T), Distinct(s), NEW kind, NEW names, IsNaming(s, kind, names)
    PROVE  /\ names \in Seq({<<kind, x>> : x \in ToSet(s)}) /\ Distinct(names)
           /\ ToSet(names) = {<<kind, x>> : x \in ToSet(s)} /\ Len(names) = Len(s)
           /\ DOMAIN names = DOMAIN s
  <1> DEFINE C == {<<kind, x>> : x \in ToSet(s)}
  <1>0. names = [i \in DOMAIN s |-> <<kind, s[i]>>]
    BY DEF IsNaming
  <1>1. DOMAIN s = 1..Len(s) /\ Len(s) \in Nat /\ \A i \in DOMAIN s : s[i] \in ToSet(s)
    BY Entries
  <1>2. names \in [1..Len(s) -> C]
    BY <1>0, <1>1
  <1>3. names \in Seq(C) /\ DOMAIN names = DOMAIN s
    BY <1>0, <1>1, <1>2
  <1>4. Len(names) = Len(s)
    BY <1>1, <1>3
  <1>5. Distinct(names)
    <2> SUFFICES ASSUME NEW i \in DOMAIN s, NEW j \in DOMAIN s, names[i] = names[j]
                 PROVE  i = j
      BY <1>3 DEF Distinct
    <2>1. s[i] = s[j]
      BY <1>0
    <2> QED
      BY <2>1 DEF Distinct
  <1>6. ToSet(names) \subseteq C
    BY <1>3, Entries
  <1>7. ASSUME NEW x \in ToSet(s) PROVE <<kind, x>> \in ToSet(names)
    <2>1. PICK i \in DOMAIN s : s[i] = x
      BY DEF ToSet
    <2> QED
      BY <2>1, <1>0, <1>3 DEF ToSet
  <1> QED
    BY <1>3, <1>4, <1>5, <1>6, <1>7

\* What a node is marked as.
LEMMA MarkedIs ==
    ASSUME NEW g, Well(g), NEW n \in Forwards(g)
    PROVE  LET rec == Marked(g, g.node[n])
           IN  /\ rec \in Records(Forwards(g))
               /\ rec.type = TypeOf(n) /\ rec.ins = g.node[n].ins
               /\ rec.role = IF TypeOf(n) = "output" /\ ReadIn(g, g.node[n].ins[1], "bwd")
                             THEN "shared" ELSE g.node[n].role
  <1> DEFINE nd == g.node[n]
  <1>1. nd \in Records(DOMAIN g.node) /\ Whole(n, nd) /\ EpochOf(n) = "fwd"
    BY DEF Well, IsGraph, Forwards
  <1>2. nd.type = TypeOf(n) /\ \A x \in ToSet(nd.ins) : EpochOf(x) = "fwd"
    BY <1>1 DEF Whole, Fits, MayRead
  <1>3. nd.ins \in Seq(DOMAIN g.node)
    BY <1>1 DEF Records
  <1>4. ToSet(nd.ins) \subseteq Forwards(g)
    BY <1>2, <1>3, Entries DEF Forwards
  <1>5. nd.ins \in Seq(Forwards(g))
    BY <1>3, <1>4, Retyped
  <1>6. nd \in Records(Forwards(g))
    BY <1>1, <1>5 DEF Records
  <1>7. HasUsersIn(g, nd.ins[1], "bwd") <=> ReadIn(g, nd.ins[1], "bwd")
    BY ReadInIs
  <1> DEFINE shared == [nd EXCEPT !.role = "shared"]
  <1>8. /\ shared \in Records(Forwards(g)) /\ shared.type = nd.type /\ shared.ins = nd.ins
        /\ shared.role = "shared"
    BY <1>6 DEF Records, Roles
  <1>9. Marked(g, nd) = IF TypeOf(n) = "output" /\ ReadIn(g, nd.ins[1], "bwd") THEN shared ELSE nd
    BY <1>2, <1>7 DEF Marked
  <1> HIDE DEF shared, nd
  <1>10. /\ Marked(g, nd) \in Records(Forwards(g))
         /\ Marked(g, nd).type = TypeOf(n) /\ Marked(g, nd).ins = nd.ins
         /\ Marked(g, nd).role = IF TypeOf(n) = "output" /\ ReadIn(g, nd.ins[1], "bwd")
                                 THEN "shared" ELSE nd.role
    BY <1>2, <1>6, <1>8, <1>9
  <1> QED
    BY <1>10 DEF nd

\* The forward graph.
LEMMA ForwardIs ==
    ASSUME NEW m, IsTraced(m), NEW g, Well(g), Listed(m, g)
    PROVE  IsForward(g, ForwardGraph(g))
  <1> DEFINE D == DOMAIN g.node
             F == Forwards(g)
             I == Intermediates(g)
             S == {n \in DOMAIN g.node : NeedsIntermediateOutput(g, n)}
             saved == Only(g.nodes, S)
             names == [i \in DOMAIN saved |-> <<"intermediate", saved[i]>>]
             order == OfEpoch(g, TopologicalSort(g), "fwd")
             marks == [n \in ToSet(order) |-> Marked(g, g.node[n])]
             fwd == AddNodes(EmptyGraph, order, marks)
             shown == [o \in ToSet(names) |-> Node("output", "internal", "fwd", <<o[2]>>)]
             all == AddNodes(fwd, names, shown)
             h == ForwardGraph(g)
  <1>1. h = [all EXCEPT !.inputs = OfEpoch(g, OrderedModuleInputs(g), "fwd"),
                        !.outputs = g.outputs \o names]
    BY DEF ForwardGraph
  <1>2. IsGraph(g)
    BY DEF Well
  <1>3. order \in Seq(D) /\ Distinct(order) /\ ToSet(order) = F
    BY EpochOrder DEF Forwards
  <1> HIDE DEF order
  <1>4. saved \in Seq(D) /\ Distinct(saved) /\ ToSet(saved) = Saves(g)
    <2>1. S = Saves(g)
      BY SavesAre DEF Saves, ForwardOps
    <2>2. g.nodes \in Seq(D) /\ Distinct(g.nodes) /\ ToSet(g.nodes) = D
      BY <1>2 DEF IsGraph
    <2>3. Saves(g) \subseteq D
      BY DEF Saves, ForwardOps
    <2> HIDE DEF S
    <2>4. /\ Only(g.nodes, S) \in Seq(D) /\ Distinct(Only(g.nodes, S))
          /\ ToSet(Only(g.nodes, S)) = ToSet(g.nodes) \cap S
      BY <2>2, OnlyMembers, OnlyDistinct
    <2>5. ToSet(g.nodes) \cap S = Saves(g)
      BY <2>1, <2>2, <2>3
    <2> QED
      BY <2>4, <2>5
  <1> HIDE DEF saved
  <1>5. names \in Seq(I) /\ Distinct(names) /\ ToSet(names) = I
    <2>1. names \in Seq({<<"intermediate", x>> : x \in ToSet(saved)}) /\ Distinct(names)
          /\ ToSet(names) = {<<"intermediate", x>> : x \in ToSet(saved)}
      <3>1. IsNaming(saved, "intermediate", names)
        BY DEF IsNaming
      <3> HIDE DEF names
      <3> QED
        BY <3>1, <1>4, NamesOf
    <2> QED
      BY <2>1, <1>4 DEF Intermediates
  <1> HIDE DEF names
  <1>6. Saves(g) \subseteq F
    BY DEF Saves, ForwardOps, Forwards
  <1>7. \A x : /\ <<"intermediate", x>> \notin F /\ <<"intermediate", x>>[2] = x
    BY IntermediatesAreNew DEF Forwards
  <1>8. /\ IsGraph(fwd) /\ DOMAIN fwd.node = F /\ \A n \in F : fwd.node[n] = marks[n]
        /\ fwd.inputs = <<>> /\ fwd.outputs = <<>>
    <2>1. IsGraph(EmptyGraph) /\ DOMAIN EmptyGraph.node = {}
          /\ EmptyGraph.inputs = <<>> /\ EmptyGraph.outputs = <<>>
      BY EmptyIs DEF EmptyGraph
    <2>2. \A n \in F : marks[n] \in Records(F)
      BY <1>3, MarkedIs
    <2>3. \A i \in DOMAIN order : order[i] \in F
      BY <1>3, Entries
    <2> HIDE DEF marks
    <2>4. \A i \in DOMAIN order : marks[order[i]] \in Records(DOMAIN EmptyGraph.node \cup ToSet(order))
      BY <2>1, <2>2, <2>3, <1>3
    <2>5. ToSet(order) \cap DOMAIN EmptyGraph.node = {}
      BY <2>1
    <2>6. IsGraph(fwd) /\ IsExtension(EmptyGraph, fwd, ToSet(order), marks)
      BY <2>1, <2>4, <2>5, <1>3, AddNodesIs
    <2> QED
      BY <2>1, <2>6, <1>3 DEF IsExtension
  <1>9. ASSUME NEW n \in F
        PROVE  /\ fwd.node[n].type = TypeOf(n) /\ fwd.node[n].ins = g.node[n].ins
               /\ fwd.node[n].role = IF TypeOf(n) = "output" /\ ReadIn(g, g.node[n].ins[1], "bwd")
                                     THEN "shared" ELSE g.node[n].role
    <2>1. fwd.node[n] = Marked(g, g.node[n])
      BY <1>3, <1>8
    <2> HIDE DEF fwd
    <2> QED
      BY <2>1, MarkedIs
  <1> HIDE DEF fwd, marks
  <1>10. ASSUME NEW x \in Saves(g)
         PROVE  LET rec == shown[<<"intermediate", x>>]
                IN  rec \in Records(F) /\ rec.type = "output" /\ rec.role = "internal" /\ rec.ins = <<x>>
    <2>1. <<"intermediate", x>> \in ToSet(names)
      BY <1>5 DEF Intermediates
    <2>2. shown[<<"intermediate", x>>] = Node("output", "internal", "fwd", <<x>>)
      BY <2>1, <1>7
    <2>3. <<x>> \in Seq(F)
      BY <1>6, OneIs
    <2>4. "output" \in Types /\ "internal" \in Roles /\ "fwd" \in Epochs
      BY DEF Types, Roles, Epochs
    <2> DEFINE ins == <<x>>
    <2> HIDE DEF shown, F, ins
    <2>5. ins \in Seq(F)
      BY <2>3 DEF ins
    <2>6. /\ Node("output", "internal", "fwd", ins) \in Records(F)
          /\ Node("output", "internal", "fwd", ins).type = "output"
          /\ Node("output", "internal", "fwd", ins).role = "internal"
          /\ Node("output", "internal", "fwd", ins).ins = ins
      BY <2>4, <2>5, NodeIs
    <2> QED
      BY <2>2, <2>6 DEF ins
  <1>11. /\ IsGraph(all) /\ DOMAIN all.node = F \cup I
         /\ \A n \in F : all.node[n] = fwd.node[n]
         /\ \A o \in I : all.node[o] = shown[o]
    <2> HIDE DEF shown
    <2>1. \A i \in DOMAIN names : names[i] \in I
      BY <1>5, Entries
    <2>2. \A o \in I : shown[o] \in Records(F \cup I)
      <3>1. Records(F) \subseteq Records(F \cup I)
        BY RecordsGrow
      <3> QED
        BY <3>1, <1>10 DEF Intermediates
    <2>3. \A i \in DOMAIN names : shown[names[i]] \in Records(DOMAIN fwd.node \cup ToSet(names))
      BY <2>1, <2>2, <1>5, <1>8
    <2>4. ToSet(names) \cap DOMAIN fwd.node = {}
      BY <1>5, <1>7, <1>8 DEF Intermediates
    <2>5. IsGraph(all) /\ IsExtension(fwd, all, ToSet(names), shown)
      BY <2>3, <2>4, <1>5, <1>8, AddNodesIs
    <2> QED
      BY <2>5, <1>5, <1>8 DEF IsExtension
  <1> HIDE DEF all, shown
  <1>12. /\ OfEpoch(g, OrderedModuleInputs(g), "fwd") \in Seq(F \cup I)
         /\ g.outputs \o names \in Seq(F \cup I)
    <2>1. OrderedModuleInputs(g) \in Seq(D) /\ ToSet(OrderedModuleInputs(g)) \subseteq D
      BY <1>2, OrderedInputsAre, Entries
    <2>2. /\ OfEpoch(g, OrderedModuleInputs(g), "fwd") \in Seq(D)
          /\ ToSet(OfEpoch(g, OrderedModuleInputs(g), "fwd")) \subseteq F
      BY <2>1, OfEpochIs DEF Forwards
    <2>3. g.outputs \in Seq(D) /\ ToSet(g.outputs) \subseteq F
      <3>1. g.outputs \in Seq(D) /\ ToSet(g.outputs) \subseteq D
        BY <1>2, Entries DEF IsGraph
      <3>2. ToSet(g.outputs) = {Output(t) : t \in ToSet(m.outs)}
        BY OutputsAre DEF Listed, OutputNodes
      <3>3. \A t : EpochOf(Output(t)) = "fwd"
        BY NamesAre DEF Output
      <3> QED
        BY <3>1, <3>2, <3>3 DEF Forwards
    <2>4. /\ OfEpoch(g, OrderedModuleInputs(g), "fwd") \in Seq(F \cup I)
          /\ g.outputs \in Seq(F \cup I) /\ names \in Seq(F \cup I)
      BY <2>2, <2>3, <1>5, Retyped
    <2> QED
      BY <2>4, Joined
  <1>13. /\ h.node = all.node /\ h.nodes = all.nodes
         /\ h.inputs = OfEpoch(g, OrderedModuleInputs(g), "fwd")
         /\ h.outputs = g.outputs \o names
         /\ h = [nodes |-> h.nodes, node |-> h.node, inputs |-> h.inputs, outputs |-> h.outputs]
    <2>1. all = [nodes |-> all.nodes, node |-> all.node, inputs |-> all.inputs, outputs |-> all.outputs]
      BY <1>11 DEF IsGraph
    <2> QED
      BY <2>1, <1>1
  <1> HIDE DEF h
  <1>14. IsGraph(h)
    BY <1>11, <1>12, <1>13, RelistedIs DEF Relisted
  <1>15. \A n \in F :
            /\ h.node[n].type = TypeOf(n) /\ h.node[n].ins = g.node[n].ins
            /\ h.node[n].role = IF TypeOf(n) = "output" /\ ReadIn(g, g.node[n].ins[1], "bwd")
                                THEN "shared" ELSE g.node[n].role
    BY <1>9, <1>11, <1>13
  <1>16. \A x \in Saves(g) :
            /\ h.node[<<"intermediate", x>>].type = "output"
            /\ h.node[<<"intermediate", x>>].role = "internal"
            /\ h.node[<<"intermediate", x>>].ins = <<x>>
    BY <1>10, <1>11, <1>13 DEF Intermediates
  <1>17. \E ns \in Seq(I) : /\ h.outputs = g.outputs \o ns
                            /\ Distinct(ns) /\ ToSet(ns) = I
    BY <1>5, <1>13
  <1>18. IsForward(g, h)
    BY <1>11, <1>13, <1>14, <1>15, <1>16, <1>17 DEF IsForward
  <1> QED
    BY <1>18 DEF h

-----------------------------------------------------------------------------
\* extract_backward_graph.

Backwards(g) == {n \in DOMAIN g.node : EpochOf(n) = "bwd"}

\* The outputs of the forward graph that the backward graph takes in, and the
\* forward inputs it reads again.
SavedBy(g) ==
    Intermediates(g)
    \cup {o \in Forwards(g) : TypeOf(o) = "output" /\ ReadIn(g, g.node[o].ins[1], "bwd")}
ReadAgain(g) == {n \in Forwards(g) : TypeOf(n) = "input" /\ ReadIn(g, n, "bwd")}

BackwardName(n) == IF TypeOf(n) = "queue" THEN <<"grad_output", n>> ELSE n

\* The outputs that show a node.
Showing(fwd, x) ==
    {o \in DOMAIN fwd.node : fwd.node[o].type = "output" /\ x \in ToSet(fwd.node[o].ins)}

\* What the backward graph may read for operand x of g.
ReadFor(g, fwd, x) == IF x \in ForwardOps(g) THEN Showing(fwd, x) ELSE {x}

\* Operands s of g as the backward graph reads them.
IsBackwardOperands(g, fwd, s, t) ==
    /\ Len(t) >= Len(s)
    /\ \A y \in ToSet(t) : \/ y \in ToSet(s) /\ y \notin ForwardOps(g)
                           \/ \E x \in ToSet(s) \cap ForwardOps(g) : y \in Showing(fwd, x)
    /\ \A x \in ToSet(s) : IF x \in ForwardOps(g) THEN Showing(fwd, x) \subseteq ToSet(t)
                                                  ELSE x \in ToSet(t)
    /\ (\A x \in ToSet(s) \cap ForwardOps(g) : \E o : Showing(fwd, x) = {o}) =>
          Len(t) = Len(s) /\ \A i \in DOMAIN s : t[i] \in ReadFor(g, fwd, s[i])

\* The outputs of the forward graph that show what a node reads of an op.
LEMMA OutputReads ==
    ASSUME NEW g, Well(g), NEW o \in DOMAIN g.node, TypeOf(o) = "output"
    PROVE  /\ g.node[o].ins \in Seq(DOMAIN g.node) /\ Len(g.node[o].ins) = 1
           /\ ToSet(g.node[o].ins) = {g.node[o].ins[1]}
  <1>1. g.node[o] \in Records(DOMAIN g.node) /\ Whole(o, g.node[o])
    BY DEF Well, IsGraph
  <1>2. g.node[o].ins \in Seq(DOMAIN g.node)
    BY <1>1 DEF Records
  <1>3. Len(g.node[o].ins) = 1
    BY <1>1 DEF Whole, Fits, Ports
  <1>4. DOMAIN g.node[o].ins = {1}
    BY <1>2, <1>3
  <1> QED
    BY <1>2, <1>3, <1>4 DEF ToSet

\* An op that the backward pass reads is shown, and only by what is saved.
LEMMA ShowingIs ==
    ASSUME NEW g, Well(g), NEW fwd, IsForward(g, fwd), NEW x \in ForwardOps(g),
           ReadIn(g, x, "bwd")
    PROVE  Showing(fwd, x) # {} /\ Showing(fwd, x) \subseteq SavedBy(g)
  <1>1. /\ IsGraph(fwd) /\ DOMAIN fwd.node = Forwards(g) \cup Intermediates(g)
        /\ \A n \in Forwards(g) : fwd.node[n].type = TypeOf(n) /\ fwd.node[n].ins = g.node[n].ins
        /\ \A n \in Saves(g) : /\ fwd.node[<<"intermediate", n>>].type = "output"
                               /\ fwd.node[<<"intermediate", n>>].ins = <<n>>
    BY DEF IsForward
  <1>2. Showing(fwd, x) # {}
    <2>1. CASE x \in Saves(g)
      <3>1. ToSet(<<x>>) = {x}
        BY OneIs
      <3>2. <<"intermediate", x>> \in DOMAIN fwd.node
        BY <2>1, <1>1 DEF Intermediates
      <3> QED
        BY <2>1, <3>1, <3>2, <1>1 DEF Showing
    <2>2. CASE x \notin Saves(g)
      <3>1. PICK o \in DOMAIN g.node : x \in ToSet(g.node[o].ins) /\ TypeOf(o) = "output"
        BY <2>2 DEF Saves
      <3>2. EpochOf(o) = "fwd"
        <4>1. Whole(o, g.node[o])
          BY DEF Well
        <4>2. ~OneOf(o, SinkKinds)
          <5>1. EpochOf(x) = "fwd"
            BY DEF ForwardOps
          <5>2. ~OneOf(x, GradKinds)
            BY <5>1, GradientsAre
          <5> QED
            BY <5>2, <4>1, <3>1 DEF Whole, Fits, MayRead
        <4> QED
          BY <4>1, <4>2, <3>1 DEF TypeOf, EpochOf, OneOf, SinkKinds, FwdKinds
      <3>3. o \in Forwards(g)
        BY <3>2 DEF Forwards
      <3> QED
        BY <3>1, <3>3, <1>1 DEF Showing
    <2> QED
      BY <2>1, <2>2
  <1>3. ASSUME NEW o \in Showing(fwd, x) PROVE o \in SavedBy(g)
    <2>1. o \in DOMAIN fwd.node /\ fwd.node[o].type = "output" /\ x \in ToSet(fwd.node[o].ins)
      BY <1>3 DEF Showing
    <2>2. CASE o \in Forwards(g)
      <3>1. TypeOf(o) = "output" /\ x \in ToSet(g.node[o].ins) /\ o \in DOMAIN g.node
        BY <2>1, <2>2, <1>1 DEF Forwards
      <3>2. x = g.node[o].ins[1]
        <4>1. ToSet(g.node[o].ins) = {g.node[o].ins[1]}
          BY <3>1, OutputReads
        <4> QED
          BY <3>1, <4>1
      <3> QED
        BY <3>1, <3>2, <2>2 DEF SavedBy
    <2>3. CASE o \in Intermediates(g)
      BY <2>3 DEF SavedBy
    <2> QED
      BY <2>1, <2>2, <2>3, <1>1
  <1> QED
    BY <1>2, <1>3

\* The list of the outputs that show a node.
LEMMA ShownList ==
    ASSUME NEW fwd, IsGraph(fwd), NEW x
    PROVE  LET s == Only(Users(fwd, x), ToSet(OfType(fwd, "output")))
           IN  s \in Seq(DOMAIN fwd.node) /\ Distinct(s) /\ ToSet(s) = Showing(fwd, x)
  <1>1. /\ Users(fwd, x) \in Seq(DOMAIN fwd.node)
        /\ ToSet(Users(fwd, x)) = {u \in DOMAIN fwd.node : x \in ToSet(fwd.node[u].ins)}
    BY UsersAre
  <1>2. Distinct(Users(fwd, x))
    BY OnlyDistinct DEF Users, IsGraph
  <1>3. ToSet(OfType(fwd, "output")) = {n \in DOMAIN fwd.node : fwd.node[n].type = "output"}
    BY OfTypeIs
  <1> DEFINE S == ToSet(OfType(fwd, "output"))
             U == Users(fwd, x)
  <1> HIDE DEF S, U
  <1>4. /\ Only(U, S) \in Seq(DOMAIN fwd.node) /\ ToSet(Only(U, S)) = ToSet(U) \cap S
        /\ Distinct(Only(U, S))
    BY <1>1, <1>2, OnlyMembers, OnlyDistinct DEF U
  <1>5. ToSet(U) \cap S = Showing(fwd, x)
    BY <1>1, <1>3 DEF U, S, Showing
  <1> QED
    BY <1>4, <1>5 DEF U, S

\* A list without repetitions of one thing has one entry, of something at least one.
LEMMA CountsOf ==
    ASSUME NEW T, NEW s \in Seq(T), Distinct(s)
    PROVE  /\ ToSet(s) # {} => Len(s) >= 1
           /\ \A o : ToSet(s) = {o} => Len(s) = 1
  <1>1. DOMAIN s = 1..Len(s) /\ Len(s) \in Nat /\ \A i \in DOMAIN s : s[i] \in ToSet(s)
    BY Entries
  <1>2. ToSet(s) # {} => Len(s) >= 1
    BY <1>1 DEF ToSet
  <1>3. ASSUME NEW o, ToSet(s) = {o} PROVE Len(s) = 1
    <2>1. Len(s) >= 1
      BY <1>2, <1>3
    <2>2. ASSUME Len(s) >= 2 PROVE FALSE
      <3>1. 1 \in DOMAIN s /\ 2 \in DOMAIN s
        BY <1>1, <2>2
      <3>2. s[1] = s[2]
        BY <3>1, <1>1, <1>3
      <3> QED
        BY <3>1, <3>2 DEF Distinct
    <2> QED
      BY <1>1, <2>1, <2>2
  <1> QED
    BY <1>2, <1>3

\* The operands of a node of the backward graph.
LEMMA BackwardOperandsAre ==
    ASSUME NEW g, Well(g), NEW fwd, IsForward(g, fwd), NEW s \in Seq(DOMAIN g.node), NEW h,
           \A x \in ToSet(s) : IF x \in ForwardOps(g)
                               THEN x \notin DOMAIN h.node /\ ReadIn(g, x, "bwd")
                               ELSE x \in DOMAIN h.node
    PROVE  LET t == BackwardOperands(fwd, h, s)
           IN  /\ t \in Seq(DOMAIN h.node \cup SavedBy(g))
               /\ IsBackwardOperands(g, fwd, s, t)
  <1> DEFINE T == DOMAIN h.node \cup SavedBy(g)
             O == ForwardOps(g)
             Shown(x) == Only(Users(fwd, x), ToSet(OfType(fwd, "output")))
             part(x) == IF HasNode(h, x) THEN <<x>> ELSE Shown(x)
             parts == [i \in DOMAIN s |-> part(s[i])]
             t == FlattenSeq(parts)
  <1>1. BackwardOperands(fwd, h, s) = t
    BY DEF BackwardOperands
  <1>2. IsGraph(fwd)
    BY DEF IsForward
  <1>3. DOMAIN s = 1..Len(s) /\ Len(s) \in Nat /\ \A i \in DOMAIN s : s[i] \in ToSet(s)
    BY Entries
  <1>4. ASSUME NEW x \in ToSet(s)
        PROVE  /\ part(x) \in Seq(T) /\ Len(part(x)) >= 1
               /\ x \notin O => ToSet(part(x)) = {x} /\ Len(part(x)) = 1
               /\ x \in O => /\ ToSet(part(x)) = Showing(fwd, x)
                             /\ \A o : Showing(fwd, x) = {o} => Len(part(x)) = 1
    <2>1. CASE x \notin O
      <3>1. x \in DOMAIN h.node /\ part(x) = <<x>>
        BY <2>1 DEF HasNode
      <3>2. <<x>> \in Seq(T) /\ ToSet(<<x>>) = {x} /\ Len(<<x>>) = 1
        BY <3>1, OneIs
      <3> HIDE DEF part, O, T
      <3> QED
        BY <2>1, <3>1, <3>2
    <2>2. CASE x \in O
      <3>1. part(x) = Shown(x) /\ ReadIn(g, x, "bwd")
        BY <2>2 DEF HasNode
      <3>2. Shown(x) \in Seq(DOMAIN fwd.node) /\ Distinct(Shown(x)) /\ ToSet(Shown(x)) = Showing(fwd, x)
        BY <1>2, ShownList
      <3> HIDE DEF Shown
      <3>3. Showing(fwd, x) # {} /\ Showing(fwd, x) \subseteq T
        BY <2>2, <3>1, ShowingIs
      <3> HIDE DEF T
      <3>4. Shown(x) \in Seq(T)
        BY <3>2, <3>3, Retyped
      <3>5. Len(Shown(x)) >= 1 /\ \A o : ToSet(Shown(x)) = {o} => Len(Shown(x)) = 1
        BY <3>2, <3>3, CountsOf
      <3>6. Len(Shown(x)) >= 1 /\ \A o : Showing(fwd, x) = {o} => Len(Shown(x)) = 1
        BY <3>2, <3>3, <3>5
      <3> HIDE DEF part, O
      <3>7. part(x) \in Seq(T) /\ Len(part(x)) >= 1 /\ ToSet(part(x)) = Showing(fwd, x)
        BY <3>1, <3>2, <3>4, <3>6
      <3>8. \A o : Showing(fwd, x) = {o} => Len(part(x)) = 1
        BY <3>1, <3>6
      <3> QED
        BY <2>2, <3>7, <3>8
    <2> HIDE DEF part, O, T
    <2> QED
      BY <2>1, <2>2
  <1> HIDE DEF part, T
  <1>5. parts \in Seq(Seq(T)) /\ DOMAIN parts = DOMAIN s /\ Len(parts) = Len(s)
    <2>1. parts \in [1..Len(s) -> Seq(T)]
      BY <1>3, <1>4
    <2> QED
      BY <2>1, <1>3
  <1>6. \A i \in DOMAIN s : parts[i] = part(s[i])
    OBVIOUS
  <1> HIDE DEF parts
  <1>7. /\ t \in Seq(T)
        /\ ToSet(t) = UNION {ToSet(parts[i]) : i \in DOMAIN parts}
        /\ (\A i \in DOMAIN parts : Len(parts[i]) >= 1) => Len(t) >= Len(parts)
        /\ (\A i \in DOMAIN parts : Len(parts[i]) = 1) =>
              Len(t) = Len(parts) /\ \A i \in DOMAIN parts : t[i] = parts[i][1]
    BY <1>5, FlattenIs
  <1> HIDE DEF t, O
  <1>8. Len(t) >= Len(s)
    BY <1>3, <1>4, <1>5, <1>6, <1>7
  <1>9. ASSUME NEW y \in ToSet(t)
        PROVE  \/ y \in ToSet(s) /\ y \notin O
               \/ \E x \in ToSet(s) \cap O : y \in Showing(fwd, x)
    <2>1. PICK i \in DOMAIN parts : y \in ToSet(parts[i])
      BY <1>7
    <2>2. s[i] \in ToSet(s) /\ y \in ToSet(part(s[i]))
      BY <2>1, <1>3, <1>5, <1>6
    <2> QED
      BY <2>2, <1>4
  <1>10. ASSUME NEW x \in ToSet(s)
         PROVE  IF x \in O THEN Showing(fwd, x) \subseteq ToSet(t) ELSE x \in ToSet(t)
    <2>1. PICK i \in DOMAIN s : s[i] = x
      BY DEF ToSet
    <2>2. ToSet(part(x)) \subseteq ToSet(t)
      BY <2>1, <1>5, <1>6, <1>7
    <2> QED
      BY <2>2, <1>4
  <1>11. ASSUME \A x \in ToSet(s) \cap O : \E o : Showing(fwd, x) = {o}
         PROVE  Len(t) = Len(s) /\ \A i \in DOMAIN s : t[i] \in ReadFor(g, fwd, s[i])
    <2>1. \A x \in ToSet(s) : Len(part(x)) = 1
      BY <1>4, <1>11
    <2>2. Len(t) = Len(s) /\ \A i \in DOMAIN s : t[i] = part(s[i])[1]
      BY <2>1, <1>3, <1>5, <1>6, <1>7
    <2>3. ASSUME NEW x \in ToSet(s) PROVE part(x)[1] \in ReadFor(g, fwd, x)
      <3>1. part(x) \in Seq(T) /\ Len(part(x)) = 1
        BY <2>1, <1>4
      <3>2. part(x)[1] \in ToSet(part(x))
        BY <3>1, Entries
      <3>3. ToSet(part(x)) = ReadFor(g, fwd, x)
        BY <1>4 DEF ReadFor, O
      <3> QED
        BY <3>2, <3>3
    <2> QED
      BY <2>2, <2>3, <1>3
  <1>12. IsBackwardOperands(g, fwd, s, t)
    BY <1>8, <1>9, <1>10, <1>11 DEF IsBackwardOperands, O
  <1> QED
    BY <1>1, <1>7, <1>12 DEF t, T

-----------------------------------------------------------------------------
\* The backward graph, node by node.

BuiltUpTo(g, fwd, start, order, n, built) ==
    built = [i \in 0..n |->
                IF i = 0 THEN start ELSE Extended(g, fwd, built[i - 1], order[i])]

\* The function BackwardGraph chooses exists.
LEMMA BuiltDefined ==
    ASSUME NEW g, NEW fwd, NEW start, NEW order, NEW len \in Nat
    PROVE  LET chosen == CHOOSE f : BuiltUpTo(g, fwd, start, order, len, f)
           IN  BuiltUpTo(g, fwd, start, order, len, chosen)
  <1> DEFINE Good == {n \in Nat : \E built : BuiltUpTo(g, fwd, start, order, n, built)}
  <1>1. 0 \in Good
    <2> DEFINE built == [i \in 0..0 |-> start]
    <2>1. BuiltUpTo(g, fwd, start, order, 0, built)
      BY DEF BuiltUpTo
    <2> QED
      BY <2>1
  <1>2. ASSUME NEW n \in Nat, n \in Good PROVE n + 1 \in Good
    <2>1. PICK built : BuiltUpTo(g, fwd, start, order, n, built)
      BY <1>2
    <2> DEFINE next == Extended(g, fwd, built[n], order[n + 1])
               more == [i \in 0..(n + 1) |-> IF i = n + 1 THEN next ELSE built[i]]
    <2>2. BuiltUpTo(g, fwd, start, order, n + 1, more)
      <3>1. \A i \in 0..n : more[i] = built[i]
        OBVIOUS
      <3>2. \A i \in 0..n : built[i] = IF i = 0 THEN start
                                       ELSE Extended(g, fwd, built[i - 1], order[i])
        BY <2>1 DEF BuiltUpTo
      <3>3. ASSUME NEW i \in 0..(n + 1)
            PROVE  more[i] = IF i = 0 THEN start ELSE Extended(g, fwd, more[i - 1], order[i])
        <4>1. CASE i = n + 1
          <5>1. i - 1 = n /\ n \in 0..n /\ i # 0
            BY <4>1
          <5>2. more[i] = next /\ more[i - 1] = built[n]
            BY <4>1, <5>1
          <5> QED
            BY <4>1, <5>1, <5>2
        <4>2. CASE i \in 1..n
          <5>1. i - 1 \in 0..n /\ i \in 0..n
            BY <4>2
          <5>2. more[i] = built[i] /\ more[i - 1] = built[i - 1]
            BY <5>1, <3>1
          <5> HIDE DEF more
          <5> QED
            BY <4>2, <5>1, <5>2, <3>2
        <4>3. CASE i = 0
          BY <4>3, <3>1, <3>2
        <4> QED
          BY <4>1, <4>2, <4>3
      <3> HIDE DEF more, next
      <3> QED
        BY <3>3 DEF BuiltUpTo, more
    <2> QED
      BY <2>2
  <1>3. len \in Good
    <2> HIDE DEF Good
    <2> QED
      BY <1>1, <1>2, SetInduction
  <1> QED
    BY <1>3

\* The record of a node of the backward epoch in the backward graph.
IsBackwardNode(g, fwd, n, rec) ==
    /\ rec.type = IF TypeOf(n) = "queue" THEN "output" ELSE TypeOf(n)
    /\ rec.role = IF TypeOf(n) = "queue" THEN "internal" ELSE g.node[n].role
    /\ IF TypeOf(n) = "queue" THEN rec.ins = g.node[n].ins
       ELSE IsBackwardOperands(g, fwd, g.node[n].ins, rec.ins)

\* The backward graph behind nodes S of the backward epoch.
IsBackwardOf(g, fwd, S, h) ==
    /\ IsGraph(h) /\ Acyclic(h)
    /\ DOMAIN h.node = SavedBy(g) \cup ReadAgain(g) \cup {BackwardName(n) : n \in S}
    /\ \A o \in SavedBy(g) : h.node[o] = Saved
    /\ \A n \in ReadAgain(g) : h.node[n] = g.node[n]
    /\ \A n \in S : IsBackwardNode(g, fwd, n, h.node[BackwardName(n)])

\* The names of the backward graph's nodes are apart.
LEMMA BackwardNamesDiffer ==
    ASSUME NEW g, Well(g), NEW n \in Backwards(g), NEW S, S \subseteq Backwards(g), n \notin S
    PROVE  BackwardName(n) \notin SavedBy(g) \cup ReadAgain(g) \cup {BackwardName(b) : b \in S}
  <1>1. \A b : <<"grad_output", b>> \notin Leaves /\ <<"grad_output", b>>[1] = "grad_output"
               /\ <<"grad_output", b>>[2] = b
    BY NotLeaves
  <1>2. "grad_output" \notin AllKinds /\ "grad_output" # "intermediate"
    BY DEF AllKinds, FwdKinds, GradKinds, SinkKinds, OptKinds
  <1>3. \A b : <<"grad_output", b>> \notin DOMAIN g.node
    BY <1>1, <1>2 DEF Well, Whole, Fits
  <1>4. \A o \in Intermediates(g) : o \notin DOMAIN g.node /\ o[1] = "intermediate"
    BY IntermediatesAreNew DEF Intermediates
  <1>5. \A o \in SavedBy(g) \cup ReadAgain(g) :
           o \in Intermediates(g) \/ (o \in DOMAIN g.node /\ EpochOf(o) = "fwd")
    BY DEF SavedBy, ReadAgain, Forwards
  <1>6. n \in DOMAIN g.node /\ EpochOf(n) = "bwd" /\ S \subseteq DOMAIN g.node
    BY DEF Backwards
  <1>7. BackwardName(n) \notin SavedBy(g) \cup ReadAgain(g)
    <2>1. CASE TypeOf(n) = "queue"
      <3>1. BackwardName(n) = <<"grad_output", n>>
        BY <2>1 DEF BackwardName
      <3> QED
        BY <3>1, <1>1, <1>2, <1>3, <1>4, <1>5
    <2>2. CASE TypeOf(n) # "queue"
      <3>1. BackwardName(n) = n
        BY <2>2 DEF BackwardName
      <3> QED
        BY <3>1, <1>4, <1>5, <1>6
    <2> QED
      BY <2>1, <2>2
  <1>8. ASSUME NEW b \in S PROVE BackwardName(n) # BackwardName(b)
    <2>1. b # n /\ b \in DOMAIN g.node
      BY <1>6
    <2>2. <<"grad_output", n>> # <<"grad_output", b>>
      BY <2>1, <1>1
    <2>3. <<"grad_output", n>> # b /\ n # <<"grad_output", b>>
      BY <2>1, <1>3, <1>6
    <2> QED
      BY <2>1, <2>2, <2>3 DEF BackwardName
  <1> QED
    BY <1>7, <1>8

\* The backward graph before the first node of its own.
LEMMA BackwardStarts ==
    ASSUME NEW g, Well(g), NEW fwd, IsForward(g, fwd)
    PROVE  LET saved == Only(OfType(fwd, "output"), {o \in DOMAIN fwd.node : IsIntermediate(fwd, o)})
               read == OfEpoch(g, Only(OfType(g, "input"),
                                {n \in DOMAIN g.node : HasUsersIn(g, n, "bwd")}), "fwd")
               start == AddNodes(AddNodes(EmptyGraph, saved, [o \in ToSet(saved) |-> Saved]),
                                 read, [n \in ToSet(read) |-> g.node[n]])
           IN  IsBackwardOf(g, fwd, {}, start) /\ start.inputs = <<>> /\ start.outputs = <<>>
  <1> DEFINE out == OfType(fwd, "output")
             mid == {o \in DOMAIN fwd.node : IsIntermediate(fwd, o)}
             saved == Only(out, mid)
             inp == OfType(g, "input")
             reread == {n \in DOMAIN g.node : HasUsersIn(g, n, "bwd")}
             some == Only(inp, reread)
             read == OfEpoch(g, some, "fwd")
             srec == [o \in ToSet(saved) |-> Saved]
             rrec == [n \in ToSet(read) |-> g.node[n]]
             base == AddNodes(EmptyGraph, saved, srec)
             start == AddNodes(base, read, rrec)
  <1>1. /\ IsGraph(fwd) /\ DOMAIN fwd.node = Forwards(g) \cup Intermediates(g)
        /\ \A n \in Forwards(g) :
              /\ fwd.node[n].type = TypeOf(n)
              /\ fwd.node[n].role = IF TypeOf(n) = "output" /\ ReadIn(g, g.node[n].ins[1], "bwd")
                                    THEN "shared" ELSE g.node[n].role
        /\ \A n \in Saves(g) : /\ fwd.node[<<"intermediate", n>>].type = "output"
                               /\ fwd.node[<<"intermediate", n>>].role = "internal"
    BY DEF IsForward
  <1>2. /\ out \in Seq(DOMAIN fwd.node) /\ Distinct(out)
        /\ ToSet(out) = {n \in DOMAIN fwd.node : fwd.node[n].type = "output"}
    BY <1>1, OfTypeIs
  <1>3. saved \in Seq(DOMAIN fwd.node) /\ Distinct(saved) /\ ToSet(saved) = ToSet(out) \cap mid
    <2> HIDE DEF out, mid
    <2> QED
      BY <1>2, OnlyMembers, OnlyDistinct
  <1>4. ToSet(saved) = SavedBy(g)
    <2>1. ASSUME NEW o \in Forwards(g)
          PROVE  o \in ToSet(saved) <=> TypeOf(o) = "output" /\ ReadIn(g, g.node[o].ins[1], "bwd")
      <3>1. o \in ToSet(saved) <=> TypeOf(o) = "output" /\ fwd.node[o].role \in {"internal", "shared"}
        BY <1>1, <1>2, <1>3 DEF IsIntermediate
      <3>2. TypeOf(o) = "output" => g.node[o].role = "external"
        BY DEF Well, Whole, Fits, Forwards, TypeOf, RolesOf, Leaves
      <3> QED
        BY <3>1, <3>2, <1>1
    <2>2. Intermediates(g) \subseteq ToSet(saved)
      BY <1>1, <1>2, <1>3 DEF IsIntermediate, Intermediates
    <2>3. ToSet(saved) \subseteq Forwards(g) \cup Intermediates(g)
      BY <1>1, <1>2, <1>3
    <2> HIDE DEF saved
    <2> QED
      BY <2>1, <2>2, <2>3 DEF SavedBy
  <1>5. IsGraph(g)
    BY DEF Well
  <1>6. /\ inp \in Seq(DOMAIN g.node) /\ Distinct(inp)
        /\ ToSet(inp) = {n \in DOMAIN g.node : g.node[n].type = "input"}
    BY <1>5, OfTypeIs
  <1>7. some \in Seq(DOMAIN g.node) /\ Distinct(some) /\ ToSet(some) = ToSet(inp) \cap reread
    <2> HIDE DEF inp, reread
    <2> QED
      BY <1>6, OnlyMembers, OnlyDistinct
  <1>8. read \in Seq(DOMAIN g.node) /\ Distinct(read)
        /\ ToSet(read) = {n \in ToSet(some) : EpochOf(n) = "fwd"}
    <2> HIDE DEF some
    <2> QED
      BY <1>7, OfEpochIs
  <1>9. ToSet(read) = ReadAgain(g)
    <2>1. \A n \in DOMAIN g.node : g.node[n].type = TypeOf(n)
      BY DEF Well, Whole, Fits
    <2>2. \A n : HasUsersIn(g, n, "bwd") <=> ReadIn(g, n, "bwd")
      BY ReadInIs
    <2> QED
      BY <2>1, <2>2, <1>6, <1>7, <1>8 DEF ReadAgain, Forwards
  <1>10. IsGraph(EmptyGraph) /\ DOMAIN EmptyGraph.node = {} /\ Acyclic(EmptyGraph)
         /\ EmptyGraph.inputs = <<>> /\ EmptyGraph.outputs = <<>>
    <2>1. EmptyGraph.inputs = <<>> /\ EmptyGraph.outputs = <<>>
      BY DEF EmptyGraph
    <2> QED
      BY <2>1, EmptyIs
  <1>11. \A D : Saved \in Records(D) /\ Saved.ins = <<>>
    <2>1. \A D : <<>> \in Seq(D)
      OBVIOUS
    <2>2. "input" \in Types /\ "activation" \in Roles /\ "fwd" \in Epochs
      BY DEF Types, Roles, Epochs
    <2> QED
      BY <2>1, <2>2 DEF Saved, Records, Node
  <1> HIDE DEF saved, read, srec, rrec, base
  <1>12. /\ IsGraph(base) /\ DOMAIN base.node = SavedBy(g) /\ \A o \in SavedBy(g) : base.node[o] = Saved
         /\ base.inputs = <<>> /\ base.outputs = <<>> /\ Acyclic(base)
    <2>1. \A o \in ToSet(saved) : srec[o] = Saved
      BY DEF srec
    <2>2. \A i \in DOMAIN saved : saved[i] \in ToSet(saved)
      BY <1>3, Entries
    <2>3. \A i \in DOMAIN saved : srec[saved[i]] \in Records(DOMAIN EmptyGraph.node \cup ToSet(saved))
      BY <2>1, <2>2, <1>11
    <2>4. IsGraph(base) /\ IsExtension(EmptyGraph, base, ToSet(saved), srec)
      BY <2>3, <1>3, <1>10, AddNodesIs DEF base
    <2>5. Stacked(EmptyGraph, saved, srec)
      <3>1. ToSet(<<>>) = {}
        BY DEF ToSet
      <3> QED
        BY <3>1, <2>1, <2>2, <1>11 DEF Stacked
    <2>6. Acyclic(base)
      BY <2>4, <2>5, <1>3, <1>10, AddNodesAcyclic
    <2> QED
      BY <2>1, <2>4, <2>6, <1>4, <1>10 DEF IsExtension
  <1>13. \A n \in ReadAgain(g) : g.node[n].ins = <<>> /\ \A D : g.node[n] \in Records(D)
    <2> TAKE n \in ReadAgain(g)
    <2>1. n \in DOMAIN g.node /\ TypeOf(n) = "input"
      BY DEF ReadAgain, Forwards
    <2>2. g.node[n] \in Records(DOMAIN g.node) /\ Whole(n, g.node[n])
      BY <2>1 DEF Well, IsGraph
    <2>3. Len(g.node[n].ins) = 0 /\ g.node[n].ins \in Seq(DOMAIN g.node)
      BY <2>1, <2>2 DEF Whole, Fits, Ports, Records
    <2>4. g.node[n].ins = <<>>
      BY <2>3
    <2>5. \A D : <<>> \in Seq(D)
      OBVIOUS
    <2> QED
      BY <2>2, <2>4, <2>5 DEF Records
  <1>14. SavedBy(g) \cap ReadAgain(g) = {}
    <2>1. \A o \in SavedBy(g) : o \in DOMAIN g.node => TypeOf(o) = "output"
      BY IntermediatesAreNew DEF SavedBy, Intermediates
    <2> QED
      BY <2>1 DEF ReadAgain, Forwards
  <1>15. /\ IsGraph(start) /\ DOMAIN start.node = SavedBy(g) \cup ReadAgain(g) /\ Acyclic(start)
         /\ \A o \in SavedBy(g) : start.node[o] = Saved
         /\ \A n \in ReadAgain(g) : start.node[n] = g.node[n]
         /\ start.inputs = <<>> /\ start.outputs = <<>>
    <2>1. \A n \in ToSet(read) : rrec[n] = g.node[n]
      BY DEF rrec
    <2>2. \A i \in DOMAIN read : read[i] \in ToSet(read)
      BY <1>8, Entries
    <2>3. \A i \in DOMAIN read : rrec[read[i]] \in Records(DOMAIN base.node \cup ToSet(read))
      BY <2>1, <2>2, <1>9, <1>13
    <2>4. IsGraph(start) /\ IsExtension(base, start, ToSet(read), rrec)
      BY <2>3, <1>8, <1>9, <1>12, <1>14, AddNodesIs DEF start
    <2>5. Stacked(base, read, rrec)
      <3>1. ToSet(<<>>) = {}
        BY DEF ToSet
      <3> QED
        BY <3>1, <2>1, <2>2, <1>9, <1>13 DEF Stacked
    <2> HIDE DEF start
    <2>6. Acyclic(start)
      BY <2>4, <2>5, <1>8, <1>9, <1>12, <1>14, AddNodesAcyclic
    <2> QED
      BY <2>1, <2>4, <2>6, <1>9, <1>12 DEF IsExtension
  <1>16. IsBackwardOf(g, fwd, {}, start) /\ start.inputs = <<>> /\ start.outputs = <<>>
    BY <1>15 DEF IsBackwardOf
  <1> QED
    BY <1>16 DEF start, base, saved, read, srec, rrec

\* What a node of the backward epoch reads: nodes of its epoch that come before, what
\* is read again of the forward inputs, and forward ops.
LEMMA BackwardReads ==
    ASSUME NEW g, Well(g), NEW n \in Backwards(g), NEW x \in ToSet(g.node[n].ins)
    PROVE  /\ x \in DOMAIN g.node /\ TypeOf(x) \in {"input", "op"}
           /\ EpochOf(x) = "bwd" => x \in Backwards(g) /\ BackwardName(x) = x
           /\ EpochOf(x) # "bwd" => EpochOf(x) = "fwd" /\ x \in ReadAgain(g) \cup ForwardOps(g)
           /\ x \in ForwardOps(g) => ReadIn(g, x, "bwd") /\ x \notin ReadAgain(g)
           /\ TypeOf(n) = "queue" => EpochOf(x) = "bwd"
  <1>1. n \in DOMAIN g.node /\ EpochOf(n) = "bwd" /\ Whole(n, g.node[n])
        /\ g.node[n] \in Records(DOMAIN g.node)
    BY DEF Well, Backwards, IsGraph
  <1>2. x \in DOMAIN g.node
    BY <1>1, Entries DEF Records
  <1>3. MayRead(n, g.node[n].role, x)
    BY <1>1 DEF Whole, Fits
  <1>4. TypeOf(x) \in {"input", "op"} /\ EpochOf(x) # "opt"
    BY <1>1, <1>3 DEF MayRead
  <1>5. EpochOf(x) \in {"fwd", "bwd"}
    BY <1>4 DEF EpochOf
  <1>6. ReadIn(g, x, "bwd")
    BY <1>1 DEF ReadIn
  <1>7. EpochOf(x) = "fwd" => x \in ReadAgain(g) \cup ForwardOps(g)
    BY <1>2, <1>4, <1>6 DEF ReadAgain, ForwardOps, Forwards
  <1>8. x \in ForwardOps(g) => x \notin ReadAgain(g)
    BY DEF ReadAgain, ForwardOps
  <1>9. ASSUME TypeOf(n) = "queue" PROVE EpochOf(x) = "bwd"
    <2>1. OneOf(n, SinkKinds)
      BY <1>9 DEF TypeOf, OneOf, SinkKinds
    <2>2. OneOf(x, GradKinds)
      BY <2>1, <1>3 DEF MayRead
    <2> QED
      BY <2>2, GradientsAre
  <1> QED
    BY <1>2, <1>4, <1>5, <1>6, <1>7, <1>8, <1>9 DEF Backwards, BackwardName

\* One more node of the backward epoch.
LEMMA ExtendedIs ==
    ASSUME NEW g, Well(g), NEW fwd, IsForward(g, fwd), NEW S, S \subseteq Backwards(g),
           NEW h, IsBackwardOf(g, fwd, S, h), h.inputs = <<>>, h.outputs = <<>>,
           NEW n \in Backwards(g), n \notin S,
           \A x \in ToSet(g.node[n].ins) : EpochOf(x) = "bwd" => x \in S
    PROVE  LET e == Extended(g, fwd, h, n)
           IN  IsBackwardOf(g, fwd, S \cup {n}, e) /\ e.inputs = <<>> /\ e.outputs = <<>>
  <1> DEFINE D == DOMAIN h.node
             s == g.node[n].ins
             name == BackwardName(n)
             e == Extended(g, fwd, h, n)
  <1>1. /\ IsGraph(h) /\ Acyclic(h)
        /\ D = SavedBy(g) \cup ReadAgain(g) \cup {BackwardName(b) : b \in S}
        /\ \A o \in SavedBy(g) : h.node[o] = Saved
        /\ \A b \in ReadAgain(g) : h.node[b] = g.node[b]
        /\ \A b \in S : IsBackwardNode(g, fwd, b, h.node[BackwardName(b)])
    BY DEF IsBackwardOf
  <1>2. /\ n \in DOMAIN g.node /\ g.node[n] \in Records(DOMAIN g.node)
        /\ g.node[n].type = TypeOf(n) /\ s \in Seq(DOMAIN g.node)
    BY DEF Well, Whole, Fits, Backwards, IsGraph, Records
  <1>3. name \notin D
    <2>1. name \notin SavedBy(g) \cup ReadAgain(g) \cup {BackwardName(b) : b \in S}
      BY BackwardNamesDiffer
    <2> QED
      BY <2>1, <1>1
  <1>4. \A x \in ToSet(s) : EpochOf(x) = "bwd" => x \in D
    BY <1>1, BackwardReads
  \* What is added, and to which graph.
  <1>5. \E h1, rec :
           /\ IsGraph(h1) /\ h1.node = h.node /\ h1.inputs = <<>> /\ h1.outputs = <<>>
           /\ rec \in Records(D) /\ IsBackwardNode(g, fwd, n, rec)
           /\ e = AddNode(h1, name, rec)
    <2>1. CASE TypeOf(n) = "queue"
      <3> DEFINE rec == Node("output", "internal", "fwd", s)
      <3>1. ToSet(s) \subseteq D
        BY <2>1, <1>4, BackwardReads
      <3>2. s \in Seq(D)
        BY <3>1, <1>2, Retyped
      <3>3. "output" \in Types /\ "internal" \in Roles /\ "fwd" \in Epochs
        BY DEF Types, Roles, Epochs
      <3> HIDE DEF D, s
      <3>4. rec \in Records(D) /\ rec.type = "output" /\ rec.role = "internal" /\ rec.ins = s
        BY <3>2, <3>3, NodeIs
      <3>5. e = AddNode(h, name, rec)
        BY <2>1, <1>2 DEF Extended, BackwardName, s
      <3> HIDE DEF rec, e, name
      <3>6. IsBackwardNode(g, fwd, n, rec)
        BY <3>4, <2>1 DEF IsBackwardNode, s
      <3> QED
        BY <3>4, <3>5, <3>6, <1>1
    <2>2. CASE TypeOf(n) # "queue"
      <3> DEFINE ins == BackwardOperands(fwd, h, s)
                 missing == Only(ins, ToSet(ins) \ DOMAIN h.node)
                 srec == [o \in ToSet(missing) |-> Saved]
                 h1 == AddNodes(h, missing, srec)
                 rec == [g.node[n] EXCEPT !.ins = ins]
      <3>1. e = AddNode(h1, n, rec) /\ name = n
        BY <2>2, <1>2 DEF Extended, BackwardName
      <3>2. \A x \in ToSet(s) : IF x \in ForwardOps(g) THEN x \notin D /\ ReadIn(g, x, "bwd")
                                                       ELSE x \in D
        <4> TAKE x \in ToSet(s)
        <4>1. CASE x \in ForwardOps(g)
          <5>1. x \in DOMAIN g.node /\ TypeOf(x) = "op" /\ EpochOf(x) = "fwd"
            BY <4>1 DEF ForwardOps
          <5>2. x \notin SavedBy(g)
            BY <5>1, IntermediatesAreNew DEF SavedBy, Intermediates
          <5>3. x \notin {BackwardName(b) : b \in S}
            <6>1. ASSUME NEW b \in S PROVE x # BackwardName(b)
              <7>1. EpochOf(b) = "bwd" /\ x # <<"grad_output", b>>
                <8>1. <<"grad_output", b>> \notin Leaves /\ <<"grad_output", b>>[1] = "grad_output"
                  BY NotLeaves
                <8>2. "grad_output" \notin AllKinds
                  BY DEF AllKinds, FwdKinds, GradKinds, SinkKinds, OptKinds
                <8> QED
                  BY <8>1, <8>2, <5>1 DEF Well, Whole, Fits, Backwards
              <7> QED
                BY <7>1, <5>1 DEF BackwardName
            <6> QED
              BY <6>1
          <5> QED
            BY <4>1, <5>2, <5>3, <1>1, BackwardReads
        <4>2. CASE x \notin ForwardOps(g)
          BY <4>2, <1>1, <1>4, BackwardReads
        <4> QED
          BY <4>1, <4>2
      <3> HIDE DEF s
      <3>3. /\ ins \in Seq(D \cup SavedBy(g)) /\ IsBackwardOperands(g, fwd, s, ins)
        BY <3>2, <1>2, BackwardOperandsAre
      <3>4. D \cup SavedBy(g) = D
        BY <1>1
      <3> HIDE DEF ins
      <3>5. ins \in Seq(D) /\ ToSet(ins) \subseteq D
        BY <3>3, <3>4, Entries
      <3>6. missing \in Seq(D) /\ ToSet(missing) = {} /\ missing = <<>>
        <4>1. missing \in Seq(D) /\ ToSet(missing) = {}
          BY <3>5, OnlyMembers
        <4> HIDE DEF missing, D
        <4> QED
          BY <4>1, Entries
      <3> HIDE DEF missing
      <3>7. IsGraph(h1) /\ h1.node = h.node /\ h1.inputs = <<>> /\ h1.outputs = <<>>
        <4>1. Distinct(missing) /\ DOMAIN missing = {} /\ ToSet(missing) \cap DOMAIN h.node = {}
          BY <3>6 DEF Distinct
        <4>2. \A i \in DOMAIN missing : srec[missing[i]] \in Records(DOMAIN h.node \cup ToSet(missing))
          BY <4>1
        <4> HIDE DEF srec, h1, rec, e, name, D
        <4>3. IsGraph(h1) /\ IsExtension(h, h1, ToSet(missing), srec)
          BY <4>1, <4>2, <3>6, <1>1, AddNodesIs DEF h1
        <4>4. /\ DOMAIN h1.node = DOMAIN h.node /\ h1.inputs = <<>> /\ h1.outputs = <<>>
              /\ \A b \in DOMAIN h.node : h1.node[b] = h.node[b]
          BY <4>3, <3>6 DEF IsExtension
        <4>5. h1.node = h.node
          <5>1. h1.node \in [DOMAIN h1.node -> Records(DOMAIN h1.node)]
                /\ h.node \in [DOMAIN h.node -> Records(DOMAIN h.node)]
            BY <4>3, <1>1 DEF IsGraph
          <5> QED
            BY <5>1, <4>4
        <4> QED
          BY <4>3, <4>4, <4>5
      <3>8. /\ rec \in Records(D) /\ rec.type = TypeOf(n) /\ rec.role = g.node[n].role
            /\ rec.ins = ins
        BY <3>5, <1>2 DEF Records
      <3> HIDE DEF rec, h1, e, name, D
      <3>9. IsBackwardNode(g, fwd, n, rec)
        BY <3>3, <3>8, <2>2 DEF IsBackwardNode, s
      <3> QED
        BY <3>1, <3>7, <3>8, <3>9
    <2> QED
      BY <2>1, <2>2
  <1> HIDE DEF e
  <1>6. PICK h1, rec :
           /\ IsGraph(h1) /\ h1.node = h.node /\ h1.inputs = <<>> /\ h1.outputs = <<>>
           /\ rec \in Records(D) /\ IsBackwardNode(g, fwd, n, rec)
           /\ e = AddNode(h1, name, rec)
    BY <1>5
  <1>7. Acyclic(h1)
    BY <1>1, <1>6 DEF Acyclic, Ranks
  <1>8. IsGraph(h1) /\ Acyclic(h1) /\ name \notin DOMAIN h1.node /\ rec \in Records(DOMAIN h1.node)
        /\ e = AddNode(h1, name, rec)
    BY <1>3, <1>6, <1>7
  <1> HIDE DEF name
  <1>9. /\ IsGraph(e) /\ Acyclic(e) /\ DOMAIN e.node = DOMAIN h1.node \cup {name}
        /\ \A b \in DOMAIN h1.node : e.node[b] = h1.node[b]
        /\ e.node[name] = rec /\ e.inputs = h1.inputs /\ e.outputs = h1.outputs
    BY <1>8, AddedIs
  <1>10. /\ DOMAIN e.node = D \cup {name} /\ \A b \in D : e.node[b] = h.node[b]
         /\ e.node[name] = rec /\ e.inputs = <<>> /\ e.outputs = <<>>
    BY <1>6, <1>9
  <1>11. DOMAIN e.node = SavedBy(g) \cup ReadAgain(g) \cup {BackwardName(b) : b \in S \cup {n}}
    BY <1>1, <1>10 DEF name
  <1>12. /\ \A o \in SavedBy(g) : e.node[o] = Saved
         /\ \A b \in ReadAgain(g) : e.node[b] = g.node[b]
    BY <1>1, <1>10
  <1>13. \A b \in S : IsBackwardNode(g, fwd, b, e.node[BackwardName(b)])
    <2>1. \A b \in S : BackwardName(b) \in D
      BY <1>1
    <2> HIDE DEF D
    <2> QED
      BY <2>1, <1>1, <1>10
  <1>14. IsBackwardNode(g, fwd, n, e.node[BackwardName(n)])
    BY <1>6, <1>10 DEF name
  <1>15. IsBackwardOf(g, fwd, S \cup {n}, e)
    BY <1>9, <1>11, <1>12, <1>13, <1>14 DEF IsBackwardOf
  <1> QED
    BY <1>10, <1>15 DEF e

IsBackward(g, fwd, h) ==
    /\ IsBackwardOf(g, fwd, Backwards(g), h)
    /\ h.inputs = BackwardInputs(g, fwd, h) /\ h.outputs = OfType(h, "output")

\* What extract_backward_graph makes of a graph whose nodes are what their names say:
\* every node of the backward epoch, behind the values saved for it and the inputs it
\* reads again; no operand is left out, and no saved value is added on the way.
LEMMA BackwardIs ==
    ASSUME NEW m, NEW g, Well(g), Listed(m, g), NEW fwd, IsForward(g, fwd)
    PROVE  IsBackward(g, fwd, BackwardGraph(g, fwd))
  <1> DEFINE saved == Only(OfType(fwd, "output"), {o \in DOMAIN fwd.node : IsIntermediate(fwd, o)})
             read == OfEpoch(g, Only(OfType(g, "input"),
                                {n \in DOMAIN g.node : HasUsersIn(g, n, "bwd")}), "fwd")
             start == AddNodes(AddNodes(EmptyGraph, saved, [o \in ToSet(saved) |-> Saved]),
                               read, [n \in ToSet(read) |-> g.node[n]])
             order == OfEpoch(g, TopologicalSort(g), "bwd")
             built == CHOOSE f : BuiltUpTo(g, fwd, start, order, Len(order), f)
             bwd == built[Len(order)]
             h == [bwd EXCEPT !.inputs = BackwardInputs(g, fwd, bwd),
                              !.outputs = OfType(bwd, "output")]
  <1>1. BackwardGraph(g, fwd) = h
    BY DEF BackwardGraph, BuiltUpTo
  <1>2. IsBackwardOf(g, fwd, {}, start) /\ start.inputs = <<>> /\ start.outputs = <<>>
    BY BackwardStarts
  <1> HIDE DEF saved, read, start
  <1>3. /\ order \in Seq(DOMAIN g.node) /\ Distinct(order) /\ ToSet(order) = Backwards(g)
        /\ \A j \in DOMAIN order : \A x \in ToSet(g.node[order[j]].ins) :
              EpochOf(x) = "bwd" => \E i \in DOMAIN order : i < j /\ order[i] = x
    BY EpochOrder DEF Backwards
  <1> HIDE DEF order
  <1>4. DOMAIN order = 1..Len(order) /\ Len(order) \in Nat
        /\ \A i \in DOMAIN order : order[i] \in ToSet(order)
    BY <1>3, Entries
  <1>5. BuiltUpTo(g, fwd, start, order, Len(order), built)
    BY <1>4, BuiltDefined
  <1> HIDE DEF built
  <1>6. /\ built[0] = start
        /\ \A i \in 1..Len(order) : built[i] = Extended(g, fwd, built[i - 1], order[i])
    BY <1>4, <1>5 DEF BuiltUpTo
  <1> DEFINE Upto(i) == {order[j] : j \in 1..i}
             Done(i) == /\ IsBackwardOf(g, fwd, Upto(i), built[i])
                        /\ built[i].inputs = <<>> /\ built[i].outputs = <<>>
             Good == {i \in Nat : i <= Len(order) => Done(i)}
  <1>7. 0 \in Good
    <2>1. Upto(0) = {}
      OBVIOUS
    <2> HIDE DEF Upto
    <2> QED
      BY <2>1, <1>2, <1>6
  <1>8. ASSUME NEW i \in Nat, i \in Good PROVE i + 1 \in Good
    <2> SUFFICES ASSUME i + 1 <= Len(order) PROVE Done(i + 1)
      OBVIOUS
    <2>1. (i + 1) - 1 = i /\ i + 1 \in 1..Len(order) /\ i <= Len(order) /\ i + 1 \in DOMAIN order
      BY <1>4
    <2>2. Done(i)
      BY <2>1, <1>8
    <2>3. built[i + 1] = Extended(g, fwd, built[i], order[i + 1])
      BY <2>1, <1>6
    <2>4. order[i + 1] \in Backwards(g) /\ Upto(i) \subseteq Backwards(g)
      BY <2>1, <1>3, <1>4
    <2>5. order[i + 1] \notin Upto(i)
      BY <2>1, <1>3, <1>4 DEF Distinct
    <2>6. \A x \in ToSet(g.node[order[i + 1]].ins) : EpochOf(x) = "bwd" => x \in Upto(i)
      <3> TAKE x \in ToSet(g.node[order[i + 1]].ins)
      <3> HAVE EpochOf(x) = "bwd"
      <3>1. PICK k \in DOMAIN order : k < i + 1 /\ order[k] = x
        BY <2>1, <1>3
      <3>2. k \in 1..i
        BY <3>1, <1>4
      <3> QED
        BY <3>1, <3>2
    <2>7. Upto(i + 1) = Upto(i) \cup {order[i + 1]}
      BY <2>1
    <2> DEFINE c == built[i]
               n == order[i + 1]
    <2> HIDE DEF Upto, Good, c, n
    <2>8. IsBackwardOf(g, fwd, Upto(i), c) /\ c.inputs = <<>> /\ c.outputs = <<>>
      BY <2>2 DEF c
    <2>9. n \in Backwards(g) /\ Upto(i) \subseteq Backwards(g) /\ n \notin Upto(i)
          /\ \A x \in ToSet(g.node[n].ins) : EpochOf(x) = "bwd" => x \in Upto(i)
      BY <2>4, <2>5, <2>6 DEF n
    <2>10. /\ IsBackwardOf(g, fwd, Upto(i) \cup {n}, Extended(g, fwd, c, n))
           /\ Extended(g, fwd, c, n).inputs = <<>> /\ Extended(g, fwd, c, n).outputs = <<>>
      BY <2>8, <2>9, ExtendedIs
    <2> QED
      BY <2>3, <2>7, <2>10 DEF c, n
  <1>9. Done(Len(order))
    <2>1. Len(order) \in Good
      <3> HIDE DEF Good
      <3> QED
        BY <1>4, <1>7, <1>8, SetInduction
    <2> HIDE DEF Done
    <2> QED
      BY <2>1, <1>4
  <1>10. Upto(Len(order)) = Backwards(g)
    BY <1>3, <1>4 DEF ToSet
  <1>11. IsBackwardOf(g, fwd, Backwards(g), bwd)
    BY <1>9, <1>10
  <1> HIDE DEF Upto, Done, Good, bwd
  <1>12. IsGraph(bwd)
    BY <1>11 DEF IsBackwardOf
  <1>13. BackwardInputs(g, fwd, bwd) \in Seq(DOMAIN bwd.node)
    <2>1. \A s, T : s \in Seq(T) => Named(bwd, s) \in Seq(DOMAIN bwd.node)
      <3> SUFFICES ASSUME NEW s, NEW T, s \in Seq(T) PROVE Named(bwd, s) \in Seq(DOMAIN bwd.node)
        OBVIOUS
      <3>1. Only(s, DOMAIN bwd.node) \in Seq(T) /\ ToSet(Only(s, DOMAIN bwd.node)) \subseteq DOMAIN bwd.node
        BY OnlyMembers
      <3> QED
        BY <3>1, Retyped DEF Named
    <2>2. IsGraph(g) /\ IsGraph(fwd)
      BY DEF Well, IsForward
    <2>3. /\ OrderedModuleInputs(g) \in Seq(DOMAIN g.node)
          /\ ToSet(OrderedModuleInputs(g)) \subseteq ToSet(g.inputs)
      BY <2>2, OrderedInputsAre
    <2>4. OfEpoch(g, OrderedModuleInputs(g), "fwd") \in Seq(DOMAIN g.node)
      BY <2>3, OfEpochIs
    <2>5. fwd.outputs \in Seq(DOMAIN fwd.node)
      BY <2>2 DEF IsGraph
    <2>6. /\ OfEpoch(g, OrderedModuleInputs(g), "bwd") \in Seq(DOMAIN g.node)
          /\ ToSet(OfEpoch(g, OrderedModuleInputs(g), "bwd")) \subseteq DOMAIN bwd.node
      <3>1. /\ OfEpoch(g, OrderedModuleInputs(g), "bwd") \in Seq(DOMAIN g.node)
            /\ ToSet(OfEpoch(g, OrderedModuleInputs(g), "bwd"))
                  = {n \in ToSet(OrderedModuleInputs(g)) : EpochOf(n) = "bwd"}
        BY <2>3, OfEpochIs
      <3>2. ASSUME NEW n \in ToSet(OrderedModuleInputs(g)), EpochOf(n) = "bwd"
            PROVE  n \in DOMAIN bwd.node
        <4>1. n \in Backwards(g)
          BY <2>3, <3>2, Entries DEF Backwards
        <4>2. n \in Leaves \/ OneOf(n, {"gradient"})
          BY <2>3, <3>2 DEF Listed, Leaves
        <4>3. TypeOf(n) = "input"
          BY <4>2 DEF OneOf, TypeOf
        <4>4. BackwardName(n) = n
          BY <4>3 DEF BackwardName
        <4> QED
          BY <4>1, <4>4, <1>11 DEF IsBackwardOf
      <3> QED
        BY <3>1, <3>2
    <2>7. OfEpoch(g, OrderedModuleInputs(g), "bwd") \in Seq(DOMAIN bwd.node)
      BY <2>6, Retyped
    <2>8. /\ Named(bwd, fwd.outputs) \in Seq(DOMAIN bwd.node)
          /\ Named(bwd, OfEpoch(g, OrderedModuleInputs(g), "fwd")) \in Seq(DOMAIN bwd.node)
      BY <2>1, <2>4, <2>5
    <2> QED
      BY <2>7, <2>8, Joined DEF BackwardInputs
  <1>14. OfType(bwd, "output") \in Seq(DOMAIN bwd.node)
    BY <1>12, OfTypeIs
  <1>15. /\ h.node = bwd.node /\ h.nodes = bwd.nodes
         /\ h.inputs = BackwardInputs(g, fwd, bwd) /\ h.outputs = OfType(bwd, "output")
         /\ h = [nodes |-> h.nodes, node |-> h.node, inputs |-> h.inputs, outputs |-> h.outputs]
    <2>1. bwd = [nodes |-> bwd.nodes, node |-> bwd.node, inputs |-> bwd.inputs, outputs |-> bwd.outputs]
      BY <1>12 DEF IsGraph
    <2> DEFINE ins == BackwardInputs(g, fwd, bwd)
               outs == OfType(bwd, "output")
    <2> HIDE DEF ins, outs
    <2>2. h = [bwd EXCEPT !.inputs = ins, !.outputs = outs]
      BY DEF ins, outs
    <2> HIDE DEF h
    <2>3. h.inputs = ins /\ h.outputs = outs
      BY <2>1, <2>2
    <2>4. /\ h.node = bwd.node /\ h.nodes = bwd.nodes
          /\ h = [nodes |-> h.nodes, node |-> h.node, inputs |-> h.inputs, outputs |-> h.outputs]
      BY <2>1, <2>2
    <2> QED
      BY <2>3, <2>4 DEF ins, outs
  <1> HIDE DEF h
  <1>16. IsGraph(h)
    BY <1>12, <1>13, <1>14, <1>15, RelistedIs DEF Relisted
  <1>17. IsBackwardOf(g, fwd, Backwards(g), h)
    <2>1. Acyclic(h)
      BY <1>11, <1>15 DEF IsBackwardOf, Acyclic, Ranks
    <2> QED
      BY <2>1, <1>11, <1>15, <1>16 DEF IsBackwardOf
  <1>18. h.inputs = BackwardInputs(g, fwd, h) /\ h.outputs = OfType(h, "output")
    BY <1>15 DEF BackwardInputs, OfType, Named
  <1> QED
    BY <1>1, <1>17, <1>18 DEF IsBackward

-----------------------------------------------------------------------------
\* extract_optimizer_graph.

\* All of a list is kept when all its entries are looked for.
LEMMA OnlyAll ==
    ASSUME NEW T, NEW s \in Seq(T), NEW S, ToSet(s) \subseteq S
    PROVE  Only(s, S) = s
  <1>1. PICK kept : KeptUpTo(s, S, Len(s), kept) /\ Only(s, S) = kept[Len(s)]
    BY OnlyDefined
  <1>2. DOMAIN s = 1..Len(s) /\ Len(s) \in Nat /\ \A i \in DOMAIN s : s[i] \in S /\ s[i] \in T
    BY Entries
  <1>3. /\ kept[0] = <<>>
        /\ \A i \in 1..Len(s) : kept[i] = IF s[i] \in S THEN Append(kept[i - 1], s[i])
                                          ELSE kept[i - 1]
    <2>1. kept = [i \in 0..Len(s) |-> IF i = 0 THEN <<>>
                   ELSE IF s[i] \in S THEN Append(kept[i - 1], s[i]) ELSE kept[i - 1]]
      BY <1>1 DEF KeptUpTo
    <2>2. 0 \in 0..Len(s) /\ \A i \in 1..Len(s) : i \in 0..Len(s) /\ i # 0
      BY <1>2
    <2> QED
      BY <2>1, <2>2
  <1> DEFINE Done(n) == /\ kept[n] \in Seq(T) /\ Len(kept[n]) = n
                        /\ \A i \in 1..n : kept[n][i] = s[i]
             Good == {n \in Nat : n <= Len(s) => Done(n)}
  <1>4. 0 \in Good
    <2>1. <<>> \in Seq(T) /\ Len(<<>>) = 0
      OBVIOUS
    <2>2. Done(0)
      BY <2>1, <1>3
    <2> HIDE DEF Done
    <2> QED
      BY <2>2
  <1>5. ASSUME NEW n \in Nat, n \in Good PROVE n + 1 \in Good
    <2> SUFFICES ASSUME n + 1 <= Len(s) PROVE Done(n + 1)
      OBVIOUS
    <2>1. (n + 1) - 1 = n /\ n + 1 \in 1..Len(s) /\ n <= Len(s)
      BY <1>2
    <2>2. Done(n)
      BY <2>1, <1>5
    <2>3. kept[n + 1] = Append(kept[n], s[n + 1]) /\ s[n + 1] \in T
      BY <2>1, <1>2, <1>3
    <2> DEFINE k == kept[n]
    <2>4. k \in Seq(T) /\ Len(k) = n /\ \A i \in 1..n : k[i] = s[i]
      BY <2>2
    <2> HIDE DEF k
    <2>5. /\ Append(k, s[n + 1]) \in Seq(T) /\ Len(Append(k, s[n + 1])) = n + 1
          /\ \A i \in 1..(n + 1) : Append(k, s[n + 1])[i] = s[i]
      BY <2>3, <2>4
    <2> QED
      BY <2>3, <2>5 DEF k
  <1>6. Done(Len(s))
    <2>1. Len(s) \in Good
      <3> HIDE DEF Good
      <3> QED
        BY <1>2, <1>4, <1>5, SetInduction
    <2> HIDE DEF Done
    <2> QED
      BY <2>1, <1>2
  <1> DEFINE k == kept[Len(s)]
  <1>7. k \in Seq(T) /\ Len(k) = Len(s) /\ \A i \in 1..Len(s) : k[i] = s[i]
    BY <1>6
  <1> HIDE DEF k, Done, Good
  <1>8. k = s
    BY <1>7
  <1> QED
    BY <1>1, <1>8 DEF k

\* The nodes of the optimizer, and what they read besides each other.
Opts(g) == {n \in DOMAIN g.node : EpochOf(n) = "opt"}
Accs(lb) == {<<"grad_acc", w>> : w \in DOMAIN lb}
Aliases(lb) == {Updated(w) : w \in DOMAIN lb}

\* What a node of the optimizer reads: others of them, its parameter, its gradient.
LEMMA OptReads ==
    ASSUME NEW m, NEW g, Well(g), NEW lb, Updates(m, g, lb), NEW n \in Opts(g)
    PROVE  /\ n \in DOMAIN g.node /\ g.node[n].ins \in Seq(DOMAIN g.node)
           /\ ToSet(g.node[n].ins) \subseteq Opts(g) \cup DOMAIN lb \cup Accs(lb)
           /\ n \notin DOMAIN lb \cup Accs(lb)
           /\ \E w \in DOMAIN lb : ToSet(g.node[n].ins) \cap Accs(lb) \subseteq {<<"grad_acc", w>>}
  <1>1. n \in DOMAIN g.node /\ EpochOf(n) = "opt" /\ Whole(n, g.node[n])
        /\ g.node[n] \in Records(DOMAIN g.node)
    BY DEF Opts, Well, IsGraph
  <1>2. OneOf(n, OptKinds)
    BY <1>1 DEF EpochOf, OneOf
  <1>3. n[2] \in DOMAIN lb /\ n = <<n[1], n[2]>>
    BY <1>1, <1>2 DEF Updates
  <1> DEFINE w == n[2]
             lr == <<"lr", w>>
             mul == <<"opt_multiply", w>>
             sub == <<"opt_subtract", w>>
             acc == <<"grad_acc", w>>
  <1>4. n \in {lr, mul, sub} /\ w \in DOMAIN lb
    BY <1>2, <1>3 DEF OneOf, OptKinds
  <1>5. \A k \in {lr, mul, sub} : IsOptNode(k, w)
    BY OptNodesAre
  <1> HIDE DEF w, lr, mul, sub, acc
  <1>6. /\ {lr, mul, sub, acc} \subseteq DOMAIN g.node /\ w \in Leaves /\ w \in DOMAIN g.node
        /\ g.node[mul].ins = <<acc, lr>> /\ g.node[sub].ins = <<w, mul>>
    BY <1>4, UpdatesAre DEF w, lr, mul, sub, acc
  <1>7. {lr, mul, sub} \subseteq Opts(g) /\ TypeOf(lr) = "input"
    <2>1. lr[1] = "lr"
      BY DEF lr
    <2> QED
      BY <2>1, <1>5, <1>6 DEF IsOptNode, Opts
  <1>8. ToSet(g.node[n].ins) \subseteq Opts(g) \cup {w, acc}
    <2>1. CASE n = lr
      <3>1. Len(g.node[n].ins) = 0 /\ g.node[n].ins \in Seq(DOMAIN g.node)
        BY <2>1, <1>1, <1>7 DEF Whole, Fits, Ports, Records
      <3>2. g.node[n].ins = <<>>
        BY <3>1
      <3>3. ToSet(<<>>) = {}
        BY DEF ToSet
      <3> QED
        BY <3>2, <3>3
    <2>2. CASE n = mul
      <3>1. ToSet(<<acc, lr>>) = {acc, lr}
        <4>1. acc \in DOMAIN g.node /\ lr \in DOMAIN g.node
          BY <1>6
        <4> QED
          BY <4>1, TwoAre
      <3> QED
        BY <2>2, <3>1, <1>6, <1>7
    <2>3. CASE n = sub
      <3>1. ToSet(<<w, mul>>) = {w, mul}
        <4>1. w \in DOMAIN g.node /\ mul \in DOMAIN g.node
          BY <1>6
        <4> QED
          BY <4>1, TwoAre
      <3> QED
        BY <2>3, <3>1, <1>6, <1>7
    <2> QED
      BY <2>1, <2>2, <2>3, <1>4
  <1>9. acc \in Accs(lb)
    BY <1>4 DEF Accs, acc
  <1>10. \A x \in Accs(lb) : x \notin Leaves /\ EpochOf(x) = "bwd"
    <2>1. \A x : TypeOf(<<"grad_acc", x>>) = "queue" /\ EpochOf(<<"grad_acc", x>>) = "bwd"
      BY NamesAre
    <2>2. \A x : <<"grad_acc", x>> \notin Leaves
      BY NotLeaves
    <2> QED
      BY <2>1, <2>2 DEF Accs
  <1>11. \A x \in DOMAIN lb : x \in Leaves /\ EpochOf(x) = "fwd"
    <2>1. \A x \in DOMAIN lb : x \in Leaves
      BY DEF Updates, Leaves
    <2> QED
      BY <2>1 DEF EpochOf
  <1>12. ToSet(g.node[n].ins) \cap Accs(lb) \subseteq {acc}
    BY <1>8, <1>10, <1>4, <1>11 DEF Opts
  <1> QED
    BY <1>1, <1>4, <1>8, <1>9, <1>10, <1>11, <1>12 DEF Records, acc

\* The accumulators the optimizer reads are those of the parameters it updates.
LEMMA AccumulatorsAre ==
    ASSUME NEW m, NEW g, Well(g), NEW lb, Updates(m, g, lb)
    PROVE  /\ Accumulators(g) \in Seq(DOMAIN g.node) /\ Distinct(Accumulators(g))
           /\ ToSet(Accumulators(g)) = Accs(lb)
  <1> DEFINE s == OfRole(g, "grad_accumulator")
             S == {q \in DOMAIN g.node : HasUsersIn(g, q, "opt")}
  <1>1. /\ s \in Seq(DOMAIN g.node) /\ Distinct(s)
        /\ ToSet(s) = {n \in DOMAIN g.node : g.node[n].role = "grad_accumulator"}
    BY OfRoleIs DEF Well
  <1>2. /\ Accumulators(g) \in Seq(DOMAIN g.node) /\ Distinct(Accumulators(g))
        /\ ToSet(Accumulators(g)) = ToSet(s) \cap S
    <2>1. Accumulators(g) = Only(s, S)
      BY DEF Accumulators
    <2> HIDE DEF s, S
    <2> QED
      BY <2>1, <1>1, OnlyMembers, OnlyDistinct
  <1>3. S = {q \in DOMAIN g.node : ReadIn(g, q, "opt")}
    BY ReadInIs
  <1>4. \A w : /\ TypeOf(<<"grad_acc", w>>) = "queue" /\ EpochOf(<<"grad_acc", w>>) = "bwd"
               /\ RolesOf(<<"grad_acc", w>>) = {"grad_accumulator"}
    BY NamesAre
  <1>5. ASSUME NEW q \in Accs(lb) PROVE q \in ToSet(s) \cap S
    <2>1. PICK w \in DOMAIN lb : q = <<"grad_acc", w>>
      BY DEF Accs
    <2> DEFINE lr == <<"lr", w>>
               mul == <<"opt_multiply", w>>
               sub == <<"opt_subtract", w>>
               acc == <<"grad_acc", w>>
    <2>2. IsOptNode(mul, w)
      BY OptNodesAre
    <2> HIDE DEF lr, mul, sub, acc
    <2>3. {lr, mul, sub, acc} \subseteq DOMAIN g.node /\ g.node[mul].ins = <<acc, lr>>
      BY UpdatesAre DEF lr, mul, sub, acc
    <2>4. acc \in ToSet(g.node[mul].ins)
      BY <2>3, TwoAre
    <2>5. ReadIn(g, acc, "opt")
      BY <2>2, <2>3, <2>4 DEF ReadIn, IsOptNode
    <2>6. g.node[acc].role = "grad_accumulator"
      BY <2>3, <1>4 DEF Well, Whole, Fits, acc
    <2> QED
      BY <2>1, <2>3, <2>5, <2>6, <1>1, <1>3 DEF acc
  <1>6. ASSUME NEW q \in ToSet(s) \cap S PROVE q \in Accs(lb)
    <2>1. q \in DOMAIN g.node /\ g.node[q].role = "grad_accumulator" /\ ReadIn(g, q, "opt")
      BY <1>1, <1>3
    <2>2. PICK u \in DOMAIN g.node : q \in ToSet(g.node[u].ins) /\ EpochOf(u) = "opt"
      BY <2>1 DEF ReadIn
    <2>3. q \in Opts(g) \cup DOMAIN lb \cup Accs(lb)
      BY <2>2, OptReads DEF Opts
    <2>4. "grad_accumulator" \in RolesOf(q)
      BY <2>1 DEF Well, Whole, Fits
    <2>5. q \notin Leaves /\ q[1] = "grad_acc"
      BY <2>4 DEF RolesOf, OpArity, Leaves
    <2>6. q \notin DOMAIN lb
      BY <2>5 DEF Updates, Leaves
    <2>7. q \notin Opts(g)
      BY <2>5 DEF Opts, EpochOf, FwdKinds, OptKinds
    <2> QED
      BY <2>3, <2>6, <2>7
  <1> QED
    BY <1>2, <1>5, <1>6

\* The nodes of the optimizer graph are apart.
LEMMA OptimizerNamesDiffer ==
    ASSUME NEW m, NEW g, Well(g), NEW lb, Updates(m, g, lb)
    PROVE  /\ \A x, y : Updated(x) = Updated(y) => x = y
           /\ \A x : Updated(x) \notin DOMAIN g.node /\ Updated(x) \notin Leaves
                     /\ Updated(x) \notin Accs(lb)
           /\ DOMAIN lb \subseteq Leaves /\ DOMAIN lb \subseteq DOMAIN g.node
           /\ Accs(lb) \subseteq DOMAIN g.node /\ Accs(lb) \cap Leaves = {}
           /\ Opts(g) \subseteq DOMAIN g.node /\ Opts(g) \cap Leaves = {} /\ Opts(g) \cap Accs(lb) = {}
           /\ \A w \in DOMAIN lb : lb[w] \in Opts(g)
           /\ \A v, w \in DOMAIN lb : lb[v] = lb[w] => v = w
  <1>1. \A x : Updated(x) \notin Leaves /\ Updated(x)[1] = "updated" /\ Updated(x)[2] = x
    BY NotLeaves DEF Updated
  <1>2. "updated" \notin AllKinds /\ "updated" # "grad_acc"
    BY DEF AllKinds, FwdKinds, GradKinds, SinkKinds, OptKinds
  <1>3. \A x : Updated(x) \notin DOMAIN g.node
    BY <1>1, <1>2 DEF Well, Whole, Fits
  <1>4. \A w : /\ <<"grad_acc", w>> \notin Leaves /\ <<"grad_acc", w>>[1] = "grad_acc"
               /\ EpochOf(<<"grad_acc", w>>) = "bwd"
    <2>1. \A w : TypeOf(<<"grad_acc", w>>) = "queue" /\ EpochOf(<<"grad_acc", w>>) = "bwd"
      BY NamesAre
    <2> QED
      BY <2>1, NotLeaves
  <1>5. /\ Accs(lb) \subseteq DOMAIN g.node /\ Accs(lb) \cap Leaves = {}
        /\ \A q \in Accs(lb) : q[1] = "grad_acc" /\ EpochOf(q) = "bwd"
    <2>1. \A w \in DOMAIN lb : <<"grad_acc", w>> \in DOMAIN g.node
      BY DEF Updates
    <2> QED
      BY <2>1, <1>4 DEF Accs
  <1>6. DOMAIN lb \subseteq Leaves /\ DOMAIN lb \subseteq DOMAIN g.node
    BY DEF Updates, Leaves
  <1>7. Opts(g) \subseteq DOMAIN g.node /\ Opts(g) \cap Leaves = {} /\ Opts(g) \cap Accs(lb) = {}
    BY <1>5 DEF Opts, EpochOf
  <1>8. \A w \in DOMAIN lb : lb[w] = <<"opt_subtract", w>> /\ lb[w] \in Opts(g)
    <2> TAKE w \in DOMAIN lb
    <2>1. IsOptNode(<<"opt_subtract", w>>, w)
      BY OptNodesAre
    <2> QED
      BY <2>1 DEF Updates, Opts, IsOptNode
  <1>9. \A v, w \in DOMAIN lb : lb[v] = lb[w] => v = w
    <2>1. \A x : <<"opt_subtract", x>>[2] = x
      OBVIOUS
    <2> QED
      BY <2>1, <1>8
  <1> QED
    BY <1>1, <1>2, <1>3, <1>5, <1>6, <1>7, <1>8, <1>9

\* Each entry of a list in front of its alias.
IsPairing(s, seqs) == seqs = [i \in DOMAIN s |-> <<s[i], Updated(s[i])>>]

\* A list paired with its aliases has no repetitions, and both as its entries.
LEMMA PairsAre ==
    ASSUME NEW P, NEW s \in Seq(P), Distinct(s), ToSet(s) = P, NEW seqs, IsPairing(s, seqs),
           \A x, y : Updated(x) = Updated(y) => x = y,
           \A x \in P : \A y : x # Updated(y)
    PROVE  /\ FlattenSeq(seqs) \in Seq(P \cup {Updated(x) : x \in P}) /\ Distinct(FlattenSeq(seqs))
           /\ ToSet(FlattenSeq(seqs)) = P \cup {Updated(x) : x \in P}
  <1> DEFINE T == P \cup {Updated(x) : x \in P}
  <1>1. DOMAIN s = 1..Len(s) /\ Len(s) \in Nat /\ \A i \in DOMAIN s : s[i] \in P
    BY Entries
  <1>2. \A i \in DOMAIN s : seqs[i] = <<s[i], Updated(s[i])>>
    BY DEF IsPairing
  <1>3. ASSUME NEW i \in DOMAIN s
        PROVE  /\ seqs[i] \in Seq(T) /\ ToSet(seqs[i]) = {s[i], Updated(s[i])}
               /\ Distinct(seqs[i])
    <2> DEFINE x == s[i]
               y == Updated(s[i])
    <2>1. x \in T /\ y \in T /\ x # y /\ seqs[i] = <<x, y>>
      BY <1>1, <1>2
    <2> HIDE DEF T, x, y
    <2>2. <<x, y>> \in Seq(T) /\ ToSet(<<x, y>>) = {x, y} /\ Len(<<x, y>>) = 2
          /\ <<x, y>>[1] = x /\ <<x, y>>[2] = y
      BY <2>1, TwoAre
    <2>3. DOMAIN <<x, y>> = 1..2
      OBVIOUS
    <2>4. Distinct(<<x, y>>)
      BY <2>1, <2>2, <2>3 DEF Distinct
    <2> QED
      BY <2>1, <2>2, <2>4 DEF x, y
  <1> HIDE DEF T
  <1>4. seqs \in Seq(Seq(T)) /\ DOMAIN seqs = DOMAIN s
    <2>1. DOMAIN seqs = 1..Len(s)
      BY <1>1 DEF IsPairing
    <2>2. seqs = [i \in 1..Len(s) |-> seqs[i]]
      BY <1>1 DEF IsPairing
    <2>3. seqs \in [1..Len(s) -> Seq(T)]
      BY <2>2, <1>1, <1>3
    <2> QED
      BY <2>1, <2>3, <1>1
  <1>5. Apart(seqs)
    <2>1. ASSUME NEW i \in DOMAIN s, NEW j \in DOMAIN s, i # j
          PROVE  ToSet(seqs[i]) \cap ToSet(seqs[j]) = {}
      <3>1. s[i] # s[j] /\ s[i] \in P /\ s[j] \in P
        BY <2>1, <1>1 DEF Distinct
      <3>2. Updated(s[i]) # Updated(s[j]) /\ s[i] # Updated(s[j]) /\ s[j] # Updated(s[i])
        BY <3>1
      <3>3. ToSet(seqs[i]) = {s[i], Updated(s[i])} /\ ToSet(seqs[j]) = {s[j], Updated(s[j])}
        BY <1>3
      <3> QED
        BY <3>1, <3>2, <3>3
    <2> QED
      BY <2>1, <1>3, <1>4 DEF Apart
  <1>6. /\ FlattenSeq(seqs) \in Seq(T) /\ Distinct(FlattenSeq(seqs))
        /\ ToSet(FlattenSeq(seqs)) = UNION {ToSet(seqs[i]) : i \in DOMAIN seqs}
    BY <1>4, <1>5, FlattenIs
  <1>7. UNION {ToSet(seqs[i]) : i \in DOMAIN seqs} = T
    <2>1. \A i \in DOMAIN s : ToSet(seqs[i]) = {s[i], Updated(s[i])}
      BY <1>3
    <2>2. P = {s[i] : i \in DOMAIN s}
      BY DEF ToSet
    <2> QED
      BY <2>1, <2>2, <1>4 DEF T
  <1> QED
    BY <1>6, <1>7 DEF T

\* The optimizer graph with nodes S of the optimizer.
IsOptimizerOf(g, lb, S, h) ==
    /\ IsGraph(h)
    /\ DOMAIN h.node = DOMAIN lb \cup Aliases(lb) \cup Accs(lb) \cup S
    /\ \A w \in DOMAIN lb : h.node[w] = g.node[w]
    /\ \A w \in DOMAIN lb :
          /\ h.node[Updated(w)].type = "output" /\ h.node[Updated(w)].role = "internal"
          /\ h.node[Updated(w)].ins = IF lb[w] \in S THEN <<lb[w]>> ELSE <<>>
    /\ \A q \in Accs(lb) : /\ h.node[q].type = "input" /\ h.node[q].role = "gradient"
                           /\ h.node[q].ins = <<>>
    /\ \A n \in S : h.node[n] = g.node[n]

\* The parameters the optimizer updates.
LEMMA UpdatedParameters ==
    ASSUME NEW m, NEW g, Well(g), NEW lb, Updates(m, g, lb)
    PROVE  LET params == Only(OfType(g, "input"), DOMAIN lb)
           IN  params \in Seq(DOMAIN lb) /\ Distinct(params) /\ ToSet(params) = DOMAIN lb
  <1> DEFINE s == OfType(g, "input")
             params == Only(s, DOMAIN lb)
  <1>1. /\ s \in Seq(DOMAIN g.node) /\ Distinct(s)
        /\ ToSet(s) = {n \in DOMAIN g.node : g.node[n].type = "input"}
    BY OfTypeIs DEF Well
  <1> HIDE DEF s
  <1>2. params \in Seq(DOMAIN g.node) /\ Distinct(params) /\ ToSet(params) = ToSet(s) \cap DOMAIN lb
    BY <1>1, OnlyMembers, OnlyDistinct
  <1>3. DOMAIN lb \subseteq DOMAIN g.node /\ DOMAIN lb \subseteq Leaves
    BY DEF Updates, Leaves
  <1>4. \A n \in DOMAIN lb : g.node[n].type = "input"
    BY <1>3 DEF Well, Whole, Fits, TypeOf
  <1>5. ToSet(params) = DOMAIN lb
    BY <1>1, <1>2, <1>3, <1>4
  <1> HIDE DEF params
  <1>6. params \in Seq(DOMAIN lb)
    BY <1>2, <1>5, Retyped
  <1> QED
    BY <1>2, <1>5, <1>6 DEF params, s

\* The optimizer graph before the first node of its own.
LEMMA OptimizerStarts ==
    ASSUME NEW m, NEW g, Well(g), Updates(m, g, loopback)
    PROVE  LET params == Only(OfType(g, "input"), DOMAIN loopback)
               pairs == FlattenSeq([i \in DOMAIN params |-> <<params[i], Updated(params[i])>>])
               withParams == AddNodes(EmptyGraph, pairs,
                               [n \in ToSet(pairs) |->
                                   IF n \in ToSet(params) THEN g.node[n]
                                   ELSE Node("output", "internal", "opt", <<>>)])
               withGrads == AddNodes(withParams, Accumulators(g),
                              [q \in ToSet(Accumulators(g)) |->
                                  Node("input", "gradient", "opt", <<>>)])
           IN  IsOptimizerOf(g, loopback, {}, withGrads)
  <1> DEFINE lb == loopback
             params == Only(OfType(g, "input"), DOMAIN lb)
             seqs == [i \in DOMAIN params |-> <<params[i], Updated(params[i])>>]
             pairs == FlattenSeq(seqs)
             out == Node("output", "internal", "opt", <<>>)
             grad == Node("input", "gradient", "opt", <<>>)
             prec == [n \in ToSet(pairs) |-> IF n \in ToSet(params) THEN g.node[n] ELSE out]
             grec == [q \in ToSet(Accumulators(g)) |-> grad]
             withParams == AddNodes(EmptyGraph, pairs, prec)
             withGrads == AddNodes(withParams, Accumulators(g), grec)
             P == DOMAIN lb
  <1>1. params \in Seq(P) /\ Distinct(params) /\ ToSet(params) = P
    BY UpdatedParameters
  <1>2. /\ \A x, y : Updated(x) = Updated(y) => x = y
        /\ \A x : Updated(x) \notin Leaves /\ Updated(x) \notin Accs(lb)
        /\ P \subseteq Leaves /\ P \subseteq DOMAIN g.node /\ Accs(lb) \cap Leaves = {}
    BY OptimizerNamesDiffer
  <1>3. \A x \in P : \A y : x # Updated(y)
    BY <1>2
  <1> HIDE DEF params
  <1>4. IsPairing(params, seqs)
    BY DEF IsPairing
  <1> HIDE DEF seqs
  <1>5. /\ pairs \in Seq(P \cup Aliases(lb)) /\ Distinct(pairs) /\ ToSet(pairs) = P \cup Aliases(lb)
    BY <1>1, <1>2, <1>3, <1>4, PairsAre DEF Aliases
  <1> HIDE DEF pairs
  <1>6. \A D : /\ out \in Records(D) /\ grad \in Records(D)
               /\ out.type = "output" /\ out.role = "internal" /\ out.ins = <<>>
               /\ grad.type = "input" /\ grad.role = "gradient" /\ grad.ins = <<>>
    <2>1. \A D : <<>> \in Seq(D)
      OBVIOUS
    <2>2. /\ "input" \in Types /\ "output" \in Types /\ "internal" \in Roles /\ "gradient" \in Roles
          /\ "opt" \in Epochs
      BY DEF Types, Roles, Epochs
    <2> QED
      BY <2>1, <2>2 DEF Records, Node
  <1>7. \A w \in P : g.node[w].ins = <<>> /\ \A D : g.node[w] \in Records(D)
    <2> TAKE w \in P
    <2>1. w \in DOMAIN g.node /\ TypeOf(w) = "input"
      BY <1>2 DEF TypeOf
    <2>2. g.node[w] \in Records(DOMAIN g.node) /\ Whole(w, g.node[w])
      BY <2>1 DEF Well, IsGraph
    <2>3. Len(g.node[w].ins) = 0 /\ g.node[w].ins \in Seq(DOMAIN g.node)
      BY <2>1, <2>2 DEF Whole, Fits, Ports, Records
    <2>4. g.node[w].ins = <<>>
      BY <2>3
    <2>5. \A D : <<>> \in Seq(D)
      OBVIOUS
    <2> QED
      BY <2>2, <2>4, <2>5 DEF Records
  <1>8. \A n \in P \cup Aliases(lb) : prec[n] = IF n \in P THEN g.node[n] ELSE out
    BY <1>1, <1>5
  <1>9. IsGraph(EmptyGraph) /\ DOMAIN EmptyGraph.node = {}
    BY EmptyIs
  <1> HIDE DEF out, grad, prec, grec, withParams, P
  <1>10. /\ IsGraph(withParams) /\ DOMAIN withParams.node = P \cup Aliases(lb)
         /\ \A n \in P \cup Aliases(lb) : withParams.node[n] = prec[n]
    <2>1. \A i \in DOMAIN pairs : pairs[i] \in P \cup Aliases(lb)
      BY <1>5, Entries
    <2>2. \A i \in DOMAIN pairs : prec[pairs[i]] \in Records(DOMAIN EmptyGraph.node \cup ToSet(pairs))
      BY <2>1, <1>6, <1>7, <1>8
    <2>3. IsGraph(withParams) /\ IsExtension(EmptyGraph, withParams, ToSet(pairs), prec)
      BY <2>2, <1>5, <1>9, AddNodesIs DEF withParams
    <2> QED
      BY <2>3, <1>5, <1>9 DEF IsExtension
  <1>11. /\ Accumulators(g) \in Seq(DOMAIN g.node) /\ Distinct(Accumulators(g))
         /\ ToSet(Accumulators(g)) = Accs(lb)
    BY AccumulatorsAre
  <1>12. (P \cup Aliases(lb)) \cap Accs(lb) = {}
    BY <1>2 DEF Aliases
  <1>13. /\ IsGraph(withGrads) /\ DOMAIN withGrads.node = P \cup Aliases(lb) \cup Accs(lb)
         /\ \A n \in P \cup Aliases(lb) : withGrads.node[n] = prec[n]
         /\ \A q \in Accs(lb) : withGrads.node[q] = grad
    <2>1. \A q \in Accs(lb) : grec[q] = grad
      BY <1>11 DEF grec
    <2>2. \A i \in DOMAIN Accumulators(g) : Accumulators(g)[i] \in Accs(lb)
      BY <1>11, Entries
    <2>3. \A i \in DOMAIN Accumulators(g) :
             grec[Accumulators(g)[i]] \in Records(DOMAIN withParams.node \cup ToSet(Accumulators(g)))
      BY <2>1, <2>2, <1>6
    <2>4. IsGraph(withGrads) /\ IsExtension(withParams, withGrads, ToSet(Accumulators(g)), grec)
      BY <2>3, <1>10, <1>11, <1>12, AddNodesIs DEF withGrads
    <2> QED
      BY <2>1, <2>4, <1>10, <1>11 DEF IsExtension
  <1> HIDE DEF withGrads
  <1>14. \A w \in P : withGrads.node[w] = g.node[w]
    BY <1>8, <1>13
  <1>15. \A w \in P : withGrads.node[Updated(w)] = out
    BY <1>3, <1>8, <1>13 DEF Aliases, P
  <1>16. IsOptimizerOf(g, lb, {}, withGrads)
    BY <1>6, <1>13, <1>14, <1>15 DEF IsOptimizerOf, P
  <1> QED
    BY <1>16 DEF withGrads, withParams, grec, prec, grad, out, pairs, seqs, params

\* One more node of the optimizer.
LEMMA SteppedIs ==
    ASSUME NEW m, NEW g, Well(g), Updates(m, g, loopback), NEW S, S \subseteq Opts(g),
           NEW h, IsOptimizerOf(g, loopback, S, h), NEW n \in Opts(g), n \notin S,
           \A x \in ToSet(g.node[n].ins) : EpochOf(x) = "opt" => x \in S
    PROVE  IsOptimizerOf(g, loopback, S \cup {n}, Stepped(g, h, n))
  <1> DEFINE lb == loopback
             D == DOMAIN h.node
             s == g.node[n].ins
             a == AddNode(h, n, g.node[n])
             e == Stepped(g, h, n)
             P == DOMAIN lb
             U == S \cup {n}
  <1>1. /\ IsGraph(h) /\ D = P \cup Aliases(lb) \cup Accs(lb) \cup S
        /\ \A w \in P : h.node[w] = g.node[w]
        /\ \A w \in P : /\ h.node[Updated(w)].type = "output" /\ h.node[Updated(w)].role = "internal"
                        /\ h.node[Updated(w)].ins = IF lb[w] \in S THEN <<lb[w]>> ELSE <<>>
        /\ \A q \in Accs(lb) : /\ h.node[q].type = "input" /\ h.node[q].role = "gradient"
                               /\ h.node[q].ins = <<>>
        /\ \A b \in S : h.node[b] = g.node[b]
    BY DEF IsOptimizerOf
  <1>2. /\ \A x, y : Updated(x) = Updated(y) => x = y
        /\ \A x : Updated(x) \notin DOMAIN g.node /\ Updated(x) \notin Leaves /\ Updated(x) \notin Accs(lb)
        /\ P \subseteq Leaves /\ P \subseteq DOMAIN g.node
        /\ Accs(lb) \subseteq DOMAIN g.node /\ Accs(lb) \cap Leaves = {}
        /\ Opts(g) \subseteq DOMAIN g.node /\ Opts(g) \cap Leaves = {} /\ Opts(g) \cap Accs(lb) = {}
        /\ \A v, w \in P : lb[v] = lb[w] => v = w
    BY OptimizerNamesDiffer
  <1>3. /\ n \in DOMAIN g.node /\ s \in Seq(DOMAIN g.node)
        /\ ToSet(s) \subseteq Opts(g) \cup P \cup Accs(lb)
    BY OptReads
  <1>4. ToSet(s) \subseteq D
    BY <1>1, <1>3 DEF Opts
  <1>5. s \in Seq(D)
    BY <1>3, <1>4, Retyped
  <1>6. n \notin D
    BY <1>1, <1>2 DEF Aliases
  <1>7. g.node[n] \in Records(D) /\ [g.node[n] EXCEPT !.ins = s] = g.node[n]
    <2>1. g.node[n] \in Records(DOMAIN g.node)
      BY <1>3 DEF Well, IsGraph
    <2> QED
      BY <2>1, <1>5 DEF Records
  <1>8. Named(h, s) = s
    BY <1>4, <1>5, OnlyAll DEF Named
  <1>9. e = Linked(a, n)
    BY <1>7, <1>8 DEF Stepped
  <1> DEFINE r == g.node[n]
  <1>10. IsGraph(h) /\ n \notin DOMAIN h.node /\ r \in Records(DOMAIN h.node) /\ a = AddNode(h, n, r)
    BY <1>1, <1>6, <1>7
  <1> HIDE DEF e, a, s, r
  <1>11. /\ IsGraph(a) /\ DOMAIN a.node = D \cup {n}
         /\ \A b \in D : a.node[b] = h.node[b]
         /\ a.node[n] = r
    BY <1>10, AddedIs
  <1>12. Aliases(lb) \subseteq D /\ \A w \in P : Updated(w) \in D
    BY <1>1 DEF Aliases
  <1>13. CASE \A w \in P : lb[w] # n
    <2>1. e = a
      BY <1>9, <1>13 DEF Linked
    <2>2. \A w \in P : lb[w] \in U <=> lb[w] \in S
      BY <1>13
    <2> HIDE DEF D
    <2>3. DOMAIN a.node = P \cup Aliases(lb) \cup Accs(lb) \cup U
      BY <1>1, <1>11
    <2>4. \A w \in P : a.node[w] = g.node[w]
      BY <1>1, <1>11
    <2>5. \A w \in P : /\ a.node[Updated(w)].type = "output" /\ a.node[Updated(w)].role = "internal"
                       /\ a.node[Updated(w)].ins = IF lb[w] \in U THEN <<lb[w]>> ELSE <<>>
      BY <2>2, <1>1, <1>11, <1>12
    <2>6. \A q \in Accs(lb) : /\ a.node[q].type = "input" /\ a.node[q].role = "gradient"
                              /\ a.node[q].ins = <<>>
      BY <1>1, <1>11
    <2>7. \A b \in U : a.node[b] = g.node[b]
      BY <1>1, <1>11 DEF r
    <2> HIDE DEF P, U
    <2>8. IsOptimizerOf(g, lb, U, a)
      BY <2>3, <2>4, <2>5, <2>6, <2>7, <1>11 DEF IsOptimizerOf, P
    <2> QED
      BY <2>1, <2>8 DEF e, U
  <1>14. CASE \E w \in P : lb[w] = n
    <2> DEFINE w0 == CHOOSE w \in P : lb[w] = n
               c == Updated(w0)
               f == AddEdge(a, n, c)
    <2>1. w0 \in P /\ lb[w0] = n
      BY <1>14
    <2>2. e = f
      BY <1>9, <1>14 DEF Linked
    <2> HIDE DEF w0
    <2>3. \A w \in P : lb[w] = n => w = w0
      BY <2>1, <1>2
    <2>4. n \in DOMAIN a.node /\ c \in DOMAIN a.node /\ c \in D
      BY <2>1, <1>11, <1>12
    <2> HIDE DEF c
    <2>5. /\ IsGraph(f) /\ DOMAIN f.node = DOMAIN a.node
          /\ Rereads(f.node[c], a.node[c], Append(a.node[c].ins, n))
          /\ \A b \in DOMAIN a.node \ {c} : f.node[b] = a.node[b]
      BY <2>4, <1>11, AddEdgeIs
    <2> HIDE DEF f
    <2>6. /\ a.node[c].type = "output" /\ a.node[c].role = "internal" /\ a.node[c].ins = <<>>
      BY <2>1, <2>4, <1>1, <1>11 DEF c
    <2>7. Append(<<>>, n) = <<n>>
      OBVIOUS
    <2>8. f.node[c].type = "output" /\ f.node[c].role = "internal" /\ f.node[c].ins = <<n>>
      BY <2>5, <2>6, <2>7 DEF Rereads
    <2>9. c \notin P /\ c \notin Accs(lb) /\ c \notin U
      BY <1>2 DEF c
    <2>10. \A w \in P : w # w0 => Updated(w) # c /\ Updated(w) \in D
      BY <1>2, <1>12 DEF c
    <2> HIDE DEF D
    <2>11. DOMAIN f.node = P \cup Aliases(lb) \cup Accs(lb) \cup U
      BY <2>5, <1>1, <1>11
    <2>12. \A b \in (P \cup Accs(lb) \cup U) : f.node[b] = a.node[b]
      BY <2>5, <2>9, <1>1, <1>11
    <2>13. \A w \in P : f.node[w] = g.node[w]
      BY <2>12, <1>1, <1>11
    <2>14. ASSUME NEW w \in P
           PROVE  /\ f.node[Updated(w)].type = "output" /\ f.node[Updated(w)].role = "internal"
                  /\ f.node[Updated(w)].ins = IF lb[w] \in U THEN <<lb[w]>> ELSE <<>>
      <3>1. CASE w = w0
        BY <3>1, <2>1, <2>8 DEF c
      <3>2. CASE w # w0
        <4>1. Updated(w) \in D /\ Updated(w) # c /\ lb[w] # n
          BY <3>2, <2>3, <2>10
        <4>2. f.node[Updated(w)] = h.node[Updated(w)]
          BY <4>1, <2>5, <1>11
        <4>3. lb[w] \in U <=> lb[w] \in S
          BY <4>1
        <4> QED
          BY <4>2, <4>3, <1>1
      <3> QED
        BY <3>1, <3>2
    <2>15. \A q \in Accs(lb) : /\ f.node[q].type = "input" /\ f.node[q].role = "gradient"
                               /\ f.node[q].ins = <<>>
      BY <2>12, <1>1, <1>11
    <2>16. \A b \in U : f.node[b] = g.node[b]
      BY <2>12, <1>1, <1>11 DEF r
    <2> HIDE DEF P, U
    <2>17. IsOptimizerOf(g, lb, U, f)
      BY <2>5, <2>11, <2>13, <2>14, <2>15, <2>16 DEF IsOptimizerOf, P
    <2> QED
      BY <2>2, <2>17 DEF e, U
  <1> QED
    BY <1>13, <1>14

StepsUpTo(g, start, order, n, built) ==
    built = [i \in 0..n |-> IF i = 0 THEN start ELSE Stepped(g, built[i - 1], order[i])]

\* The function OptimizerGraph chooses exists.
LEMMA StepsDefined ==
    ASSUME NEW g, NEW start, NEW order, NEW len \in Nat
    PROVE  LET chosen == CHOOSE f : StepsUpTo(g, start, order, len, f)
           IN  StepsUpTo(g, start, order, len, chosen)
  <1> DEFINE Good == {n \in Nat : \E built : StepsUpTo(g, start, order, n, built)}
  <1>1. 0 \in Good
    <2> DEFINE built == [i \in 0..0 |-> start]
    <2>1. StepsUpTo(g, start, order, 0, built)
      BY DEF StepsUpTo
    <2> QED
      BY <2>1
  <1>2. ASSUME NEW n \in Nat, n \in Good PROVE n + 1 \in Good
    <2>1. PICK built : StepsUpTo(g, start, order, n, built)
      BY <1>2
    <2> DEFINE next == Stepped(g, built[n], order[n + 1])
               more == [i \in 0..(n + 1) |-> IF i = n + 1 THEN next ELSE built[i]]
    <2>2. StepsUpTo(g, start, order, n + 1, more)
      <3>1. \A i \in 0..n : more[i] = built[i]
        OBVIOUS
      <3>2. \A i \in 0..n : built[i] = IF i = 0 THEN start ELSE Stepped(g, built[i - 1], order[i])
        BY <2>1 DEF StepsUpTo
      <3>3. ASSUME NEW i \in 0..(n + 1)
            PROVE  more[i] = IF i = 0 THEN start ELSE Stepped(g, more[i - 1], order[i])
        <4>1. CASE i = n + 1
          <5>1. i - 1 = n /\ n \in 0..n /\ i # 0
            BY <4>1
          <5>2. more[i] = next /\ more[i - 1] = built[n]
            BY <4>1, <5>1
          <5> QED
            BY <4>1, <5>1, <5>2
        <4>2. CASE i \in 1..n
          <5>1. i - 1 \in 0..n /\ i \in 0..n
            BY <4>2
          <5>2. more[i] = built[i] /\ more[i - 1] = built[i - 1]
            BY <5>1, <3>1
          <5> HIDE DEF more
          <5> QED
            BY <4>2, <5>1, <5>2, <3>2
        <4>3. CASE i = 0
          BY <4>3, <3>1, <3>2
        <4> QED
          BY <4>1, <4>2, <4>3
      <3> HIDE DEF more, next
      <3> QED
        BY <3>3 DEF StepsUpTo, more
    <2> QED
      BY <2>2
  <1>3. len \in Good
    <2> HIDE DEF Good
    <2> QED
      BY <1>1, <1>2, SetInduction
  <1> QED
    BY <1>3

IsOptimizer(g, lb, h) ==
    /\ IsOptimizerOf(g, lb, Opts(g), h) /\ Acyclic(h)
    /\ h.inputs = Accumulators(g)
    /\ h.outputs \in Seq(Aliases(lb)) /\ Distinct(h.outputs) /\ ToSet(h.outputs) = Aliases(lb)

\* The optimizer graph reads nothing that is not there, and goes in no circle: the way
\* back to a parameter is an output of its own.
LEMMA OptimizerAcyclic ==
    ASSUME NEW m, NEW g, Well(g), NEW lb, Updates(m, g, lb), NEW h,
           IsOptimizerOf(g, lb, Opts(g), h)
    PROVE  Acyclic(h)
  <1> DEFINE P == DOMAIN lb
             O == Opts(g)
  <1>1. PICK r \in [DOMAIN g.node -> Nat] :
           \A n \in DOMAIN g.node : \A x \in ToSet(g.node[n].ins) : r[x] < r[n]
    BY DEF Well, Acyclic, Ranks
  <1>2. /\ \A x : Updated(x) \notin DOMAIN g.node /\ Updated(x) \notin Accs(lb)
        /\ \A x, y : Updated(x) = Updated(y) => x = y
        /\ P \subseteq Leaves /\ P \subseteq DOMAIN g.node /\ Accs(lb) \subseteq DOMAIN g.node
        /\ O \subseteq DOMAIN g.node /\ O \cap Leaves = {} /\ O \cap Accs(lb) = {}
        /\ \A w \in P : lb[w] \in O
    BY OptimizerNamesDiffer
  <1>3. /\ DOMAIN h.node = P \cup Aliases(lb) \cup Accs(lb) \cup O
        /\ \A w \in P : h.node[w] = g.node[w]
        /\ \A w \in P : h.node[Updated(w)].ins = IF lb[w] \in O THEN <<lb[w]>> ELSE <<>>
        /\ \A q \in Accs(lb) : h.node[q].ins = <<>>
        /\ \A n \in O : h.node[n] = g.node[n]
    BY DEF IsOptimizerOf
  <1> DEFINE k(n) == IF n \in O THEN r[n] + 2 ELSE IF n \in Aliases(lb) THEN r[lb[n[2]]] + 3 ELSE 0
             rank == [n \in DOMAIN h.node |-> k(n)]
  <1>4. \A w \in P : Updated(w) \in Aliases(lb) /\ Updated(w)[2] = w /\ Updated(w) \notin O
    BY <1>2 DEF Aliases, Updated
  <1>5. \A n \in O : r[n] \in Nat /\ k(n) = r[n] + 2
    BY <1>1, <1>2
  <1>6. \A w \in P : k(Updated(w)) = r[lb[w]] + 3 /\ r[lb[w]] \in Nat
    BY <1>2, <1>4, <1>5
  <1>7. \A n \in P \cup Accs(lb) : k(n) = 0
    <2>1. \A n \in P \cup Accs(lb) : n \notin O /\ n \notin Aliases(lb)
      BY <1>2 DEF Aliases
    <2> QED
      BY <2>1
  <1>8. \A n \in DOMAIN h.node : n \in P \cup Accs(lb) \/ n \in O \/ \E w \in P : n = Updated(w)
    BY <1>3 DEF Aliases
  <1> HIDE DEF k, O, P
  <1>9. rank \in [DOMAIN h.node -> Nat]
    <2>1. \A n \in DOMAIN h.node : k(n) \in Nat
      BY <1>5, <1>6, <1>7, <1>8
    <2> QED
      BY <2>1
  <1>10. ToSet(<<>>) = {} /\ \A x : ToSet(<<x>>) = {x}
    <2>1. ToSet(<<>>) = {}
      BY DEF ToSet
    <2> QED
      BY <2>1, OneIs
  <1>11. ASSUME NEW n \in DOMAIN h.node, NEW x \in ToSet(h.node[n].ins)
         PROVE  x \in DOMAIN h.node /\ k(x) < k(n)
    <2>1. CASE n \in O
      <3>1. x \in ToSet(g.node[n].ins) /\ n \in DOMAIN g.node
        BY <2>1, <1>2, <1>3, <1>11
      <3>2. x \in O \cup P \cup Accs(lb)
        BY <2>1, <3>1, OptReads DEF O, P
      <3>3. CASE x \in O
        <4>1. r[x] < r[n] /\ r[x] \in Nat /\ r[n] \in Nat
          BY <2>1, <3>1, <3>3, <1>1, <1>5
        <4> QED
          BY <4>1, <2>1, <3>3, <1>3, <1>5
      <3>4. CASE x \in P \cup Accs(lb)
        BY <2>1, <3>4, <1>3, <1>5, <1>7
      <3> QED
        BY <3>2, <3>3, <3>4
    <2>2. ASSUME NEW w \in P, n = Updated(w) PROVE x \in DOMAIN h.node /\ k(x) < k(n)
      <3>1. lb[w] \in O /\ x = lb[w]
        <4> DEFINE y == lb[w]
        <4>1. y \in O /\ h.node[Updated(w)].ins = <<y>>
          BY <1>2, <1>3
        <4> HIDE DEF y
        <4>2. ToSet(<<y>>) = {y}
          BY <1>10
        <4>3. x \in ToSet(<<y>>)
          BY <4>1, <2>2, <1>11
        <4> QED
          BY <4>1, <4>2, <4>3 DEF y
      <3> QED
        BY <3>1, <2>2, <1>3, <1>5, <1>6
    <2>3. CASE n \in Accs(lb)
      BY <2>3, <1>3, <1>10, <1>11
    <2>4. CASE n \in P
      <3>1. n \in DOMAIN g.node /\ TypeOf(n) = "input"
        BY <2>4, <1>2 DEF TypeOf
      <3>2. Len(g.node[n].ins) = 0 /\ g.node[n].ins \in Seq(DOMAIN g.node)
        BY <3>1 DEF Well, IsGraph, Whole, Fits, Ports, Records
      <3>3. g.node[n].ins = <<>>
        BY <3>2
      <3> QED
        BY <2>4, <3>3, <1>3, <1>10, <1>11
    <2> QED
      BY <2>1, <2>2, <2>3, <2>4, <1>8
  <1>12. \A n \in DOMAIN h.node : \A x \in ToSet(h.node[n].ins) : rank[x] < rank[n]
    BY <1>11
  <1> HIDE DEF rank
  <1> QED
    BY <1>9, <1>12 DEF Acyclic, Ranks

\* What extract_optimizer_graph makes of a graph: the optimizer's nodes as they are,
\* behind the parameters and the gradients they read, and an output for each parameter.
LEMMA OptimizerIs ==
    ASSUME NEW m, NEW g, Well(g), Updates(m, g, loopback)
    PROVE  IsOptimizer(g, loopback, OptimizerGraph(g))
  <1> DEFINE lb == loopback
             params == Only(OfType(g, "input"), DOMAIN loopback)
             pairs == FlattenSeq([i \in DOMAIN params |-> <<params[i], Updated(params[i])>>])
             withParams == AddNodes(EmptyGraph, pairs,
                               [n \in ToSet(pairs) |->
                                   IF n \in ToSet(params) THEN g.node[n]
                                   ELSE Node("output", "internal", "opt", <<>>)])
             start == AddNodes(withParams, Accumulators(g),
                              [q \in ToSet(Accumulators(g)) |->
                                  Node("input", "gradient", "opt", <<>>)])
             order == OfEpoch(g, TopologicalSort(g), "opt")
             built == CHOOSE f : StepsUpTo(g, start, order, Len(order), f)
             opt == built[Len(order)]
             names == [i \in DOMAIN params |-> Updated(params[i])]
             h == [opt EXCEPT !.inputs = OptimizerInputs(g), !.outputs = names]
  <1>1. OptimizerGraph(g) = h
    BY DEF OptimizerGraph, StepsUpTo
  <1>2. IsOptimizerOf(g, lb, {}, start)
    BY OptimizerStarts
  <1> HIDE DEF start, withParams, pairs
  <1>3. /\ order \in Seq(DOMAIN g.node) /\ Distinct(order) /\ ToSet(order) = Opts(g)
        /\ \A j \in DOMAIN order : \A x \in ToSet(g.node[order[j]].ins) :
              EpochOf(x) = "opt" => \E i \in DOMAIN order : i < j /\ order[i] = x
    BY EpochOrder DEF Opts
  <1> HIDE DEF order
  <1>4. DOMAIN order = 1..Len(order) /\ Len(order) \in Nat
        /\ \A i \in DOMAIN order : order[i] \in ToSet(order)
    BY <1>3, Entries
  <1>5. StepsUpTo(g, start, order, Len(order), built)
    BY <1>4, StepsDefined
  <1> HIDE DEF built
  <1>6. /\ built[0] = start
        /\ \A i \in 1..Len(order) : built[i] = Stepped(g, built[i - 1], order[i])
    BY <1>4, <1>5 DEF StepsUpTo
  <1> DEFINE Upto(i) == {order[j] : j \in 1..i}
             Done(i) == IsOptimizerOf(g, lb, Upto(i), built[i])
             Good == {i \in Nat : i <= Len(order) => Done(i)}
  <1>7. 0 \in Good
    <2>1. Upto(0) = {}
      OBVIOUS
    <2> HIDE DEF Upto
    <2> QED
      BY <2>1, <1>2, <1>6
  <1>8. ASSUME NEW i \in Nat, i \in Good PROVE i + 1 \in Good
    <2> SUFFICES ASSUME i + 1 <= Len(order) PROVE Done(i + 1)
      OBVIOUS
    <2>1. (i + 1) - 1 = i /\ i + 1 \in 1..Len(order) /\ i <= Len(order) /\ i + 1 \in DOMAIN order
      BY <1>4
    <2>2. Done(i)
      BY <2>1, <1>8
    <2>3. built[i + 1] = Stepped(g, built[i], order[i + 1])
      BY <2>1, <1>6
    <2>4. order[i + 1] \in Opts(g) /\ Upto(i) \subseteq Opts(g)
      BY <2>1, <1>3, <1>4
    <2>5. order[i + 1] \notin Upto(i)
      BY <2>1, <1>3, <1>4 DEF Distinct
    <2>6. \A x \in ToSet(g.node[order[i + 1]].ins) : EpochOf(x) = "opt" => x \in Upto(i)
      <3> TAKE x \in ToSet(g.node[order[i + 1]].ins)
      <3> HAVE EpochOf(x) = "opt"
      <3>1. PICK k \in DOMAIN order : k < i + 1 /\ order[k] = x
        BY <2>1, <1>3
      <3>2. k \in 1..i
        BY <3>1, <1>4
      <3> QED
        BY <3>1, <3>2
    <2>7. Upto(i + 1) = Upto(i) \cup {order[i + 1]}
      BY <2>1
    <2> DEFINE c == built[i]
               n == order[i + 1]
    <2> HIDE DEF Upto, Good, c, n
    <2>8. IsOptimizerOf(g, lb, Upto(i), c)
      BY <2>2 DEF c
    <2>9. n \in Opts(g) /\ Upto(i) \subseteq Opts(g) /\ n \notin Upto(i)
          /\ \A x \in ToSet(g.node[n].ins) : EpochOf(x) = "opt" => x \in Upto(i)
      BY <2>4, <2>5, <2>6 DEF n
    <2>10. IsOptimizerOf(g, lb, Upto(i) \cup {n}, Stepped(g, c, n))
      BY <2>8, <2>9, SteppedIs
    <2> QED
      BY <2>3, <2>7, <2>10 DEF c, n
  <1>9. Done(Len(order))
    <2>1. Len(order) \in Good
      <3> HIDE DEF Good
      <3> QED
        BY <1>4, <1>7, <1>8, SetInduction
    <2> HIDE DEF Done
    <2> QED
      BY <2>1, <1>4
  <1>10. Upto(Len(order)) = Opts(g)
    BY <1>3, <1>4 DEF ToSet
  <1>11. IsOptimizerOf(g, lb, Opts(g), opt)
    BY <1>9, <1>10
  <1> HIDE DEF Upto, Done, Good, opt
  <1>12. IsGraph(opt) /\ Aliases(lb) \subseteq DOMAIN opt.node /\ Accs(lb) \subseteq DOMAIN opt.node
    BY <1>11 DEF IsOptimizerOf
  <1>13. Accumulators(g) \in Seq(DOMAIN opt.node) /\ OptimizerInputs(g) = Accumulators(g)
    <2>1. Accumulators(g) \in Seq(DOMAIN g.node) /\ ToSet(Accumulators(g)) = Accs(lb)
      BY AccumulatorsAre
    <2> QED
      BY <2>1, <1>12, Retyped DEF OptimizerInputs
  <1>14. names \in Seq(Aliases(lb)) /\ Distinct(names) /\ ToSet(names) = Aliases(lb)
    <2>1. params \in Seq(DOMAIN lb) /\ Distinct(params) /\ ToSet(params) = DOMAIN lb
      BY UpdatedParameters
    <2> HIDE DEF params, lb
    <2>2. IsNaming(params, "updated", names)
      BY DEF IsNaming, Updated
    <2> HIDE DEF names
    <2>3. /\ names \in Seq({<<"updated", x>> : x \in ToSet(params)}) /\ Distinct(names)
          /\ ToSet(names) = {<<"updated", x>> : x \in ToSet(params)}
      <3> DEFINE T == DOMAIN lb
                 kind == "updated"
      <3> HIDE DEF T, kind
      <3>1. params \in Seq(T) /\ Distinct(params) /\ IsNaming(params, kind, names)
        BY <2>1, <2>2 DEF T, kind
      <3>2. /\ names \in Seq({<<kind, x>> : x \in ToSet(params)}) /\ Distinct(names)
            /\ ToSet(names) = {<<kind, x>> : x \in ToSet(params)}
        BY <3>1, NamesOf
      <3> QED
        BY <3>2 DEF kind
    <2>4. {<<"updated", x>> : x \in ToSet(params)} = Aliases(lb)
      BY <2>1 DEF Aliases, Updated
    <2> QED
      BY <2>3, <2>4
  <1> HIDE DEF names, params
  <1>15. names \in Seq(DOMAIN opt.node)
    BY <1>12, <1>14, Retyped
  <1>16. /\ h.node = opt.node /\ h.nodes = opt.nodes
         /\ h.inputs = Accumulators(g) /\ h.outputs = names
         /\ h = [nodes |-> h.nodes, node |-> h.node, inputs |-> h.inputs, outputs |-> h.outputs]
    <2>1. opt = [nodes |-> opt.nodes, node |-> opt.node, inputs |-> opt.inputs, outputs |-> opt.outputs]
      BY <1>12 DEF IsGraph
    <2> DEFINE ins == OptimizerInputs(g)
    <2> HIDE DEF ins
    <2>2. h = [opt EXCEPT !.inputs = ins, !.outputs = names]
      BY DEF ins
    <2> HIDE DEF h
    <2>3. h.inputs = ins /\ h.outputs = names
      BY <2>1, <2>2
    <2>4. /\ h.node = opt.node /\ h.nodes = opt.nodes
          /\ h = [nodes |-> h.nodes, node |-> h.node, inputs |-> h.inputs, outputs |-> h.outputs]
      BY <2>1, <2>2
    <2> QED
      BY <2>3, <2>4, <1>13 DEF ins
  <1> HIDE DEF h
  <1>17. IsGraph(h)
    BY <1>12, <1>13, <1>15, <1>16, RelistedIs DEF Relisted
  <1>18. IsOptimizerOf(g, lb, Opts(g), h)
    BY <1>11, <1>16, <1>17 DEF IsOptimizerOf
  <1>19. Acyclic(h)
    BY <1>18, OptimizerAcyclic
  <1> QED
    BY <1>1, <1>14, <1>16, <1>18, <1>19 DEF IsOptimizer

\* The forward graph goes in no circle either.
LEMMA ForwardAcyclic ==
    ASSUME NEW g, Well(g), NEW h, IsForward(g, h)
    PROVE  Acyclic(h)
  <1> DEFINE F == Forwards(g)
             I == Intermediates(g)
  <1>1. PICK r \in [DOMAIN g.node -> Nat] :
           \A n \in DOMAIN g.node : \A x \in ToSet(g.node[n].ins) : r[x] < r[n]
    BY DEF Well, Acyclic, Ranks
  <1>2. /\ DOMAIN h.node = F \cup I /\ \A n \in F : h.node[n].ins = g.node[n].ins
        /\ \A n \in Saves(g) : h.node[<<"intermediate", n>>].ins = <<n>>
    BY DEF IsForward
  <1>3. Saves(g) \subseteq F /\ F \subseteq DOMAIN g.node
    BY DEF Saves, ForwardOps, Forwards
  <1>4. \A o \in I : o \notin F /\ o[2] \in Saves(g) /\ o = <<"intermediate", o[2]>>
    BY <1>3, IntermediatesAreNew DEF Intermediates
  <1> DEFINE k(n) == IF n \in F THEN r[n] ELSE r[n[2]] + 1
             rank == [n \in DOMAIN h.node |-> k(n)]
  <1>5. \A n \in F : k(n) = r[n] /\ r[n] \in Nat
    BY <1>1, <1>3
  <1>6. \A o \in I : k(o) = r[o[2]] + 1 /\ r[o[2]] \in Nat
    BY <1>3, <1>4, <1>5
  <1> HIDE DEF k, F, I
  <1>7. rank \in [DOMAIN h.node -> Nat]
    <2>1. \A n \in DOMAIN h.node : k(n) \in Nat
      BY <1>2, <1>5, <1>6
    <2> QED
      BY <2>1
  <1>8. ASSUME NEW n \in DOMAIN h.node, NEW x \in ToSet(h.node[n].ins)
        PROVE  x \in DOMAIN h.node /\ k(x) < k(n)
    <2>1. CASE n \in F
      <3>1. x \in ToSet(g.node[n].ins) /\ n \in DOMAIN g.node /\ EpochOf(n) = "fwd"
        BY <2>1, <1>2, <1>3, <1>8 DEF F, Forwards
      <3>2. x \in DOMAIN g.node
        BY <3>1, Entries DEF Well, IsGraph, Records
      <3>3. EpochOf(x) = "fwd"
        BY <3>1 DEF Well, Whole, Fits, MayRead
      <3>4. x \in F
        BY <3>2, <3>3 DEF F, Forwards
      <3> QED
        BY <2>1, <3>1, <3>4, <1>1, <1>2, <1>5
    <2>2. CASE n \in I
      <3> DEFINE y == n[2]
      <3>2. y \in Saves(g) /\ n = <<"intermediate", y>>
        BY <2>2, <1>4
      <3> HIDE DEF y
      <3>3. h.node[n].ins = <<y>> /\ ToSet(<<y>>) = {y}
        BY <3>2, <1>2, OneIs
      <3>1. x = n[2]
        BY <3>3, <1>8 DEF y
      <3> QED
        BY <3>1, <2>2, <1>2, <1>3, <1>4, <1>5, <1>6
    <2> QED
      BY <2>1, <2>2, <1>2
  <1>9. \A n \in DOMAIN h.node : \A x \in ToSet(h.node[n].ins) : rank[x] < rank[n]
    BY <1>8
  <1> HIDE DEF rank
  <1> QED
    BY <1>7, <1>9 DEF Acyclic, Ranks

-----------------------------------------------------------------------------
\* The invariant of the way from the trace to the programs.

Building == {"trace", "propagate", "outputs", "differentiate", "optimizer", "nops"}
Running == {"compiled", "called", "tied", "differentiated", "stepped", "refused",
            "too many gradients"}
Stages == Building \cup {"backward", "update"} \cup Running

ProgramsInv ==
    /\ stage \in Stages
    /\ stage \in Building => DOMAIN programs = {}
    /\ stage = "backward" => DOMAIN programs = {"Forward"}
    /\ stage = "update" => DOMAIN programs = {"Forward", "Backward"}
    /\ stage \in Running => {"Forward", "Backward"} \subseteq DOMAIN programs
    /\ DOMAIN programs \subseteq {"Forward", "Backward", "Optimizer"}
    /\ "Forward" \in DOMAIN programs => IsForward(graph, programs["Forward"])
    /\ "Backward" \in DOMAIN programs =>
          IsBackward(graph, programs["Forward"], programs["Backward"])
    /\ "Optimizer" \in DOMAIN programs => IsOptimizer(graph, loopback, programs["Optimizer"])

SplitInv == AutogradInv /\ ProgramsInv

\* What a step of the autograd engine does to the stage.
LEMMA AutogradStages ==
    AutogradNext => stage \in Building /\ stage' \in Building
  BY DEF AutogradNext, VisitTensor, RegisterModule, PropagateRequiresGrad, CreateGradientInput,
         StartDifferentiation, Differentiate, StartOptimizer, OptimizeParameter,
         InsertRecomputeOps, Building

\* The start of a compilation.
LEMMA SplitStarts == SplitInit => SplitInv
  <1> SUFFICES ASSUME SplitInit PROVE SplitInv
    OBVIOUS
  <1>1. AutogradInv
    BY AutogradStarts DEF SplitInit
  <1>2. stage = "trace"
    BY DEF SplitInit, AutogradInit
  <1>3. DOMAIN programs = {}
    BY DEF SplitInit, NoPrograms
  <1> QED
    BY <1>1, <1>2, <1>3 DEF SplitInv, ProgramsInv, Stages, Building, Running

\* When the graph is through, what is known of it stays known.
LEMMA AutogradRests ==
    ASSUME AutogradInv, stage \in Stages \ (Building \ {"nops"}),
           stage' \in Stages \ Building,
           UNCHANGED <<model, todo, graph, requires_grad, gradients, loopback>>
    PROVE  AutogradInv'
  <1>1. /\ stage \notin Early \cup {"optimizer"} /\ stage # "trace"
        /\ stage' \notin Early \cup {"optimizer", "nops"}
    BY DEF Stages, Building, Early, Running
  <1> QED
    BY <1>1 DEF AutogradInv, Early

\* The invariant of SplitGraph is kept by every step.
LEMMA SplitKeeps == SplitInv /\ SplitNext => SplitInv'
  <1> SUFFICES ASSUME SplitInv, SplitNext PROVE SplitInv'
    OBVIOUS
  <1>1. AutogradInv /\ ProgramsInv
    BY DEF SplitInv
  <1>2. CASE AutogradNext /\ UNCHANGED programs
    <2>1. AutogradInv'
      BY <1>1, <1>2, AutogradKeeps
    <2>2. stage \in Building /\ stage' \in Building
      BY <1>2, AutogradStages
    <2>3. DOMAIN programs = {} /\ programs' = programs
      BY <1>1, <1>2, <2>2 DEF ProgramsInv
    <2>4. ProgramsInv'
      BY <2>2, <2>3 DEF ProgramsInv, Stages, Building, Running
    <2> QED
      BY <2>1, <2>4 DEF SplitInv
  <1>3. CASE RemoveNop
    <2>1. /\ stage = "nops" /\ stage' = "nops"
          /\ UNCHANGED <<model, stage, requires_grad, gradients, loopback, programs>>
      BY <1>3 DEF RemoveNop
    <2>2. /\ IsTraced(model) /\ Well(graph) /\ Listed(model, graph)
          /\ IsTrainable(model, graph, loopback) /\ IsRemoving(graph, todo)
          /\ requires_grad \subseteq DOMAIN gradients
      BY <1>1, <2>1 DEF AutogradInv, Early
    <2>3. /\ Well(graph') /\ Listed(model, graph') /\ IsTrainable(model, graph', loopback)
          /\ IsRemoving(graph', todo')
      BY <1>3, <2>2, RemoveNopKeeps
    <2>4. AutogradInv'
      BY <2>1, <2>2, <2>3 DEF AutogradInv, Early
    <2>5. DOMAIN programs = {}
      BY <1>1, <2>1 DEF ProgramsInv, Building
    <2>6. ProgramsInv'
      BY <2>1, <2>5 DEF ProgramsInv, Stages, Building, Running
    <2> QED
      BY <2>4, <2>6 DEF SplitInv
  <1>4. CASE ExtractForward
    <2> DEFINE f == ForwardGraph(graph)
    <2>1. /\ stage = "nops" /\ stage' = "backward"
          /\ programs' = With(programs, "Forward", f)
          /\ UNCHANGED <<model, todo, graph, requires_grad, gradients, loopback>>
      BY <1>4 DEF ExtractForward, Extract
    <2>2. AutogradInv'
      BY <1>1, <2>1, AutogradRests DEF Stages, Building, Running
    <2>3. IsForward(graph, f)
      <3>1. IsTraced(model) /\ Well(graph) /\ Listed(model, graph)
        BY <1>1, <2>1 DEF AutogradInv
      <3> QED
        BY <3>1, ForwardIs
    <2> HIDE DEF f
    <2>4. DOMAIN programs = {}
      BY <1>1, <2>1 DEF ProgramsInv, Building
    <2>5. DOMAIN programs' = {"Forward"} /\ programs'["Forward"] = f
      BY <2>1, <2>4 DEF With
    <2>6. ProgramsInv'
      BY <2>1, <2>3, <2>5 DEF ProgramsInv, Stages, Building, Running
    <2> QED
      BY <2>2, <2>6 DEF SplitInv
  <1>5. CASE ExtractBackward
    <2> DEFINE f == programs["Forward"]
               b == BackwardGraph(graph, f)
               to == IF loopback = NoPrograms THEN "compiled" ELSE "update"
    <2>1. /\ stage = "backward" /\ stage' = to
          /\ programs' = With(programs, "Backward", b)
          /\ UNCHANGED <<model, todo, graph, requires_grad, gradients, loopback>>
      BY <1>5 DEF ExtractBackward, Extract
    <2>2. to \in {"compiled", "update"}
      OBVIOUS
    <2> HIDE DEF to
    <2>3. AutogradInv'
      BY <1>1, <2>1, <2>2, AutogradRests DEF Stages, Building, Running
    <2>4. DOMAIN programs = {"Forward"} /\ IsForward(graph, f)
      BY <1>1, <2>1 DEF ProgramsInv
    <2>5. IsBackward(graph, f, b)
      <3>1. Well(graph) /\ Listed(model, graph)
        BY <1>1, <2>1 DEF AutogradInv
      <3> QED
        BY <2>4, <3>1, BackwardIs
    <2> HIDE DEF f, b
    <2>6. /\ DOMAIN programs' = {"Forward", "Backward"} /\ programs'["Backward"] = b
          /\ programs'["Forward"] = f
      <3>1. DOMAIN programs' = DOMAIN programs \cup {"Backward"} /\ programs'["Backward"] = b
            /\ \A z \in DOMAIN programs \ {"Backward"} : programs'[z] = programs[z]
        BY <2>1 DEF With
      <3> QED
        BY <3>1, <2>4 DEF f
    <2>7. ProgramsInv'
      BY <2>1, <2>2, <2>4, <2>5, <2>6 DEF ProgramsInv, Stages, Building, Running
    <2> QED
      BY <2>3, <2>7 DEF SplitInv
  <1>6. CASE ExtractOptimizer
    <2> DEFINE f == programs["Forward"]
               b == programs["Backward"]
               o == OptimizerGraph(graph)
    <2>1. /\ stage = "update" /\ stage' = "compiled"
          /\ programs' = With(programs, "Optimizer", o)
          /\ UNCHANGED <<model, todo, graph, requires_grad, gradients, loopback>>
      BY <1>6 DEF ExtractOptimizer, Extract
    <2>2. AutogradInv'
      BY <1>1, <2>1, AutogradRests DEF Stages, Building, Running
    <2>3. /\ DOMAIN programs = {"Forward", "Backward"}
          /\ IsForward(graph, f) /\ IsBackward(graph, f, b)
      BY <1>1, <2>1 DEF ProgramsInv
    <2>4. IsOptimizer(graph, loopback, o)
      <3>1. Well(graph) /\ Updates(model, graph, loopback)
        BY <1>1, <2>1 DEF AutogradInv, Early, IsTrainable
      <3> QED
        BY <3>1, OptimizerIs
    <2> HIDE DEF f, b, o
    <2>5. /\ DOMAIN programs' = {"Forward", "Backward", "Optimizer"}
          /\ programs'["Backward"] = b /\ programs'["Forward"] = f /\ programs'["Optimizer"] = o
      <3>1. DOMAIN programs' = DOMAIN programs \cup {"Optimizer"} /\ programs'["Optimizer"] = o
            /\ \A z \in DOMAIN programs \ {"Optimizer"} : programs'[z] = programs[z]
        BY <2>1 DEF With
      <3> QED
        BY <3>1, <2>3 DEF f, b
    <2>6. ProgramsInv'
      BY <2>1, <2>3, <2>4, <2>5 DEF ProgramsInv, Stages, Building, Running
    <2> QED
      BY <2>2, <2>6 DEF SplitInv
  <1> QED
    BY <1>2, <1>3, <1>4, <1>5, <1>6 DEF SplitNext

\* The programs are left as they are when they run.
LEMMA SplitRests ==
    ASSUME SplitInv, stage \in Running, stage' \in Running, UNCHANGED <<model, todo, graph,
           requires_grad, gradients, loopback, programs>>
    PROVE  SplitInv'
  <1>1. AutogradInv'
    BY AutogradRests DEF SplitInv, Stages, Building, Running
  <1>2. ProgramsInv'
    BY DEF SplitInv, ProgramsInv, Stages, Building, Running
  <1> QED
    BY <1>1, <1>2 DEF SplitInv

\* From the trace to the three programs: whatever the module, the graph is one whose
\* nodes are what their names say in every stage, the forward program holds every forward
\* node and shows what the backward pass reads again, the backward program loses no
\* operand, and the optimizer's updates every parameter it was made for.
THEOREM ProgramsAreWhole == SplitInit /\ [][SplitNext]_splitVars => []SplitInv
  <1>1. SplitInit => SplitInv
    BY SplitStarts
  <1>2. SplitInv /\ [SplitNext]_splitVars => SplitInv'
    <2> SUFFICES ASSUME SplitInv, [SplitNext]_splitVars PROVE SplitInv'
      OBVIOUS
    <2>1. CASE SplitNext
      BY <2>1, SplitKeeps
    <2>2. CASE UNCHANGED splitVars
      BY <2>2 DEF splitVars, autogradVars, SplitInv, AutogradInv, ProgramsInv
    <2> QED
      BY <2>1, <2>2
  <1> QED
    BY <1>1, <1>2, PTL
=============================================================================
