--------------------------- MODULE GraphLibProofs ---------------------------
(***************************************************************************)
(* The invariants of Graph for any number of nodes, ports and names, and   *)
(* that a Graph is the set of nodes and edges its users take it for.       *)
(***************************************************************************)
EXTENDS GraphLib, SequenceTheorems, TLAPS

\* The two maps of the edges are only right together, and the attributes only
\* with them: the invariants are inductive as one.
IInv == TypeOK /\ EdgesAgree /\ EdgesHaveAttributes /\ NamesAgree

-----------------------------------------------------------------------------
\* Helpers

\* In a graph whose two maps agree, an edge is live if its consumer has it.
LEMMA LiveEdge ==
    ASSUME TypeOK, EdgesAgree, NEW e
    PROVE  e \in LiveEdges <=> \E n \in Nodes : e \in operands[n]
  BY DEF TypeOK, LiveEdges

\* The first steps of a proof about the state after a step.
LEMMA LiveEdgeNext ==
    ASSUME operands' \in [Nodes' -> SUBSET Edge], NEW e
    PROVE  e \in LiveEdges' <=> \E n \in Nodes' : e \in operands'[n]
  BY DEF LiveEdges

-----------------------------------------------------------------------------
\* The initial graph is empty.
LEMMA InitIInv == Init => IInv
  <1> SUFFICES ASSUME Init PROVE IInv
    OBVIOUS
  <1>1. Nodes = {} /\ DOMAIN node_id = {} /\ DOMAIN attrs = {}
    BY DEF Init, Empty, Nodes
  <1>2. LiveEdges = {}
    BY DEF LiveEdges, Init, Empty
  <1>3. TypeOK
    BY <1>1, GraphAssumption DEF Init, TypeOK, Empty, NodeIds, GraphAssumption, Nodes
  <1> QED
    BY <1>1, <1>2, <1>3 DEF IInv, EdgesAgree, EdgesHaveAttributes, NamesAgree

\* add_node enters the new id in every map.
LEMMA AddNodeIInv ==
    ASSUME IInv, NEW nm \in NodeNames, AddNode(nm)
    PROVE  IInv'
  <1> DEFINE id == last_node_id + 1
  <1>1. /\ id \in NodeIds /\ id \notin Nodes /\ last_node_id' = id
        /\ last_node_id' \in 0..MaxNodes
        /\ Nodes \subseteq 1..last_node_id'
    BY GraphAssumption DEF IInv, TypeOK, AddNode, NodeIds, GraphAssumption
  <1>2. /\ name' \in [Nodes \cup {id} -> NodeNames]
        /\ name'[id] = nm /\ \A n \in Nodes : name'[n] = name[n]
    BY <1>1 DEF IInv, TypeOK, AddNode, With
  <1>3. Nodes' = Nodes \cup {id}
    BY <1>2 DEF Nodes
  <1>4. /\ node_id' \in [DOMAIN node_id \cup {nm} -> Nodes']
        /\ node_id'[nm] = id
        /\ \A m \in DOMAIN node_id : node_id'[m] = node_id[m]
    <2>1. node_id \in [DOMAIN node_id -> Nodes']
      BY <1>3 DEF IInv, TypeOK
    <2> QED
      BY <2>1, <1>3 DEF AddNode, With
  <1>5. /\ users' \in [Nodes' -> SUBSET Edge]
        /\ users'[id] = {} /\ \A n \in Nodes : users'[n] = users[n]
    BY <1>1, <1>3 DEF IInv, TypeOK, AddNode, With
  <1>6. /\ operands' \in [Nodes' -> SUBSET Edge]
        /\ operands'[id] = {} /\ \A n \in Nodes : operands'[n] = operands[n]
    BY <1>1, <1>3 DEF IInv, TypeOK, AddNode, With
  <1>7. TypeOK'
    BY <1>1, <1>2, <1>3, <1>4, <1>5, <1>6 DEF IInv, TypeOK, AddNode
  <1>8. EdgesAgree'
    BY <1>3, <1>5, <1>6 DEF IInv, EdgesAgree
  <1>9. EdgesHaveAttributes'
    BY <1>3, <1>6, LiveEdge, LiveEdgeNext DEF IInv, EdgesHaveAttributes, AddNode
  <1>10. NamesAgree'
    BY <1>1, <1>2, <1>3, <1>4 DEF IInv, NamesAgree, TypeOK, AddNode
  <1> QED
    BY <1>7, <1>8, <1>9, <1>10 DEF IInv

\* remove_node erases the edges under the neighbours before its own entries.
LEMMA RemoveNodeIInv ==
    ASSUME IInv, NEW n \in Nodes, RemoveNode(n)
    PROVE  IInv'
  <1>1. /\ Nodes' = Nodes \ {n}
        /\ name' \in [Nodes' -> NodeNames]
        /\ \A m \in Nodes' : name'[m] = name[m]
    BY DEF IInv, TypeOK, RemoveNode, Without, Nodes
  <1>2. /\ users' \in [Nodes' -> SUBSET Edge]
        /\ \A m \in Nodes' : users'[m] = users[m] \ operands[n]
    BY <1>1 DEF IInv, TypeOK, RemoveNode, UsersBut, OperandsBut
  <1>3. /\ operands' \in [Nodes' -> SUBSET Edge]
        /\ \A m \in Nodes' : operands'[m] = operands[m] \ (users[n] \ operands[n])
    BY <1>1 DEF IInv, TypeOK, RemoveNode, UsersBut, OperandsBut
  <1>4. /\ DOMAIN node_id' = DOMAIN node_id \ {name[n]}
        /\ \A nm \in DOMAIN node_id' : node_id'[nm] = node_id[nm]
        /\ node_id' \in [DOMAIN node_id' -> Nodes']
    <2>1. \A nm \in DOMAIN node_id \ {name[n]} : node_id[nm] \in Nodes \ {n}
      BY DEF IInv, TypeOK, NamesAgree
    <2> QED
      BY <2>1, <1>1 DEF RemoveNode, Without
  <1>5. TypeOK'
    BY <1>1, <1>2, <1>3, <1>4 DEF IInv, TypeOK, RemoveNode, Unmarked
  <1>6. EdgesAgree'
    <2>1. ASSUME NEW m \in Nodes', NEW e \in users'[m]
          PROVE  e.src = m /\ e.dst \in Nodes' /\ e \in operands'[e.dst]
      <3>1. e \in users[m] /\ e \notin operands[n]
        BY <2>1, <1>2
      <3>2. e.src = m /\ e.dst \in Nodes /\ e \in operands[e.dst]
        BY <3>1, <1>1 DEF IInv, EdgesAgree
      <3>3. e.dst # n
        BY <3>1, <3>2
      <3>4. e \notin users[n]
        BY <3>2, <1>1 DEF IInv, EdgesAgree
      <3> QED
        BY <3>2, <3>3, <3>4, <1>1, <1>3
    <2>2. ASSUME NEW m \in Nodes', NEW e \in operands'[m]
          PROVE  e.dst = m /\ e.src \in Nodes' /\ e \in users'[e.src]
      <3>1. e \in operands[m] /\ ~ (e \in users[n] /\ e \notin operands[n])
        BY <2>2, <1>3
      <3>2. e.dst = m /\ e.src \in Nodes /\ e \in users[e.src]
        BY <3>1, <1>1 DEF IInv, EdgesAgree
      <3>3. e \notin operands[n]
        BY <3>2, <1>1 DEF IInv, EdgesAgree
      <3> QED
        BY <3>1, <3>2, <3>3, <1>1, <1>2
    <2> QED
      BY <2>1, <2>2 DEF EdgesAgree
  <1>7. EdgesHaveAttributes'
    <2>1. \A e \in LiveEdges' : e \in LiveEdges
      BY <1>1, <1>3, LiveEdge, LiveEdgeNext DEF IInv
    <2> QED
      BY <2>1 DEF IInv, EdgesHaveAttributes, RemoveNode
  <1>8. NamesAgree'
    BY <1>1, <1>4 DEF IInv, NamesAgree, TypeOK
  <1> QED
    BY <1>5, <1>6, <1>7, <1>8 DEF IInv

\* update_node_name: the new name is free.
LEMMA UpdateNodeNameIInv ==
    ASSUME IInv, NEW n \in Nodes, NEW nm \in NodeNames, UpdateNodeName(n, nm)
    PROVE  IInv'
  <1>1. /\ Nodes' = Nodes
        /\ name' \in [Nodes -> NodeNames]
        /\ name'[n] = nm /\ \A m \in Nodes \ {n} : name'[m] = name[m]
    BY DEF IInv, TypeOK, UpdateNodeName, Nodes
  <1>2. node_id[name[n]] = n /\ name[n] \in DOMAIN node_id
    BY DEF IInv, NamesAgree
  <1>3. /\ DOMAIN node_id' = (DOMAIN node_id \ {name[n]}) \cup {nm}
        /\ node_id'[nm] = n
        /\ \A m \in DOMAIN node_id \ {name[n]} : m # nm /\ node_id'[m] = node_id[m]
        /\ node_id' \in [DOMAIN node_id' -> Nodes]
    BY <1>2 DEF IInv, TypeOK, UpdateNodeName, Renamed, With, Without
  <1>4. TypeOK'
    BY <1>1, <1>3 DEF IInv, TypeOK, UpdateNodeName
  <1>5. EdgesAgree' /\ EdgesHaveAttributes'
    BY <1>1 DEF IInv, EdgesAgree, EdgesHaveAttributes, LiveEdges, UpdateNodeName
  <1>6. NamesAgree'
    <2>1. ASSUME NEW m \in DOMAIN node_id'
          PROVE  name'[node_id'[m]] = m
      <3>1. CASE m = nm
        BY <3>1, <1>1, <1>3
      <3>2. CASE m # nm
        <4>1. m \in DOMAIN node_id /\ m # name[n] /\ node_id'[m] = node_id[m]
          BY <3>2, <1>3
        <4>2. node_id[m] \in Nodes /\ name[node_id[m]] = m
          BY <4>1 DEF IInv, NamesAgree, TypeOK
        <4> QED
          BY <4>1, <4>2, <1>1
      <3> QED
        BY <3>1, <3>2
    <2>2. ASSUME NEW m \in Nodes'
          PROVE  name'[m] \in DOMAIN node_id' /\ node_id'[name'[m]] = m
      <3>1. CASE m = n
        BY <3>1, <1>1, <1>3
      <3>2. CASE m # n
        <4>1. m \in Nodes /\ name'[m] = name[m]
          BY <3>2, <1>1
        <4>2. name[m] \in DOMAIN node_id /\ node_id[name[m]] = m
          BY <4>1 DEF IInv, NamesAgree
        <4>3. name[m] # name[n]
          BY <4>2, <1>2, <3>2
        <4> QED
          BY <4>1, <4>2, <4>3, <1>3
      <3> QED
        BY <3>1, <3>2
    <2> QED
      BY <2>1, <2>2 DEF NamesAgree
  <1> QED
    BY <1>4, <1>5, <1>6 DEF IInv

\* add_edge enters the edge in both maps and makes sure it has attributes.
LEMMA AddEdgeIInv ==
    ASSUME IInv, NEW e \in Edge, NEW a \in Attrs, AddEdge(e, a)
    PROVE  IInv'
  <1>1. Nodes' = Nodes /\ e.src \in Nodes /\ e.dst \in Nodes
    BY DEF AddEdge, Nodes
  <1>2. /\ users' \in [Nodes -> SUBSET Edge]
        /\ \A m \in Nodes : users'[m] = IF m = e.src THEN users[m] \cup {e} ELSE users[m]
    BY <1>1 DEF IInv, TypeOK, AddEdge
  <1>3. /\ operands' \in [Nodes -> SUBSET Edge]
        /\ \A m \in Nodes : operands'[m] = IF m = e.dst THEN operands[m] \cup {e} ELSE operands[m]
    BY <1>1 DEF IInv, TypeOK, AddEdge
  <1>4. /\ DOMAIN attrs' = DOMAIN attrs \cup {e}
        /\ attrs' \in [DOMAIN attrs' -> Attrs]
    BY DEF IInv, TypeOK, AddEdge, WithAttributes, With
  <1>5. TypeOK'
    BY <1>1, <1>2, <1>3, <1>4 DEF IInv, TypeOK, AddEdge
  <1>6. EdgesAgree'
    BY <1>1, <1>2, <1>3 DEF IInv, EdgesAgree
  <1>7. EdgesHaveAttributes'
    BY <1>1, <1>3, <1>4, LiveEdge, LiveEdgeNext DEF IInv, EdgesHaveAttributes
  <1>8. NamesAgree'
    BY <1>1 DEF IInv, NamesAgree, AddEdge
  <1> QED
    BY <1>5, <1>6, <1>7, <1>8 DEF IInv

\* remove_edge, of an edge it may not find.
LEMMA RemoveEdgeIInv ==
    ASSUME IInv, NEW e \in DOMAIN attrs, RemoveEdge(e)
    PROVE  IInv'
  <1>1. Nodes' = Nodes /\ e.src \in Nodes /\ e.dst \in Nodes
    BY DEF RemoveEdge, Nodes
  <1>2. /\ users \in [Nodes -> SUBSET Edge]
        /\ operands \in [Nodes -> SUBSET Edge]
    BY DEF IInv, TypeOK
  <1>3. \A m \in Nodes : \A d \in users[m] \cup operands[m] : d = e =>
            e \in operands[e.dst] /\ (d \in users[m] => m = e.src)
                                 /\ (d \in operands[m] => m = e.dst)
    BY DEF IInv, EdgesAgree
  <1>4. /\ users' \in [Nodes -> SUBSET Edge]
        /\ operands' \in [Nodes -> SUBSET Edge]
        /\ \A m \in Nodes : users'[m] = users[m] \ {e} /\ operands'[m] = operands[m] \ {e}
    <2>1. CASE e \in operands[e.dst]
      <3>1. /\ users' = [users EXCEPT ![e.src] = @ \ {e}]
            /\ operands' = [operands EXCEPT ![e.dst] = @ \ {e}]
        BY <2>1 DEF RemoveEdge
      <3> QED
        BY <3>1, <1>1, <1>2, <1>3
    <2>2. CASE e \notin operands[e.dst]
      <3>1. users' = users /\ operands' = operands
        BY <2>2 DEF RemoveEdge
      <3> QED
        BY <3>1, <2>2, <1>2, <1>3
    <2> QED
      BY <2>1, <2>2
  <1>5. TypeOK'
    BY <1>1, <1>4 DEF IInv, TypeOK, RemoveEdge
  <1>6. EdgesAgree'
    BY <1>1, <1>4 DEF IInv, EdgesAgree
  <1>7. EdgesHaveAttributes'
    <2>1. \A d \in LiveEdges' : d \in LiveEdges
      BY <1>1, <1>4, LiveEdge, LiveEdgeNext DEF IInv
    <2> QED
      BY <2>1 DEF IInv, EdgesHaveAttributes, RemoveEdge
  <1>8. NamesAgree'
    BY <1>1 DEF IInv, NamesAgree, RemoveEdge
  <1> QED
    BY <1>5, <1>6, <1>7, <1>8 DEF IInv

\* The attributes of a live edge are replaced.
LEMMA SetAttributesIInv ==
    ASSUME IInv, NEW e \in LiveEdges, NEW a \in Attrs, SetAttributes(e, a)
    PROVE  IInv'
  <1>1. Nodes' = Nodes /\ LiveEdges' = LiveEdges
    BY DEF SetAttributes, Nodes, LiveEdges
  <1>2. /\ DOMAIN attrs' = DOMAIN attrs
        /\ attrs' \in [DOMAIN attrs -> Attrs]
    BY DEF IInv, TypeOK, SetAttributes
  <1>3. TypeOK'
    BY <1>1, <1>2 DEF IInv, TypeOK, SetAttributes
  <1>4. EdgesAgree' /\ EdgesHaveAttributes'
    BY <1>1, <1>2 DEF IInv, EdgesAgree, EdgesHaveAttributes, SetAttributes
  <1>5. NamesAgree'
    BY <1>1 DEF IInv, NamesAgree, SetAttributes
  <1> QED
    BY <1>3, <1>4, <1>5 DEF IInv

\* A step that leaves the nodes, the edges and the names alone.
LEMMA FrameIInv ==
    ASSUME IInv,
           UNCHANGED <<name, node_id, users, operands, attrs>>,
           last_node_id' \in 0..MaxNodes, last_node_id <= last_node_id',
           virtual' \subseteq Nodes, module_outputs' \in Seq(NodeIds)
    PROVE  IInv'
  <1>1. Nodes' = Nodes /\ LiveEdges' = LiveEdges
    BY DEF Nodes, LiveEdges
  <1>2. Nodes \subseteq 1..last_node_id'
    <2>1. ASSUME NEW n \in Nodes PROVE n \in 1..last_node_id'
      BY <2>1, GraphAssumption DEF IInv, TypeOK, GraphAssumption
    <2> QED
      BY <2>1
  <1>3. TypeOK'
    BY <1>1, <1>2 DEF IInv, TypeOK
  <1> QED
    BY <1>1, <1>3 DEF IInv, EdgesAgree, EdgesHaveAttributes, NamesAgree

\* remove_module_*: the list without its i-th entry is a list of node ids.
LEMMA RemoveAtType ==
    ASSUME NEW T, NEW s \in Seq(T), NEW i \in DOMAIN s
    PROVE  SubSeq(s, 1, i - 1) \o SubSeq(s, i + 1, Len(s)) \in Seq(T)
  <1>1. i \in 1..Len(s) /\ Len(s) \in Nat
    OBVIOUS
  <1>2. SubSeq(s, 1, i - 1) \in Seq(T)
    BY <1>1, SubSeqProperties
  <1>3. SubSeq(s, i + 1, Len(s)) \in Seq(T)
    BY <1>1, SubSeqProperties
  <1> QED
    BY <1>2, <1>3, ConcatProperties

\* Live nodes have ids that were handed out.
LEMMA NodeIsId ==
    ASSUME TypeOK, NEW n \in Nodes
    PROVE  n \in NodeIds
  <1>1. n \in 1..last_node_id /\ last_node_id \in 0..MaxNodes /\ MaxNodes \in Nat
    BY GraphAssumption DEF TypeOK, GraphAssumption
  <1> QED
    BY <1>1 DEF NodeIds

LEMMA NextIInv == IInv /\ [Next]_graphVars => IInv'
  <1> SUFFICES ASSUME IInv, [Next]_graphVars PROVE IInv'
    OBVIOUS
  <1>1. CASE UNCHANGED graphVars
    BY <1>1, FrameIInv DEF graphVars, IInv, TypeOK
  <1>2. ASSUME NEW nm \in NodeNames, AddNode(nm) PROVE IInv'
    BY <1>2, AddNodeIInv
  <1>3. ASSUME NEW nm \in NodeNames, AddNodeThrows(nm) PROVE IInv'
    BY <1>3, FrameIInv, GraphAssumption DEF AddNodeThrows, IInv, TypeOK, GraphAssumption
  <1>4. ASSUME NEW n \in Nodes, RemoveNode(n) PROVE IInv'
    BY <1>4, RemoveNodeIInv
  <1>5. ASSUME NEW n \in Nodes, NEW nm \in NodeNames, UpdateNodeName(n, nm) PROVE IInv'
    BY <1>5, UpdateNodeNameIInv
  <1>6. ASSUME NEW e \in PossibleEdges, NEW a \in Attrs, AddEdge(e, a) PROVE IInv'
    BY <1>6, AddEdgeIInv DEF PossibleEdges
  <1>7. ASSUME NEW p \in Nodes, NEW t \in EdgeTypes, NEW c \in Nodes, AppendEdge(p, c, t)
        PROVE  IInv'
    <2> DEFINE e == [src |-> p, out |-> 0, dst |-> c, in |-> NextPort(c), type |-> t]
    <2>1. AddEdge(e, DefaultAttr) /\ NextPort(c) \in PortIds /\ 0 \in PortIds
      BY <1>7 DEF AppendEdge
    <2>2. p \in NodeIds /\ c \in NodeIds
      BY NodeIsId DEF IInv
    <2>3. e \in Edge
      BY <2>1, <2>2 DEF Edge
    <2> QED
      BY <2>1, <2>3, AddEdgeIInv, GraphAssumption DEF GraphAssumption
  <1>8. ASSUME NEW e \in DOMAIN attrs, RemoveEdge(e) PROVE IInv'
    BY <1>8, RemoveEdgeIInv
  <1>9. ASSUME NEW e \in LiveEdges, NEW a \in Attrs, SetAttributes(e, a) PROVE IInv'
    BY <1>9, SetAttributesIInv
  <1>10. ASSUME NEW n \in Nodes, MarkNodeVirtual(n) \/ MarkNodePersisted(n) PROVE IInv'
    BY <1>10, FrameIInv DEF MarkNodeVirtual, MarkNodePersisted, Unmarked, IInv, TypeOK
  <1>11. ASSUME NEW n \in Nodes, AddModuleOutput(n) PROVE IInv'
    <2>1. n \in NodeIds
      BY NodeIsId DEF IInv
    <2>2. module_outputs' \in Seq(NodeIds)
      BY <2>1, <1>11 DEF AddModuleOutput, IInv, TypeOK
    <2> QED
      BY <1>11, <2>2, FrameIInv DEF AddModuleOutput, IInv, TypeOK
  <1>12. ASSUME NEW n \in Nodes, RemoveModuleOutput(n) PROVE IInv'
    <2>1. module_outputs' \in Seq(NodeIds)
      BY <1>12, RemoveAtType DEF RemoveModuleOutput, IInv, TypeOK
    <2> QED
      BY <1>12, <2>1, FrameIInv DEF RemoveModuleOutput, IInv, TypeOK
  <1> QED
    BY <1>1, <1>2, <1>3, <1>4, <1>5, <1>6, <1>7, <1>8, <1>9, <1>10, <1>11, <1>12 DEF Next

-----------------------------------------------------------------------------
\* Whatever calls the passes make, in whatever order: the maps have their
\* types, the two copies of the edges agree, every edge has attributes, and
\* names and nodes lead to each other (graph.cpp:27-59, 471-646).
THEOREM GraphInvariant == Spec => []IInv
  BY InitIInv, NextIInv, PTL DEF Spec

\* The maps of Graph only speak of live nodes (graph.cpp:471-496).
THEOREM TypeCorrect == Spec => []TypeOK
  BY GraphInvariant, PTL DEF IInv

\* users_map_ and operands_map_ are one set of edges, get_edge_attributes throws for none of
\* them, and get_node_by_name finds the node that has the name (graph.cpp:27-59, 471-517).
THEOREM MapsAlwaysAgree == Spec => []MapsAgree
  BY GraphInvariant, PTL DEF IInv, MapsAgree

-----------------------------------------------------------------------------
\* Refinement.  A step of Graph is one step of EdgeSet, or invisible.

LEMMA AddNodeRefines ==
    ASSUME IInv, IInv', NEW nm \in NodeNames, AddNode(nm)
    PROVE  \E n \in NodeIds : Rewriting!AddNode(n, nm)
  <1> DEFINE id == last_node_id + 1
  <1>1. id \in NodeIds /\ id \notin Nodes
    BY GraphAssumption DEF IInv, TypeOK, AddNode, NodeIds, GraphAssumption
  <1>2. \A m \in Nodes : name[m] # nm
    BY DEF IInv, NamesAgree, AddNode
  <1>3. name' = [m \in Nodes \cup {id} |-> IF m = id THEN nm ELSE name[m]]
    BY DEF AddNode, With, Nodes
  <1>4. Nodes' = Nodes \cup {id}
    BY <1>3 DEF Nodes
  <1>5. /\ \A m \in Nodes : operands'[m] = operands[m]
        /\ operands'[id] = {}
    BY <1>1 DEF IInv, TypeOK, AddNode, With
  <1>6. LiveEdges' = LiveEdges
    <2>1. \A e : e \in LiveEdges' <=> e \in LiveEdges
      BY <1>4, <1>5, LiveEdge, LiveEdgeNext DEF IInv, TypeOK
    <2> QED
      BY <2>1
  <1> QED
    BY <1>1, <1>2, <1>3, <1>6 DEF Rewriting!AddNode, Rewriting!Live, Nodes

LEMMA RemoveNodeRefines ==
    ASSUME IInv, IInv', NEW n \in Nodes, RemoveNode(n)
    PROVE  Rewriting!RemoveNode(n)
  <1>1. name' = [m \in Nodes \ {n} |-> name[m]] /\ Nodes' = Nodes \ {n}
    BY DEF RemoveNode, Without, Nodes
  <1>2. \A m \in Nodes' : operands'[m] = operands[m] \ (users[n] \ operands[n])
    BY <1>1 DEF IInv, TypeOK, RemoveNode, UsersBut, OperandsBut
  <1>3. ASSUME NEW e \in LiveEdges'
        PROVE  e \in LiveEdges /\ e.src # n /\ e.dst # n
    <2>1. e.dst \in Nodes' /\ e.src \in Nodes' /\ e \in operands'[e.dst]
      BY LiveEdgeNext DEF IInv, TypeOK, EdgesAgree
    <2>2. e \in operands[e.dst] /\ e.dst \in Nodes
      BY <2>1, <1>1, <1>2
    <2> QED
      BY <2>1, <2>2, <1>1, LiveEdge DEF IInv
  <1>4. ASSUME NEW e \in LiveEdges, e.src # n, e.dst # n
        PROVE  e \in LiveEdges'
    <2>1. e.dst \in Nodes /\ e \in operands[e.dst]
      BY LiveEdge DEF IInv, EdgesAgree
    <2>2. e \notin users[n]
      BY <1>4 DEF IInv, EdgesAgree
    <2>3. e \in operands'[e.dst] /\ e.dst \in Nodes'
      BY <2>1, <2>2, <1>1, <1>2, <1>4
    <2> QED
      BY <2>3, LiveEdgeNext DEF IInv, TypeOK
  <1>5. LiveEdges' = {e \in LiveEdges : e.src # n /\ e.dst # n}
    BY <1>3, <1>4
  <1> QED
    BY <1>1, <1>5 DEF Rewriting!RemoveNode, Rewriting!Live, Nodes

LEMMA UpdateNodeNameRefines ==
    ASSUME IInv, NEW n \in Nodes, NEW nm \in NodeNames, UpdateNodeName(n, nm)
    PROVE  Rewriting!Rename(n, nm)
  <1>1. \A m \in Nodes \ {n} : name[m] # nm
    BY DEF IInv, NamesAgree, UpdateNodeName
  <1>2. LiveEdges' = LiveEdges
    BY DEF UpdateNodeName, LiveEdges
  <1> QED
    BY <1>1, <1>2 DEF Rewriting!Rename, Rewriting!Live, Nodes, UpdateNodeName

LEMMA AddEdgeRefines ==
    ASSUME IInv, IInv', NEW e \in Edge, NEW a, AddEdge(e, a)
    PROVE  Rewriting!AddEdge(e)
  <1>1. e.src \in Nodes /\ e.dst \in Nodes /\ Nodes' = Nodes /\ name' = name
    BY DEF AddEdge, Nodes
  <1>2. \A m \in Nodes : operands'[m] = IF m = e.dst THEN operands[m] \cup {e} ELSE operands[m]
    BY <1>1 DEF IInv, TypeOK, AddEdge
  <1>3. \A d : d \in LiveEdges' <=> d \in LiveEdges \/ d = e
    <2>1. \A d : d \in LiveEdges' <=> \E m \in Nodes : d \in operands'[m]
      BY <1>1, LiveEdgeNext DEF IInv, TypeOK
    <2>2. \A d : d \in LiveEdges <=> \E m \in Nodes : d \in operands[m]
      BY LiveEdge DEF IInv
    <2>3. e \in operands'[e.dst]
      BY <1>1, <1>2
    <2>4. \A m \in Nodes : \A d \in operands[m] : d \in operands'[m]
      BY <1>2
    <2>5. \A m \in Nodes : \A d \in operands'[m] : d \in operands[m] \/ d = e
      BY <1>2
    <2> QED
      BY <1>1, <2>1, <2>2, <2>3, <2>4, <2>5
  <1>4. LiveEdges' = LiveEdges \cup {e}
    BY <1>3
  <1> QED
    BY <1>1, <1>4 DEF Rewriting!AddEdge, Rewriting!Live, Nodes

LEMMA RemoveEdgeRefines ==
    ASSUME IInv, IInv', NEW e \in DOMAIN attrs, RemoveEdge(e)
    PROVE  UNCHANGED Rewriting!edgeSetVars \/ (e \in LiveEdges /\ Rewriting!RemoveEdge(e))
  <1>1. CASE e \notin operands[e.dst]
    BY <1>1 DEF RemoveEdge, Rewriting!edgeSetVars, LiveEdges
  <1>2. CASE e \in operands[e.dst]
    <2>1. e.dst \in Nodes /\ Nodes' = Nodes /\ name' = name
      BY DEF RemoveEdge, Nodes
    <2>2. operands' = [operands EXCEPT ![e.dst] = @ \ {e}]
      BY <1>2 DEF RemoveEdge
    <2>3. \A m \in Nodes : operands'[m] = operands[m] \ {e}
      BY <2>1, <2>2 DEF IInv, TypeOK, EdgesAgree
    <2>4. \A d : d \in LiveEdges' <=> d \in LiveEdges /\ d # e
      BY <2>1, <2>3, LiveEdge, LiveEdgeNext DEF IInv, TypeOK
    <2>5. LiveEdges' = LiveEdges \ {e} /\ e \in LiveEdges
      BY <2>1, <2>4, <1>2, LiveEdge DEF IInv
    <2> QED
      BY <2>1, <2>5 DEF Rewriting!RemoveEdge
  <1> QED
    BY <1>1, <1>2

LEMMA NextRefines ==
    ASSUME IInv, IInv', [Next]_graphVars
    PROVE  [Rewriting!EdgeSetNext]_(Rewriting!edgeSetVars)
  <1>1. ASSUME NEW nm \in NodeNames, AddNode(nm)
        PROVE  Rewriting!EdgeSetNext
    BY <1>1, AddNodeRefines DEF Rewriting!EdgeSetNext
  <1>2. ASSUME NEW n \in Nodes, RemoveNode(n)
        PROVE  Rewriting!EdgeSetNext
    BY <1>2, RemoveNodeRefines DEF Rewriting!EdgeSetNext, Rewriting!Live, Nodes
  <1>3. ASSUME NEW n \in Nodes, NEW nm \in NodeNames, UpdateNodeName(n, nm)
        PROVE  Rewriting!EdgeSetNext
    BY <1>3, UpdateNodeNameRefines, NodeIsId DEF Rewriting!EdgeSetNext, IInv
  <1>4. ASSUME NEW e \in PossibleEdges, NEW a \in Attrs, AddEdge(e, a)
        PROVE  Rewriting!EdgeSetNext
    BY <1>4, AddEdgeRefines DEF Rewriting!EdgeSetNext, PossibleEdges
  <1>5. ASSUME NEW p \in Nodes, NEW t \in EdgeTypes, NEW c \in Nodes, AppendEdge(p, c, t)
        PROVE  Rewriting!EdgeSetNext
    <2> DEFINE e == [src |-> p, out |-> 0, dst |-> c, in |-> NextPort(c), type |-> t]
    <2>1. AddEdge(e, DefaultAttr) /\ NextPort(c) \in PortIds /\ 0 \in PortIds
      BY <1>5 DEF AppendEdge
    <2>2. p \in NodeIds /\ c \in NodeIds
      BY NodeIsId DEF IInv
    <2>3. e \in Edge
      BY <2>1, <2>2 DEF Edge
    <2> QED
      BY <2>1, <2>3, AddEdgeRefines DEF Rewriting!EdgeSetNext
  <1>6. ASSUME NEW e \in DOMAIN attrs, RemoveEdge(e)
        PROVE  [Rewriting!EdgeSetNext]_(Rewriting!edgeSetVars)
    BY <1>6, RemoveEdgeRefines DEF Rewriting!EdgeSetNext
  <1>7. ASSUME UNCHANGED <<name, operands>>
        PROVE  UNCHANGED Rewriting!edgeSetVars
    BY <1>7 DEF Rewriting!edgeSetVars, LiveEdges
  <1>8. CASE UNCHANGED graphVars
    BY <1>7, <1>8 DEF graphVars
  <1>9. ASSUME NEW nm \in NodeNames, AddNodeThrows(nm)
        PROVE  UNCHANGED <<name, operands>>
    BY <1>9 DEF AddNodeThrows
  <1>10. ASSUME NEW e \in LiveEdges, NEW a \in Attrs, SetAttributes(e, a)
         PROVE  UNCHANGED <<name, operands>>
    BY <1>10 DEF SetAttributes
  <1>11. ASSUME NEW n \in Nodes, MarkNodeVirtual(n) \/ MarkNodePersisted(n)
         PROVE  UNCHANGED <<name, operands>>
    BY <1>11 DEF MarkNodeVirtual, MarkNodePersisted
  <1>12. ASSUME NEW n \in Nodes, AddModuleOutput(n) \/ RemoveModuleOutput(n)
         PROVE  UNCHANGED <<name, operands>>
    BY <1>12 DEF AddModuleOutput, RemoveModuleOutput
  <1>13. CASE UNCHANGED <<name, operands>>
    BY <1>7, <1>13
  <1>14. CASE Next
    BY <1>1, <1>2, <1>3, <1>4, <1>5, <1>6, <1>9, <1>10, <1>11, <1>12, <1>13, <1>14
       DEF Next
  <1> QED
    BY <1>8, <1>14

\* To the passes that rewrite it, a Graph is a set of named nodes and a set of
\* edges: removing a node removes exactly the edges at it, and every other call
\* changes one node or one edge (graph.cpp:471-512, 584-646).
THEOREM GraphRefinesEdgeSet == Spec => GraphIsAnEdgeSet
  <1>1. Init => Rewriting!EdgeSetInit
    BY DEF Init, Empty, LiveEdges, Rewriting!EdgeSetInit
  <1> QED
    BY <1>1, NextRefines, GraphInvariant, PTL
       DEF Spec, GraphIsAnEdgeSet, Rewriting!EdgeSetSpec
=============================================================================
