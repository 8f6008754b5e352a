------------------------------ MODULE GraphLib ------------------------------
(***************************************************************************)
(* Graph (csrc/graph_lib/graph.cpp, graph.hpp): the mutations all compiler *)
(* passes are built from.  The edges are kept twice, under their producer  *)
(* and under their consumer, and their attributes in a third map that no   *)
(* removal ever clears.  Ids come from one counter and are never reused.   *)
(***************************************************************************)
EXTENDS Naturals, Sequences, FiniteSets

CONSTANTS
    NodeNames, PortIds, EdgeTypes,
    Attrs, DefaultAttr,     \* EdgeAttributes, and what create() makes
    MaxNodes,               \* bound: node ids
    MaxEdges,               \* bound: edges a graph ever has
    MaxOutputs              \* bound: length of the list of module outputs

ASSUME GraphAssumption ==
    /\ DefaultAttr \in Attrs
    /\ MaxNodes \in Nat /\ MaxEdges \in Nat /\ MaxOutputs \in Nat
    /\ PortIds \subseteq Nat

NodeIds == 1..MaxNodes

\* Edge::unique_id: the creation id is not part of the identity of an edge.
Edge == [src : NodeIds, out : PortIds, dst : NodeIds, in : PortIds,
         type : EdgeTypes]

VARIABLES
    last_node_id,       \* last_node_id_assigned_
    name,               \* nodes_map_: the live nodes, each with its name
    node_id,            \* node_name_to_node_id_
    users,              \* users_map_
    operands,           \* operands_map_
    attrs,              \* edge_to_attr_map_
    virtual,            \* virtual_nodes_
    module_outputs      \* ordered_module_output_node_ids_

graphVars == <<last_node_id, name, node_id, users, operands, attrs, virtual,
               module_outputs>>

Nodes == DOMAIN name
Without(f, S) == [x \in DOMAIN f \ S |-> f[x]]
With(f, x, y) == [z \in DOMAIN f \cup {x} |-> IF z = x THEN y ELSE f[z]]

\* The edges a traversal finds from the consumers.
LiveEdges == UNION {operands[n] : n \in DOMAIN operands}

Empty == [x \in {} |-> x]

Init ==
    /\ last_node_id = 0
    /\ name = Empty /\ node_id = Empty
    /\ users = Empty /\ operands = Empty
    /\ attrs = Empty
    /\ virtual = {}
    /\ module_outputs = <<>>

-----------------------------------------------------------------------------
\* Nodes

AddNode(nm) ==
    LET id == last_node_id + 1
    IN  /\ last_node_id < MaxNodes
        /\ nm \notin DOMAIN node_id
        /\ last_node_id' = id
        /\ name' = With(name, id, nm)
        /\ node_id' = With(node_id, nm, id)
        /\ users' = With(users, id, {})
        /\ operands' = With(operands, id, {})
        /\ UNCHANGED <<attrs, virtual, module_outputs>>

\* The name is taken: add_node throws, the id is used up.
AddNodeThrows(nm) ==
    /\ last_node_id < MaxNodes
    /\ nm \in DOMAIN node_id
    /\ last_node_id' = last_node_id + 1
    /\ UNCHANGED <<name, node_id, users, operands, attrs, virtual,
                   module_outputs>>

\* Mutants of the next three: a node that stays virtual, and a removal that only
\* looks at one side of the edges.
StillMarked(n) == virtual
UsersAsBefore(n) == [m \in Nodes \ {n} |-> users[m]]
OperandsAsBefore(n) == [m \in Nodes \ {n} |-> operands[m]]

Unmarked(n) == virtual \ {n}
UsersBut(n) == [m \in Nodes \ {n} |-> users[m] \ operands[n]]
OperandsBut(n) == [m \in Nodes \ {n} |-> operands[m] \ (users[n] \ operands[n])]

\* The edges go from the maps of the neighbours, then the node from every map
\* but those of the attributes and of the module's outputs.
RemoveNode(n) ==
    /\ n \in Nodes
    /\ users' = UsersBut(n)
    /\ operands' = OperandsBut(n)
    /\ node_id' = Without(node_id, {name[n]})
    /\ name' = Without(name, {n})
    /\ virtual' = Unmarked(n)
    /\ UNCHANGED <<last_node_id, attrs, module_outputs>>

\* Mutant of Renamed: the old name stays.
RenamedTwice(n, nm) == With(node_id, nm, node_id[name[n]])

Renamed(n, nm) == With(Without(node_id, {name[n]}), nm, node_id[name[n]])

UpdateNodeName(n, nm) ==
    /\ n \in Nodes
    /\ nm \notin DOMAIN node_id \ {name[n]}     \* the callers' side
    /\ node_id' = Renamed(n, nm)
    /\ name' = [name EXCEPT ![n] = nm]
    /\ UNCHANGED <<last_node_id, users, operands, attrs, virtual,
                   module_outputs>>

-----------------------------------------------------------------------------
\* Edges

\* Mutant of WithAttributes: no attributes for an edge added without any.
WithExplicitAttributes(e, a) == IF a = DefaultAttr THEN attrs ELSE With(attrs, e, a)

\* unordered_map::insert leaves the attributes of a known id as they are.
WithAttributes(e, a) == IF e \in DOMAIN attrs THEN attrs ELSE With(attrs, e, a)

AddEdge(e, a) ==
    /\ e.src \in Nodes /\ e.dst \in Nodes
    /\ Cardinality(DOMAIN attrs \cup {e}) <= MaxEdges
    /\ users' = [users EXCEPT ![e.src] = @ \cup {e}]
    /\ operands' = [operands EXCEPT ![e.dst] = @ \cup {e}]
    /\ attrs' = WithAttributes(e, a)
    /\ UNCHANGED <<last_node_id, name, node_id, virtual, module_outputs>>

NextPort(n) ==
    IF operands[n] = {} THEN 0
    ELSE 1 + CHOOSE p \in PortIds :
                 /\ \E e \in operands[n] : e.in = p
                 /\ \A e \in operands[n] : e.in <= p

\* add_edge without ports: after the last operand of the consumer.
AppendEdge(p, c, t) ==
    /\ p \in Nodes /\ c \in Nodes
    /\ NextPort(c) \in PortIds /\ 0 \in PortIds
    /\ AddEdge([src |-> p, out |-> 0, dst |-> c, in |-> NextPort(c), type |-> t],
               DefaultAttr)

RemoveEdge(e) ==
    /\ e \in DOMAIN attrs
    /\ e.dst \in Nodes /\ e.src \in Nodes
    /\ IF e \in operands[e.dst]
       THEN /\ users' = [users EXCEPT ![e.src] = @ \ {e}]
            /\ operands' = [operands EXCEPT ![e.dst] = @ \ {e}]
       ELSE UNCHANGED <<users, operands>>
    /\ UNCHANGED <<last_node_id, name, node_id, attrs, virtual,
                   module_outputs>>

\* get_edge_attributes hands out the attributes, which the caller changes.
SetAttributes(e, a) ==
    /\ e \in LiveEdges
    /\ attrs' = [attrs EXCEPT ![e] = a]
    /\ UNCHANGED <<last_node_id, name, node_id, users, operands, virtual,
                   module_outputs>>

-----------------------------------------------------------------------------
\* Marks and lists of nodes

MarkNodeVirtual(n) ==
    /\ n \in Nodes
    /\ virtual' = virtual \cup {n}
    /\ UNCHANGED <<last_node_id, name, node_id, users, operands, attrs,
                   module_outputs>>

MarkNodePersisted(n) ==
    /\ n \in virtual
    /\ virtual' = Unmarked(n)
    /\ UNCHANGED <<last_node_id, name, node_id, users, operands, attrs,
                   module_outputs>>

AddModuleOutput(n) ==
    /\ n \in Nodes
    /\ Len(module_outputs) < MaxOutputs
    /\ module_outputs' = Append(module_outputs, n)
    /\ UNCHANGED <<last_node_id, name, node_id, users, operands, attrs,
                   virtual>>

\* The first occurrence goes.
RemoveModuleOutput(n) ==
    /\ \E i \in DOMAIN module_outputs :
          /\ module_outputs[i] = n
          /\ \A j \in 1..(i - 1) : module_outputs[j] # n
          /\ module_outputs' = SubSeq(module_outputs, 1, i - 1)
                               \o SubSeq(module_outputs, i + 1, Len(module_outputs))
    /\ UNCHANGED <<last_node_id, name, node_id, users, operands, attrs,
                   virtual>>

-----------------------------------------------------------------------------
\* No pass connects a node to itself.
PossibleEdges == {e \in Edge : {e.src, e.dst} \subseteq Nodes /\ e.src # e.dst}

Next ==
    \/ \E nm \in NodeNames : AddNode(nm) \/ AddNodeThrows(nm)
    \/ \E n \in Nodes : RemoveNode(n)
    \/ \E n \in Nodes, nm \in NodeNames : UpdateNodeName(n, nm)
    \/ \E e \in PossibleEdges, a \in Attrs : AddEdge(e, a)
    \/ \E p \in Nodes, t \in EdgeTypes :
          \E c \in Nodes \ {p} : AppendEdge(p, c, t)
    \/ \E e \in DOMAIN attrs : RemoveEdge(e)
    \/ \E e \in LiveEdges, a \in Attrs : SetAttributes(e, a)
    \/ \E n \in Nodes : MarkNodeVirtual(n) \/ MarkNodePersisted(n)
    \/ \E n \in Nodes : AddModuleOutput(n) \/ RemoveModuleOutput(n)

Spec == Init /\ [][Next]_graphVars

-----------------------------------------------------------------------------
TypeOK ==
    /\ last_node_id \in 0..MaxNodes
    /\ Nodes \subseteq 1..last_node_id /\ name \in [Nodes -> NodeNames]
    /\ DOMAIN node_id \subseteq NodeNames /\ node_id \in [DOMAIN node_id -> Nodes]
    /\ users \in [Nodes -> SUBSET Edge] /\ operands \in [Nodes -> SUBSET Edge]
    /\ DOMAIN attrs \subseteq Edge /\ attrs \in [DOMAIN attrs -> Attrs]
    /\ virtual \subseteq Nodes
    /\ module_outputs \in Seq(NodeIds)

\* The two copies of the edges are one set of edges, between live nodes, each
\* under its own producer and consumer (graph.cpp:471-512, 584-604).
EdgesAgree ==
    /\ \A n \in Nodes : \A e \in users[n] :
          e.src = n /\ e.dst \in Nodes /\ e \in operands[e.dst]
    /\ \A n \in Nodes : \A e \in operands[n] :
          e.dst = n /\ e.src \in Nodes /\ e \in users[e.src]

\* get_edge_attributes never throws for an edge of the graph, although the map
\* outlives the edges and is never looked at by removals (graph.cpp:514-517).
EdgesHaveAttributes == LiveEdges \subseteq DOMAIN attrs

\* A name leads to the live node that has it, and every node can be found by
\* its name (graph.cpp:27-59, graph.hpp:351-358).
NamesAgree ==
    /\ \A nm \in DOMAIN node_id : name[node_id[nm]] = nm
    /\ \A n \in Nodes : name[n] \in DOMAIN node_id /\ node_id[name[n]] = n

\* Whatever is added, removed and renamed, the redundant maps describe one graph.
MapsAgree == EdgesAgree /\ EdgesHaveAttributes /\ NamesAgree

\* A Graph is a set of nodes and a set of edges.
Rewriting == INSTANCE EdgeSet
                WITH named <- name, edges <- LiveEdges,
                     Id <- NodeIds, NodeName <- NodeNames
GraphIsAnEdgeSet == Rewriting!EdgeSetSpec
=============================================================================
