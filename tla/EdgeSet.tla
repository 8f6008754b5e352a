------------------------------ MODULE EdgeSet ------------------------------
(***************************************************************************)
(* What a Graph is to the passes that rewrite it: a set of named nodes and *)
(* a set of edges between them.                                            *)
(***************************************************************************)
EXTENDS Naturals

CONSTANTS
    Id, NodeName,       \* what a node is known by
    Edge                \* records with at least the fields src and dst

VARIABLES
    named,      \* the name of each node, a function on the live nodes
    edges       \* the edges between live nodes

edgeSetVars == <<named, edges>>

Live == DOMAIN named

EdgeSetInit == named = [n \in {} |-> n] /\ edges = {}

AddNode(n, nm) ==
    /\ n \notin Live
    /\ \A m \in Live : named[m] # nm
    /\ named' = [m \in Live \cup {n} |-> IF m = n THEN nm ELSE named[m]]
    /\ UNCHANGED edges

\* A node leaves with all its edges, and nothing else does.
RemoveNode(n) ==
    /\ n \in Live
    /\ named' = [m \in Live \ {n} |-> named[m]]
    /\ edges' = {e \in edges : e.src # n /\ e.dst # n}

Rename(n, nm) ==
    /\ n \in Live
    /\ \A m \in Live \ {n} : named[m] # nm
    /\ named' = [named EXCEPT ![n] = nm]
    /\ UNCHANGED edges

AddEdge(e) ==
    /\ e.src \in Live /\ e.dst \in Live
    /\ edges' = edges \cup {e}
    /\ UNCHANGED named

RemoveEdge(e) ==
    /\ edges' = edges \ {e}
    /\ UNCHANGED named

EdgeSetNext ==
    \/ \E n \in Id, nm \in NodeName : AddNode(n, nm) \/ Rename(n, nm)
    \/ \E n \in Live : RemoveNode(n)
    \/ \E e \in Edge : AddEdge(e)
    \/ \E e \in edges : RemoveEdge(e)

EdgeSetSpec == EdgeSetInit /\ [][EdgeSetNext]_edgeSetVars
=============================================================================
