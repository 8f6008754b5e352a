--------------------------- MODULE MCTrainingStep ---------------------------
(***************************************************************************)
(* Modules over one activation and two weights.                            *)
(***************************************************************************)
EXTENDS TrainingStep

X == <<"x">>
W == <<"w">>
V == <<"v">>
ActivationList == <<X>>
WeightSet == {W, V}

Exp101 == [a \in 0..100 |-> (a * a * a + 7) % 101]
At == [l \in Leaves |-> CASE l = X -> 5 [] l = W -> 11 [] l = V -> 17]
Seeds == <<23, 41>>

Ops == {"Add", "Multiply", "Exp", "Nop"}
Small(trained, optimizer, recompute) ==
    [ops |-> Ops, size |-> 2, weights |-> {W, V},
     trained |-> trained, optimizer |-> optimizer, recompute |-> recompute]

\* Three operations over one weight: more gradients to add up, more values to save.
Deep(trained, recompute) ==
    [ops |-> {"Multiply", "Nop"}, size |-> 3, weights |-> {W},
     trained |-> trained, optimizer |-> FALSE, recompute |-> recompute]

SmallFamilies ==
    {Small({W, V}, FALSE, FALSE), Small({X, W}, FALSE, TRUE),
     Small({W, V}, TRUE, FALSE), Small({V}, TRUE, TRUE)}
AllFamilies == SmallFamilies \cup {Deep({W}, FALSE), Deep({X, W}, TRUE)}
=============================================================================
