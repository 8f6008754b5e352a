-------------------------- MODULE MCCompiledModel --------------------------
(***************************************************************************)
(* A model with two weights.  The backward program wants one of them in    *)
(* another layout than the forward program.  Compiled with an optimizer,   *)
(* it has a learning rate and a moment in the pool, beside a constant.     *)
(***************************************************************************)
EXTENDS CompiledModel, TLC

MCPersistentInputs ==
    ("Forward" :> <<"v", "c", "w">>) @@ ("Backward" :> <<"c", "w">>)
    @@ ("Optimizer" :> <<"w", "lr", "m", "v">>)

MCLayoutOf ==
    [p \in Programs |-> [n \in Names |->
        IF p = "Backward" /\ n = "w" THEN "row" ELSE "tile"]]

MCParameters == <<"v", "w">>

\* Adam's moment is state of the optimizer, updated with the weights.
MCUpdated == {"v", "w", "m"}
MCAliasedOutputs == <<"w", "v", "m">>

\* "w" is a suffix of the name of the other weight, as "weight" is of
\* "linear.weight".
MCNameIn == {<<"v", "v">>, <<"w", "w">>, <<"w", "v">>}
=============================================================================
