--------------------------- MODULE MCForgeRuntime ---------------------------
(***************************************************************************)
(* Forward and Optimizer programs over a weight and a constant, in         *)
(* different orders and with different layouts of the weight.              *)
(***************************************************************************)
EXTENDS ForgeRuntimeStore, TLC

MCPersistentInputs == ("Forward" :> <<"w", "c">>) @@ ("Optimizer" :> <<"c", "w">>)

MCLayoutOf ==
    ("Forward" :> [n \in Names |-> "tile"]) @@
    ("Optimizer" :> [n \in Names |-> IF n = "w" THEN "row" ELSE "tile"])

MCUpdated == {"w"}
=============================================================================
