------------------------ MODULE MCPrimaryWorkflow ------------------------
(* PrimaryWorkflow for TLC: two schedules, a model that may change once, *)
(* and predictions under which b is faster and then slower than a, ties  *)
(* and then is faster, or is the only one to execute once the model has  *)
(* changed while a is the only one before.                               *)
EXTENDS PrimaryWorkflow, TLC
CONSTANTS a, b
MCScheds == {a, b}
MCTables == {a :> (0 :> p[1] @@ 1 :> p[2]) @@ b :> (0 :> p[3] @@ 1 :> p[4]) :
    p \in {<<2, 2, 1, 3>>, <<2, 2, 2, 1>>, <<2, 0, 0, 1>>}}
=============================================================================
