-------------------------- MODULE MCBudgetManager --------------------------
(* Instances of BudgetManager for TLC: two stages, one of them 'initial'. *)
EXTENDS BudgetManager, TLC

CONSTANTS initial, repair

MCStages == {initial, repair}
MCPerRound == initial :> 2 @@ repair :> 2
MCTotal == initial :> 2 @@ repair :> 3
=============================================================================
