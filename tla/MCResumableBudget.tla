------------------------- MODULE MCResumableBudget -------------------------
(* ResumableBudget for TLC: one life after another of a two-stage run. *)
EXTENDS ResumableBudget, TLC

CONSTANTS initial, repair

MCStages == {initial, repair}
MCPerRound == initial :> 2 @@ repair :> 2
MCTotal == initial :> 2 @@ repair :> 3
=============================================================================
