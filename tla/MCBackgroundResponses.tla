----------------------- MODULE MCBackgroundResponses -----------------------
(* Instances of BackgroundResponses for TLC.                               *)
EXTENDS BackgroundResponses, TLC

Symmetry == Permutations(Ids) \cup Permutations(Handlers)
=============================================================================
