----------------------------- MODULE MCCatalog -----------------------------
(* Instances of Catalog for TLC: two providers, of which the environment   *)
(* configures the first as the OpenAI default, with a key.                 *)
EXTENDS Catalog, TLC

CONSTANTS p1, p2, k1, k2

MCConfigured ==
  [providers |-> [id \in {p1} |-> [protocol |-> "openai", baseURL |-> "http", enabled |-> TRUE]],
   defaults  |-> [p \in {"openai"} |-> p1],
   routes    |-> EmptyMap]

MCEnvironment == [id \in ProviderIDs |-> IF id = p1 THEN k1 ELSE NoKey]

(* Target lists of at most one provider; the empty one is refused.         *)
MCRoutes == {<<>>} \cup {<<id>> : id \in ProviderIDs}

AdminSymmetry == Permutations(Admins)
=============================================================================
