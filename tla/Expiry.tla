------------------------------- MODULE Expiry -------------------------------
(***************************************************************************)
(* The clock, and what the two registers the gateway keeps in memory have  *)
(* in common: the pending logins (MemoryStateRepository) and the admin     *)
(* sessions (SessionAuth).  Both drop what has expired before they take    *)
(* something in, and at their capacity also the oldest entry.              *)
(*                                                                         *)
(* An entry is the number it was given when it was made; its time of birth *)
(* never changes, so born is a function of everything that was ever made   *)
(* and the register itself a set.                                          *)
(***************************************************************************)
EXTENDS Naturals, FiniteSets

CONSTANTS Providers,  \* those with an OAuth profile
          NoProvider

ASSUME ProvidersAssumption == NoProvider \notin Providers

VARIABLE now

Live(held, born, ttl, t) == {x \in held : t < born[x] + ttl}

Newest(held, born) == {x \in held : \A y \in held : born[x] >= born[y]}

(* Entries of one age are told apart by their random keys: any may go.     *)
Oldest(held, born) == {x \in held : \A y \in held : born[x] <= born[y]}

NoEviction(held, born, cap) == {held}

(* The register before an insertion.                                       *)
Room(held, born, cap) ==
  IF Cardinality(held) >= cap
    THEN {held \ {x} : x \in Oldest(held, born)}
    ELSE {held}
=============================================================================
