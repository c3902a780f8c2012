----------------------------- MODULE MCAccounts -----------------------------
EXTENDS Accounts, TLC

CONSTANTS a1, a2, c1, c2, r1, r2, p1, p2

(* Bounds of which every behaviour is given one: a third session, a third  *)
(* login, or tokens that are refreshed while logins and disconnects go on. *)
MCBounds ==
  {[time |-> 5, admins |-> 2, sessions |-> 3, logins |-> 0, minted |-> 0],
   [time |-> 3, admins |-> 1, sessions |-> 1, logins |-> 3, minted |-> 0],
   [time |-> 3, admins |-> 1, sessions |-> 1, logins |-> 2, minted |-> 3]}

MCLifetimes == {2}

Symmetry ==
  Permutations({a1, a2}) \cup Permutations({c1, c2}) \cup Permutations({r1, r2})
    \cup Permutations({p1, p2})
=============================================================================
