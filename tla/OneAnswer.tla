------------------------------ MODULE OneAnswer -----------------------------
(***************************************************************************)
(* What the README (84-86) and COMPATIBILITY.md (86-90) promise of a       *)
(* request with several targets, whatever happens inside an attempt: the   *)
(* targets are tried in order, at most one of them speaks, only the one    *)
(* that may still speak keeps anything of the request, and once a target   *)
(* has spoken or kept something no other is tried.                         *)
(***************************************************************************)
EXTENDS Naturals

VARIABLES targets,   \* how many targets the request's plan has
          passed,    \* how many of them were given up
          author,    \* who speaks to the client: a target, Gateway or Nobody
          keepers    \* the targets that kept a turn or a job of this request

vars == <<targets, passed, author, keepers>>

Nobody == 0
Gateway == targets + 1

Init ==
  /\ targets \in Nat \ {0}
  /\ passed = 0
  /\ author = Nobody
  /\ keepers = {}

(* The current target is given up; nothing of the attempt may remain.      *)
PassOver ==
  /\ passed < targets
  /\ author = Nobody /\ keepers = {}
  /\ passed' = passed + 1
  /\ UNCHANGED <<targets, author, keepers>>

(* The current target speaks; it may keep the turn in the same step.       *)
Speak ==
  /\ passed < targets
  /\ author = Nobody
  /\ author' = passed + 1
  /\ keepers' \in {keepers, {passed + 1}}
  /\ UNCHANGED <<targets, passed>>

Keep ==
  /\ passed < targets
  /\ author \in {Nobody, passed + 1}
  /\ keepers' = {passed + 1}
  /\ UNCHANGED <<targets, passed, author>>

(* The gateway itself answers: before the first attempt (a request it      *)
(* cannot read) or when every target was given up.                         *)
SpeakForItself ==
  /\ passed \in {0, targets}
  /\ author = Nobody /\ keepers = {}
  /\ author' = Gateway
  /\ UNCHANGED <<targets, passed, keepers>>

Next == PassOver \/ Speak \/ Keep \/ SpeakForItself

Spec == Init /\ [][Next]_vars
=============================================================================
