-------------------------- MODULE MCResponseStream --------------------------
(* Instances of ResponseStream for TLC.                                    *)
EXTENDS ResponseStream

(* Every pair of formats and every option; one block at most has arguments *)
(* that are no JSON object, and an upstream without ids is lawful.         *)
TestPipes ==
  {q \in AllPipes :
     /\ q.broken \subseteq {0}
     /\ ~q.named => q.lawful}
=============================================================================
