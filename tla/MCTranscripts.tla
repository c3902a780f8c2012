--------------------------- MODULE MCTranscripts ---------------------------
(* Instances of Transcripts for TLC.                                       *)
EXTENDS Transcripts, TLC

Symmetric == Permutations(Turns) \cup Permutations(Editors)
=============================================================================
